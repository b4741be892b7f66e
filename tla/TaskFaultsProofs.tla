-------------------------- MODULE TaskFaultsProofs --------------------------
(***************************************************************************)
(* Task dispatch when things fail, for any number of tasks.                *)
(*                                                                         *)
(* One process whose writes fail, whose calls are lost and which dies and  *)
(* starts again, and any request but a rework or a bulk rework: an end is  *)
(* final unless a release or a recovery that looked before it writes it    *)
(* over, and an output kept for a new run stays until that run has one.    *)
(*                                                                         *)
(* Any number of processes, and any request: no row is stranded, as long   *)
(* as no thread dies and no write fails, the provider answers with a       *)
(* status, and forgets no job or is watched by the one process above.      *)
(*                                                                         *)
(* Calls that are answered and recorded: a task makes at most as many      *)
(* provider jobs as it was asked to run, in the one process above, and in  *)
(* any number of processes when nothing is asked for again and no claim    *)
(* goes stale under a live process.                                        *)
(***************************************************************************)
EXTENDS TaskDispatchProofs

(* Every fault may happen.  Not every request: a rework writes the row, or *)
(* publishes the copy, that it read some time before, and the row an older *)
(* release failed may be requeued and cancelled while the monitor          *)
(* reconciles the old copy.                                                *)
NoOldRows == \A t \in Task : LegacyJob[t] = NoJob
Faulty    == OneProcess /\ NoOldRows /\ Requests \cap {"rework", "bulk"} = {}

(* A row, by itself: one with a provider job to poll knows it.             *)
Sound(r, g) ==
    /\ g = 0 => ~r.exists
    /\ ~r.exists => r.status = "PENDING_SUBMIT" /\ r.outs = NoJob
    /\ Polls(r) => r.job # NoJob
    /\ r.verdict # "legacy"

(* A copy may be behind a row that was asked to run again, and before a    *)
(* row it could not be recorded in; but it knows of the row's end, of the  *)
(* provider job the row has, and of a registered output.                   *)
Follows(c, r, g) == c.held =>
    /\ g # 0
    /\ r.status \in TERMINAL_STATES => c.status = r.status
    /\ Polls(r) => c.status \notin PENDING_STATES /\ c.job = r.job
    /\ r.outs # NoJob => c.outs # NoJob \/ c.keep
    /\ Polls(c) => c.job # NoJob
    /\ c.verdict # "legacy"

(* What the copy is like while the lock is held for a call about it.       *)
Awaits(l, c, r, m) == l.op # "free" =>
    /\ c.held /\ l.op # "legacy"
    /\ l.op \in {"poll", "recover"} => Polls(c)
    /\ l.op = "cancel" => c.status \notin TERMINAL_STATES
    /\ l.op = "import" => c.status = "COMPLETED" /\ c.outs = NoJob
    /\ l.op = "post" => /\ r.status \in PENDING_STATES
                        /\ l.by = "monitor" /\ m.pc = "legacy" /\ l.sub # NoJob

(* What the monitor's list is like, and the task whose job has vanished.   *)
Polling == {"poll", "gone", "failed"}
Expects(m, copies, rows, gens) ==
    /\ m.pc # "relegacy"
    /\ m.pc \in Polling => \A t \in m.todo :
          gens[t] # 0 /\ (copies[t].held /\ Polls(copies[t]) => Polls(rows[t]))
Misses404(m, l, copies, rows, J) == m.pc = "gone" =>
    LET c == copies[m.task] IN
    /\ c.held /\ Polls(c) /\ c.job \in Job /\ ~J[c.job].known
    /\ Polls(rows[m.task])
    /\ l.op # "free" => l.task # m.task

RowsSound    == \A t \in Task : Sound(row[t], gen[t])
CopiesFollow == \A p \in App, t \in Task : Follows(JOBS[p][t], row[t], gen[t])
LocksAwait   == \A p \in App : Awaits(lock[p], JOBS[p][lock[p].task], row[lock[p].task], mon[p])
ListsExpect  == \A p \in App : Expects(mon[p], JOBS[p], row, gen)
GoneIsOpen   == \A p \in App : Misses404(mon[p], lock[p], JOBS[p], row, job)

InStep == RowsSound /\ CopiesFollow /\ LocksAwait /\ ListsExpect /\ GoneIsOpen /\ NothingAsked

(* What a step may not do to a row, unless it asks it to run again or      *)
(* writes it over: then, too, the output stays.                            *)
Remains(r, n) == /\ r.status \in TERMINAL_STATES => n.status = r.status
                 /\ r.outs # NoJob => n.outs # NoJob
RowsRemain == \A t \in Task :
    \/ gen'[t] > gen[t]
    \/ Remains(row[t], row'[t])
    \/ /\ WrittenOver(t) /\ row'[t].status = "PENDING_SUBMIT"
       /\ row[t].outs # NoJob => row'[t].outs # NoJob

-----------------------------------------------------------------------------
(* Rows and copies.                                                        *)

LEMMA RestoreFollows ==
    ASSUME NEW r \in Rows, NEW g, Sound(r, g), g # 0
    PROVE  Restore(r) \in Entries /\ Restore(r).held /\ Follows(Restore(r), r, g)
           /\ (Polls(Restore(r)) <=> Polls(r)) /\ Restore(r).status = r.status
           /\ Restore(r).job = r.job
  <1>1. Restore(r) \in Entries
    BY RestoreType
  <1>2. /\ Restore(r).held /\ Restore(r).status = r.status /\ Restore(r).job = r.job
        /\ Restore(r).verdict = r.verdict /\ Restore(r).keep = r.keep
        /\ Restore(r).outs = r.outs \/ (r.keep /\ Restore(r).outs = NoJob)
    BY DEF Restore
  <1> QED
    BY <1>1, <1>2 DEF Follows, Sound, Polls, PENDING_STATES

(* Recording a copy that follows its row leaves a row it follows.          *)
LEMMA RecordedFollows ==
    ASSUME NEW c \in Entries, NEW r \in Rows, NEW g, c.held, Follows(c, r, g)
    PROVE  LET n == Recorded(c, r) IN
           n \in Rows /\ Sound(n, g) /\ Follows(c, n, g) /\ Remains(r, n)
           /\ n.status = c.status
  <1> DEFINE n == Recorded(c, r)
  <1>1. n \in Rows
    BY RecordedType
  <1>2. /\ n.exists /\ n.status = c.status /\ n.job = c.job /\ n.verdict = c.verdict
        /\ n.outs = IF c.outs # NoJob \/ ~c.keep THEN c.outs ELSE r.outs
    BY DEF Recorded
  <1> HIDE DEF n
  <1>3. Sound(n, g)
    BY <1>2 DEF Sound, Follows, Polls
  <1>4. Follows(c, n, g)
    BY <1>2 DEF Follows, Polls
  <1>5. Remains(r, n)
    BY <1>2 DEF Remains, Follows
  <1> QED
    BY <1>1, <1>2, <1>3, <1>4, <1>5 DEF n

LEMMA LoadedFollows ==
    ASSUME TypeInv, InStep, NEW p \in App, NEW t \in Task,
           JOBS[p][t].held \/ gen[t] # 0
    PROVE  LET c == Loaded(p, t) IN
           /\ c \in Entries /\ c.held /\ Follows(c, row[t], gen[t])
           /\ c = JOBS[p][t] \/ (~JOBS[p][t].held /\ (Polls(c) => Polls(row[t])))
  <1>1. row[t] \in Rows /\ JOBS[p][t] \in Entries /\ Sound(row[t], gen[t])
        /\ Follows(JOBS[p][t], row[t], gen[t])
    BY DEF TypeInv, DbOK, CopiesOK, InStep, RowsSound, CopiesFollow
  <1>2. CASE JOBS[p][t].held
    BY <1>1, <1>2 DEF Loaded
  <1>3. CASE ~JOBS[p][t].held
    BY <1>1, <1>3, RestoreFollows DEF Loaded
  <1> QED
    BY <1>2, <1>3

LEMMA FoundFollows ==
    ASSUME TypeInv, InStep, NEW p \in App, NEW t \in Task, Found(p, t)
    PROVE  LET c == Loaded(p, t) IN
           /\ c \in Entries /\ c.held /\ Follows(c, row[t], gen[t])
           /\ c = JOBS[p][t] \/ (~JOBS[p][t].held /\ (Polls(c) => Polls(row[t])))
  <1>1. JOBS[p][t].held \/ gen[t] # 0
    BY DEF Found, InStep, RowsSound, Sound
  <1> QED
    BY <1>1, LoadedFollows

-----------------------------------------------------------------------------
(* The effect of a step that puts copy d of task t into memory, and        *)
(* perhaps into the database.                                              *)

Puts(p, t, d) == Record(p, t, d) \/ Cache(p, t, d)

LEMMA Put ==
    ASSUME OneProcess, TypeInv, InStep, NEW p \in App, NEW t \in Task, NEW d \in Entries,
           Puts(p, t, d), d.held, Follows(d, row[t], gen'[t]),
           gen[t] # 0 => gen'[t] = gen[t], \A s \in Task \ {t} : gen'[s] = gen[s]
    PROVE  /\ RowsSound' /\ CopiesFollow' /\ RowsRemain
           /\ \A s \in Task \ {t} : row'[s] = row[s] /\ JOBS'[p][s] = JOBS[p][s]
           /\ JOBS'[p][t] = d
           /\ row'[t] = row[t] \/ row'[t].status = d.status
  <1>1. row[t] \in Rows /\ Sound(row[t], gen[t])
    BY DEF TypeInv, DbOK, InStep, RowsSound
  <1>2. /\ \A s \in Task \ {t} : row'[s] = row[s] /\ JOBS'[p][s] = JOBS[p][s]
        /\ JOBS'[p][t] = d
        /\ row'[t] = row[t] \/ row'[t] = Recorded(d, row[t])
    BY DEF Puts, Record, Cache, TypeInv, DbOK, CopiesOK
  <1>3. gen'[t] # 0
    BY DEF Follows
  <1>4. Sound(row[t], gen'[t])
    BY <1>1, <1>3 DEF Sound
  <1>5. /\ Sound(row'[t], gen'[t]) /\ Follows(d, row'[t], gen'[t]) /\ Remains(row[t], row'[t])
        /\ row'[t] = row[t] \/ row'[t].status = d.status
    BY <1>1, <1>2, <1>4, RecordedFollows DEF Remains
  <1>6. RowsSound'
    BY <1>2, <1>5 DEF RowsSound, InStep
  <1>7. CopiesFollow'
    <2> SUFFICES ASSUME NEW q \in App, NEW s \in Task
                 PROVE  Follows(JOBS'[q][s], row'[s], gen'[s])
      BY DEF CopiesFollow
    <2>1. q = p
      BY DEF OneProcess
    <2> QED
      BY <2>1, <1>2, <1>5 DEF InStep, CopiesFollow
  <1>8. RowsRemain
    BY <1>2, <1>5 DEF RowsRemain, Remains
  <1> QED
    BY <1>2, <1>5, <1>6, <1>7, <1>8

-----------------------------------------------------------------------------
(* The effect on the lock and on the monitor's list.                       *)

(* A list only shrinks, and its tasks do not start to be polled in memory. *)
Shrinks(m, p) ==
    /\ m.pc # "relegacy"
    /\ m.pc \in Polling => mon[p].pc \in Polling /\ m.todo \subseteq mon[p].todo

KnowsLess == \A j \in Job : job'[j].known => job[j].known

LEMMA Acts ==
    ASSUME OneProcess, TypeInv, InStep, NEW p \in App, NEW t \in Task, NEW d \in Entries,
           Puts(p, t, d), d.held, Follows(d, row[t], gen'[t]),
           gen[t] # 0 => gen'[t] = gen[t], \A s \in Task \ {t} : gen'[s] = gen[s],
           NEW m, NEW l, mon'[p] = m, lock'[p] = l, UNCHANGED ask,
           Shrinks(m, p),
           m.pc \in Polling /\ t \in m.todo =>
               (Polls(d) => Polls(row'[t]) \/ (JOBS[p][t].held /\ Polls(JOBS[p][t]))),
           l.op # "free" => l.task = t /\ Awaits(l, d, row'[t], m),
           Misses404(m, l, JOBS'[p], row', job')
    PROVE  InStep' /\ RowsRemain
  <1>1. /\ RowsSound' /\ CopiesFollow' /\ RowsRemain
        /\ \A s \in Task \ {t} : row'[s] = row[s] /\ JOBS'[p][s] = JOBS[p][s]
        /\ JOBS'[p][t] = d
        /\ row'[t] = row[t] \/ row'[t].status = d.status
    BY Put
  <1>2. \A q \in App : q = p
    BY DEF OneProcess
  <1>3. LocksAwait'
    BY <1>1, <1>2 DEF LocksAwait, Awaits
  <1>4. Expects(m, JOBS'[p], row', gen')
    <2> SUFFICES ASSUME m.pc \in Polling, NEW s \in m.todo
                 PROVE  gen'[s] # 0 /\ (JOBS'[p][s].held /\ Polls(JOBS'[p][s]) => Polls(row'[s]))
      BY DEF Expects, Shrinks
    <2>1. s \in Task /\ gen[s] # 0
          /\ (JOBS[p][s].held /\ Polls(JOBS[p][s]) => Polls(row[s]))
      BY DEF Shrinks, InStep, ListsExpect, Expects, TypeInv, MonOK, Monitors
    <2>2. CASE s # t
      BY <2>1, <2>2, <1>1
    <2>3. CASE s = t
      BY <2>1, <2>3, <1>1 DEF Polls
    <2> QED
      BY <2>2, <2>3
  <1>5. ListsExpect' /\ GoneIsOpen'
    BY <1>2, <1>4 DEF ListsExpect, GoneIsOpen
  <1>6. NothingAsked'
    BY DEF InStep, NothingAsked
  <1> QED
    BY <1>1, <1>3, <1>5, <1>6 DEF InStep

(* The vanished job while the monitor waits for the lock.                  *)
LEMMA GoneStays ==
    ASSUME OneProcess, TypeInv, InStep, NEW p \in App, NEW t \in Task, NEW d \in Entries,
           Puts(p, t, d), UNCHANGED mon, KnowsLess, NEW l,
           mon[p].pc = "gone" /\ mon[p].task = t =>
               d.held /\ Polls(d) /\ d.job = JOBS[p][t].job /\ Polls(row'[t]) /\ l.op = "free",
           l.op # "free" => l.task = t
    PROVE  Misses404(mon[p], l, JOBS'[p], row', job')
  <1> SUFFICES ASSUME mon[p].pc = "gone"
               PROVE  LET c == JOBS'[p][mon[p].task] IN
                      /\ c.held /\ Polls(c) /\ c.job \in Job /\ ~job'[c.job].known
                      /\ Polls(row'[mon[p].task])
                      /\ l.op # "free" => l.task # mon[p].task
    BY DEF Misses404
  <1>1. /\ \A s \in Task \ {t} : row'[s] = row[s] /\ JOBS'[p][s] = JOBS[p][s]
        /\ JOBS'[p][t] = d
    BY DEF Puts, Record, Cache, TypeInv, DbOK, CopiesOK
  <1>2. mon[p].task \in Task
    BY DEF TypeInv, MonOK, Refers
  <1>3. LET c == JOBS[p][mon[p].task] IN
        c.held /\ Polls(c) /\ c.job \in Job /\ ~job[c.job].known /\ Polls(row[mon[p].task])
    BY DEF InStep, GoneIsOpen, Misses404
  <1>4. CASE mon[p].task = t
    BY <1>1, <1>3, <1>4 DEF KnowsLess
  <1>5. CASE mon[p].task # t
    BY <1>1, <1>2, <1>3, <1>5 DEF KnowsLess
  <1> QED
    BY <1>4, <1>5

(* Steps that leave the copies and the lock alone, and the rows but for    *)
(* their leases and the moves between the pending states.                  *)
Waits(r, n) ==
    /\ n.exists = r.exists /\ n.job = r.job /\ n.outs = r.outs /\ n.keep = r.keep
    /\ n.verdict = r.verdict
    /\ n.status = r.status \/ (r.exists /\ {r.status, n.status} \subseteq PENDING_STATES)

LEMMA Waiting ==
    ASSUME OneProcess, TypeInv, InStep, NEW p \in App,
           \A t \in Task : Waits(row[t], row'[t]), UNCHANGED <<gen, JOBS, lock, ask>>, KnowsLess,
           NEW m, mon'[p] = m, m.pc # "relegacy",
           lock[p].op = "post" => m.pc = "legacy",
           m.pc \in Polling => \A t \in m.todo :
               t \in Task /\ gen[t] # 0 /\ (JOBS[p][t].held /\ Polls(JOBS[p][t]) => Polls(row[t])),
           m.pc = "gone" => m = mon[p]
    PROVE  InStep' /\ RowsRemain
  <1>1. \A q \in App : q = p
    BY DEF OneProcess
  <1>2. \A t \in Task : /\ row'[t].status \in TERMINAL_STATES <=> row[t].status \in TERMINAL_STATES
                        /\ row'[t].status \in TERMINAL_STATES => row'[t].status = row[t].status
                        /\ row'[t].status \in PENDING_STATES <=> row[t].status \in PENDING_STATES
                        /\ Polls(row'[t]) <=> Polls(row[t])
    BY DEF Waits, Polls, PENDING_STATES, TERMINAL_STATES
  <1>3. RowsSound' /\ RowsRemain
    <2> SUFFICES ASSUME NEW t \in Task PROVE Sound(row'[t], gen'[t]) /\ Remains(row[t], row'[t])
      BY DEF RowsSound, RowsRemain
    <2>1. Sound(row[t], gen[t]) /\ Waits(row[t], row'[t]) /\ gen'[t] = gen[t]
      BY DEF InStep, RowsSound
    <2> QED
      BY <2>1, <1>2 DEF Sound, Waits, Remains
  <1>4. CopiesFollow'
    BY <1>2 DEF InStep, CopiesFollow, Follows, Waits
  <1>5. LocksAwait'
    <2>1. lock[p].op # "free" => lock[p].task \in Task
      BY DEF TypeInv, LockOK
    <2> QED
      BY <2>1, <1>1, <1>2 DEF InStep, LocksAwait, Awaits
  <1>6. ListsExpect'
    BY <1>1, <1>2 DEF ListsExpect, Expects
  <1>7. GoneIsOpen'
    <2> SUFFICES ASSUME m.pc = "gone" PROVE Misses404(m, lock[p], JOBS[p], row', job')
      BY <1>1 DEF GoneIsOpen, Misses404
    <2>1. Misses404(m, lock[p], JOBS[p], row, job) /\ m.task \in Task
      BY DEF InStep, GoneIsOpen, TypeInv, MonOK, Refers
    <2> QED
      BY <2>1, <1>2 DEF Misses404, KnowsLess
  <1> QED
    BY <1>3, <1>4, <1>5, <1>6, <1>7 DEF InStep, NothingAsked

(* A recovery, or a release, writes rows over whatever they have become.   *)
Rewritten(r, n) ==
    /\ n.exists = r.exists /\ n.job = r.job /\ n.outs = r.outs /\ n.keep = r.keep
    /\ n.verdict = r.verdict /\ n.status = "PENDING_SUBMIT"

LEMMA Rewriting ==
    ASSUME OneProcess, TypeInv, InStep, NEW p \in App,
           \A t \in Task : row'[t] = row[t] \/ (WrittenOver(t) /\ Rewritten(row[t], row'[t])),
           UNCHANGED <<gen, JOBS, lock, ask, job>>,
           mon'[p].pc \in {"dispatch", "legacy"},
           lock[p].op # "post"
    PROVE  InStep' /\ RowsRemain
  <1>1. \A q \in App : q = p
    BY DEF OneProcess
  <1>2. \A t \in Task : row'[t] = row[t] \/ (row'[t].status \in PENDING_STATES /\ ~Polls(row'[t])
                                              /\ row'[t].status \notin TERMINAL_STATES)
    BY DEF Rewritten, Polls, PENDING_STATES, TERMINAL_STATES
  <1>3. RowsSound' /\ RowsRemain
    <2> SUFFICES ASSUME NEW t \in Task
                 PROVE  /\ Sound(row'[t], gen'[t])
                        /\ \/ Remains(row[t], row'[t])
                           \/ /\ WrittenOver(t) /\ row'[t].status = "PENDING_SUBMIT"
                              /\ row[t].outs # NoJob => row'[t].outs # NoJob
      BY DEF RowsSound, RowsRemain
    <2>1. Sound(row[t], gen[t]) /\ gen'[t] = gen[t]
      BY DEF InStep, RowsSound
    <2>2. CASE row'[t] = row[t]
      BY <2>1, <2>2 DEF Remains
    <2>3. CASE WrittenOver(t) /\ Rewritten(row[t], row'[t])
      BY <2>1, <2>3 DEF Sound, Rewritten, Polls, PENDING_STATES
    <2> QED
      BY <2>2, <2>3
  <1>4. CopiesFollow'
    <2> SUFFICES ASSUME NEW q \in App, NEW t \in Task
                 PROVE  Follows(JOBS[q][t], row'[t], gen[t])
      BY DEF CopiesFollow
    <2>1. Follows(JOBS[q][t], row[t], gen[t])
      BY DEF InStep, CopiesFollow
    <2> QED
      BY <2>1, <1>2 DEF Follows, Rewritten
  <1>5. LocksAwait'
    BY <1>1 DEF InStep, LocksAwait, Awaits
  <1>6. ListsExpect' /\ GoneIsOpen'
    BY <1>1 DEF ListsExpect, Expects, GoneIsOpen, Misses404, Polling
  <1> QED
    BY <1>3, <1>4, <1>5, <1>6 DEF InStep, NothingAsked

-----------------------------------------------------------------------------
(* The ends of the sections that hold the lock.                            *)

LEMMA SectionIs ==
    ASSUME TypeInv, InStep, NEW p \in App, lock[p].op # "free"
    PROVE  LET t == lock[p].task  c == JOBS[p][t] IN
           /\ t \in Task /\ c \in Entries /\ row[t] \in Rows /\ lock[p] \in Locks
           /\ c.held /\ gen[t] # 0 /\ Follows(c, row[t], gen[t])
           /\ Awaits(lock[p], c, row[t], mon[p])
           /\ mon[p].pc # "relegacy" /\ (mon[p].pc = "gone" => mon[p].task # t)
  <1> DEFINE t == lock[p].task
             c == JOBS[p][t]
  <1>1. t \in Task /\ lock[p] \in Locks
    BY DEF TypeInv, LockOK
  <1>2. c \in Entries /\ row[t] \in Rows
    BY <1>1 DEF TypeInv, CopiesOK, DbOK
  <1>3. Awaits(lock[p], c, row[t], mon[p]) /\ Follows(c, row[t], gen[t])
    BY <1>1 DEF InStep, LocksAwait, CopiesFollow
  <1>4. c.held /\ gen[t] # 0
    BY <1>3 DEF Awaits, Follows
  <1>5. mon[p].pc # "relegacy" /\ (mon[p].pc = "gone" => mon[p].task # t)
    BY DEF InStep, ListsExpect, Expects, GoneIsOpen, Misses404
  <1> QED
    BY <1>1, <1>2, <1>3, <1>4, <1>5

LEMMA Ends ==
    ASSUME OneProcess, TypeInv, InStep, NEW p \in App, lock[p].op # "free",
           NEW d \in Entries, Puts(p, lock[p].task, d), d.held,
           Follows(d, row[lock[p].task], gen[lock[p].task]),
           UNCHANGED <<gen, mon, ask, job>>,
           mon[p].pc \in Polling => (Polls(d) => Polls(JOBS[p][lock[p].task])),
           NEW l, lock'[p] = l,
           l.op # "free" => l.task = lock[p].task /\ Awaits(l, d, row'[lock[p].task], mon[p])
    PROVE  InStep' /\ RowsRemain
  <1> DEFINE t == lock[p].task
  <1>1. /\ t \in Task /\ JOBS[p][t].held
        /\ mon[p].pc # "relegacy" /\ (mon[p].pc = "gone" => mon[p].task # t)
    BY SectionIs
  <1>2. KnowsLess /\ Shrinks(mon[p], p)
    BY <1>1 DEF KnowsLess, Shrinks
  <1> HIDE DEF t
  <1>3. Misses404(mon[p], l, JOBS'[p], row', job')
    BY <1>1, <1>2, GoneStays DEF t
  <1> QED
    BY <1>1, <1>2, <1>3, Acts DEF t

LEMMA DispatchEndsInStep ==
    ASSUME OneProcess, TypeInv, InStep, NEW p \in App, DispatchEnds(p)
    PROVE  InStep' /\ RowsRemain
  <1> DEFINE t == lock[p].task
             c == JOBS[p][t]
  <1>1. lock[p].op = "post" /\ UNCHANGED <<gen, mon, ask, job>> /\ lock'[p] = Unlocked
    BY DEF DispatchEnds, Unlock, providerVars, TypeInv, LockOK
  <1>2. /\ c \in Entries /\ c.held /\ gen[t] # 0 /\ Follows(c, row[t], gen[t])
        /\ row[t].status \in PENDING_STATES /\ mon[p].pc = "legacy" /\ lock[p].sub # NoJob
        /\ lock[p].sub \in Job \cup {NoJob}
    BY <1>1, SectionIs DEF Awaits, Locks
  <1>3. PICK d : d = [c EXCEPT !.status = "QUEUED", !.job = lock[p].sub]
    OBVIOUS
  <1>4. Record(p, t, d)
    BY <1>3 DEF DispatchEnds
  <1>5. /\ d.status = "QUEUED" /\ d.job = lock[p].sub /\ d.held /\ d.outs = c.outs
        /\ d.keep = c.keep /\ d.verdict = c.verdict /\ d \in Entries
    BY <1>2, <1>3, StatusNames DEF Entries
  <1>6. Follows(d, row[t], gen[t])
    BY <1>2, <1>5 DEF Follows, Polls, PENDING_STATES, TERMINAL_STATES
  <1> HIDE DEF c, t
  <1> QED
    BY <1>1, <1>2, <1>4, <1>5, <1>6, Ends DEF Puts, Unlocked, Polling, t

LEMMA PollEndsInStep ==
    ASSUME OneProcess, TypeInv, InStep, NEW p \in App, PollEnds(p)
    PROVE  InStep' /\ RowsRemain
  <1> DEFINE t == lock[p].task
             c == JOBS[p][t]
  <1>1. lock[p].op = "poll" /\ UNCHANGED <<gen, mon, ask, job>>
    BY DEF PollEnds, providerVars
  <1>2. /\ t \in Task /\ c \in Entries /\ c.held /\ gen[t] # 0 /\ Follows(c, row[t], gen[t])
        /\ Polls(c) /\ lock[p].got \in Answer /\ lock[p] \in Locks
    BY <1>1, SectionIs DEF Awaits, Locks
  <1>3. PICK d : d = [c EXCEPT !.status = lock[p].got, !.misses = 0, !.verdict = "none"]
    OBVIOUS
  <1>4. Record(p, t, d)
    BY <1>3 DEF PollEnds
  <1>5. /\ d.status = lock[p].got /\ d.job = c.job /\ d.held /\ d.outs = c.outs
        /\ d.keep = c.keep /\ d.verdict = "none" /\ d \in Entries
    BY <1>2, <1>3, StatusNames, NoMiss DEF Entries, Answer, Verdict
  <1>6. Follows(d, row[t], gen[t])
    <2>1. row[t].status \notin TERMINAL_STATES /\ c.job # NoJob
      BY <1>2 DEF Follows, Polls
    <2> QED
      BY <1>2, <1>5, <2>1 DEF Follows, Answer, PENDING_STATES
  <1>7. CASE lock[p].got = "COMPLETED" /\ d.outs = NoJob
    <2>1. lock' = [lock EXCEPT ![p].op = "import"]
      BY <1>3, <1>7 DEF PollEnds
    <2>2. PICK l : l = [lock[p] EXCEPT !.op = "import"]
      OBVIOUS
    <2>3. lock'[p] = l /\ l.op = "import" /\ l.task = t
      BY <1>2, <2>1, <2>2 DEF TypeInv, LockOK, Locks
    <2>4. Awaits(l, d, row'[t], mon[p])
      BY <1>5, <1>7, <2>3 DEF Awaits
    <2> HIDE DEF c, t
    <2> QED
      BY <1>1, <1>2, <1>4, <1>5, <1>6, <2>3, <2>4, Ends DEF Puts, c, t
  <1>8. CASE ~(lock[p].got = "COMPLETED" /\ d.outs = NoJob)
    <2>1. lock'[p] = Unlocked
      BY <1>3, <1>8 DEF PollEnds, Unlock, TypeInv, LockOK
    <2> HIDE DEF c, t
    <2> QED
      BY <1>1, <1>2, <1>4, <1>5, <1>6, <2>1, Ends DEF Puts, Unlocked, c, t
  <1> QED
    BY <1>7, <1>8

(* An import records the copy whether or not it brought an output: without *)
(* one, the copy says that its row's output is kept.                       *)
LEMMA ImportEndsInStep ==
    ASSUME OneProcess, TypeInv, InStep, NEW p \in App, ImportEnds(p)
    PROVE  InStep' /\ RowsRemain
  <1> DEFINE t == lock[p].task
             c == JOBS[p][t]
  <1>1. lock[p].op = "import" /\ UNCHANGED <<gen, mon, ask, job>> /\ lock'[p] = Unlocked
    BY DEF ImportEnds, Unlock, providerVars, TypeInv, LockOK
  <1>2. /\ t \in Task /\ c \in Entries /\ c.held /\ gen[t] # 0 /\ Follows(c, row[t], gen[t])
        /\ c.status = "COMPLETED" /\ c.outs = NoJob
    BY <1>1, SectionIs DEF Awaits
  <1>3. PICK m \in Imports(t) : Record(p, t, [c EXCEPT !.outs = m])
    BY DEF ImportEnds
  <1>4. m \in Job \cup {NoJob}
    BY <1>2, OutputsType DEF TypeInv
  <1>5. PICK d : d = [c EXCEPT !.outs = m]
    OBVIOUS
  <1>6. /\ d.status = c.status /\ d.job = c.job /\ d.held /\ d.keep = c.keep
        /\ d.verdict = c.verdict /\ d \in Entries
    BY <1>2, <1>4, <1>5 DEF Entries
  <1>7. Record(p, t, d)
    BY <1>3, <1>5
  <1>8. Follows(d, row[t], gen[t]) /\ ~Polls(d)
    BY <1>2, <1>6 DEF Follows, Polls, TERMINAL_STATES
  <1> HIDE DEF c, t
  <1> QED
    BY <1>1, <1>2, <1>6, <1>7, <1>8, Ends DEF Puts, Unlocked, t

LEMMA RecoverEndsInStep ==
    ASSUME OneProcess, TypeInv, InStep, NEW p \in App, RecoverEnds(p)
    PROVE  InStep' /\ RowsRemain
  <1> DEFINE t == lock[p].task
             c == JOBS[p][t]
  <1>1. lock[p].op = "recover" /\ UNCHANGED <<gen, mon, ask, job>> /\ lock'[p] = Unlocked
    BY DEF RecoverEnds, Unlock, providerVars, TypeInv, LockOK
  <1>2. c \in Entries /\ c.held /\ gen[t] # 0 /\ Follows(c, row[t], gen[t]) /\ Polls(c)
    BY <1>1, SectionIs DEF Awaits
  <1>3. PICK d : d = [c EXCEPT !.status = "COMPLETED", !.misses = 0, !.verdict = "none"]
    OBVIOUS
  <1>4. Record(p, t, d)
    BY <1>3 DEF RecoverEnds
  <1>5. /\ d.status = "COMPLETED" /\ d.job = c.job /\ d.held /\ d.outs = c.outs
        /\ d.keep = c.keep /\ d.verdict = "none" /\ d \in Entries
    BY <1>2, <1>3, StatusNames, NoMiss DEF Entries, Verdict
  <1>6. Follows(d, row[t], gen[t]) /\ ~Polls(d)
    BY <1>2, <1>5 DEF Follows, Polls, PENDING_STATES, TERMINAL_STATES
  <1> HIDE DEF c, t
  <1> QED
    BY <1>1, <1>4, <1>5, <1>6, Ends DEF Puts, Unlocked, t

LEMMA CancelEndsInStep ==
    ASSUME OneProcess, TypeInv, InStep, NEW p \in App, CancelEnds(p)
    PROVE  InStep' /\ RowsRemain
  <1> DEFINE t == lock[p].task
             c == JOBS[p][t]
  <1>1. lock[p].op = "cancel" /\ UNCHANGED <<gen, mon, ask, job>> /\ lock'[p] = Unlocked
    BY DEF CancelEnds, Unlock, providerVars, TypeInv, LockOK
  <1>2. /\ c \in Entries /\ c.held /\ gen[t] # 0 /\ Follows(c, row[t], gen[t])
        /\ c.status \notin TERMINAL_STATES
    BY <1>1, SectionIs DEF Awaits
  <1>3. PICK d : d = [c EXCEPT !.status = "CANCELLED", !.misses = 0, !.verdict = "none"]
    OBVIOUS
  <1>4. Record(p, t, d)
    BY <1>3 DEF CancelEnds
  <1>5. /\ d.status = "CANCELLED" /\ d.job = c.job /\ d.held /\ d.outs = c.outs
        /\ d.keep = c.keep /\ d.verdict = "none" /\ d \in Entries
    BY <1>2, <1>3, StatusNames, NoMiss DEF Entries, Verdict
  <1>6. Follows(d, row[t], gen[t]) /\ ~Polls(d)
    BY <1>2, <1>5 DEF Follows, Polls, PENDING_STATES, TERMINAL_STATES
  <1> HIDE DEF c, t
  <1> QED
    BY <1>1, <1>4, <1>5, <1>6, Ends DEF Puts, Unlocked, t

LEMMA LegacyNeverEnds ==
    ASSUME TypeInv, InStep, NEW p \in App PROVE ~LegacyEnds(p)
  BY SectionIs DEF LegacyEnds, Awaits

-----------------------------------------------------------------------------
(* The handlers.                                                           *)

(* What a section that has begun to look at copy c waits for.              *)
Begins(l, t, c) ==
    l.op # "free" =>
      /\ l.task = t
      /\ \/ l.op = "import" /\ c.status = "COMPLETED" /\ c.outs = NoJob
         \/ l.op = "poll" /\ Polls(c) /\ Known(c.job)
         \/ l.op = "cancel" /\ c.status \notin TERMINAL_STATES /\ Known(c.job)

LEMMA BeginsAwaits ==
    ASSUME NEW l, NEW t, NEW c, NEW r, NEW m, c.held, Begins(l, t, c)
    PROVE  Awaits(l, c, r, m)
  BY DEF Begins, Awaits

LEMMA SectionsBegin ==
    ASSUME TypeInv, NEW p \in App, NEW t \in Task, NEW by, LockFree(p),
           StatusSections(p, t, by)
    PROVE  Begins(lock'[p], t, Loaded(p, t))
  <1> DEFINE c == Loaded(p, t)
  <1>1. CASE UNCHANGED lock
    BY <1>1 DEF LockFree, Begins
  <1>2. CASE c.status = "COMPLETED" /\ c.outs = NoJob /\ Hold(p, by, "import", t, "UNKNOWN", NoJob)
    BY <1>2 DEF Hold, Begins, TypeInv, LockOK
  <1>3. ASSUME Polls(c), Known(c.job), NEW a \in Answers(c.job), Hold(p, by, "poll", t, a, NoJob)
        PROVE  Begins(lock'[p], t, c)
    BY <1>3 DEF Hold, Begins, TypeInv, LockOK
  <1> HIDE DEF c
  <1> QED
    BY <1>1, <1>2, <1>3 DEF StatusSections, Polls, c

(* A handler looks at the copy, or reads the row again.                    *)
LEMMA Looks ==
    ASSUME OneProcess, TypeInv, InStep, NEW p \in App, NEW t \in Task, NEW d \in Entries,
           LockFree(p), Cache(p, t, d), d.held, Follows(d, row[t], gen[t]),
           UNCHANGED <<gen, mon, ask>>, KnowsLess,
           \/ d = JOBS[p][t]
           \/ ~JOBS[p][t].held /\ (Polls(d) => Polls(row[t]))
           \/ d.job = row[t].job /\ (Polls(d) <=> Polls(row[t])),
           Begins(lock'[p], t, d)
    PROVE  InStep' /\ RowsRemain
  <1>1. Awaits(lock'[p], d, row'[t], mon[p])
    BY BeginsAwaits
  <1>2. row' = row
    BY DEF Cache
  <1>3. ASSUME mon[p].pc = "gone", mon[p].task = t
        PROVE  Polls(d) /\ d.job = JOBS[p][t].job /\ Polls(row'[t]) /\ lock'[p].op = "free"
    <2> DEFINE c == JOBS[p][t]
    <2>1. c.held /\ Polls(c) /\ c.job \in Job /\ ~job[c.job].known /\ Polls(row[t])
      BY <1>3 DEF InStep, GoneIsOpen, Misses404
    <2>2. c.job = row[t].job
      BY <2>1 DEF InStep, CopiesFollow, Follows
    <2>3. Polls(d) /\ d.job = c.job
      BY <2>1, <2>2
    <2>4. lock'[p].op = "free"
      BY <2>1, <2>3 DEF Begins, Known, Polls, TERMINAL_STATES
    <2> QED
      BY <2>1, <2>3, <2>4, <1>2
  <1>4. Misses404(mon[p], lock'[p], JOBS'[p], row', job')
    BY <1>3, GoneStays DEF Puts, Begins
  <1>5. Shrinks(mon[p], p)
    BY DEF Shrinks, InStep, ListsExpect, Expects
  <1>6. mon'[p] = mon[p] /\ Puts(p, t, d)
    BY DEF Puts
  <1>7. /\ mon[p].pc \in Polling /\ t \in mon[p].todo =>
             (Polls(d) => Polls(row'[t]) \/ (JOBS[p][t].held /\ Polls(JOBS[p][t])))
        /\ lock'[p].op # "free" => lock'[p].task = t
    BY <1>2 DEF Begins
  <1> HIDE DEF Cache, LockFree, Puts
  <1> QED
    BY <1>1, <1>4, <1>5, <1>6, <1>7, Acts

LEMMA GetStatusInStep ==
    ASSUME OneProcess, TypeInv, InStep, NEW p \in App, NEW t \in Task, GetStatus(p, t)
    PROVE  InStep' /\ RowsRemain
  <1> DEFINE c == Loaded(p, t)
  <1>1. /\ LockFree(p) /\ Found(p, t) /\ Cache(p, t, c)
        /\ UNCHANGED <<gen, mon, ask, job>>
        /\ StatusSections(p, t, "http") \/ UNCHANGED lock
    BY DEF GetStatus, providerVars
  <1>2. /\ c \in Entries /\ c.held /\ Follows(c, row[t], gen[t])
        /\ c = JOBS[p][t] \/ (~JOBS[p][t].held /\ (Polls(c) => Polls(row[t])))
    BY <1>1, FoundFollows
  <1>3. Begins(lock'[p], t, c)
    BY <1>1, SectionsBegin DEF LockFree, Begins
  <1>4. KnowsLess
    BY <1>1 DEF KnowsLess
  <1> HIDE DEF c
  <1> QED
    BY <1>1, <1>2, <1>3, <1>4, Looks

(* A record by a handler that found the lock free, on a task whose job is  *)
(* not the vanished one.                                                   *)
LEMMA Writes ==
    ASSUME OneProcess, TypeInv, InStep, NEW p \in App, NEW t \in Task, NEW d \in Entries,
           LockFree(p), Record(p, t, d), d.held, Follows(d, row[t], gen'[t]), ~Polls(d),
           gen[t] # 0 => gen'[t] = gen[t], \A s \in Task \ {t} : gen'[s] = gen[s],
           UNCHANGED <<mon, lock, ask, job>>,
           mon[p].pc = "gone" => mon[p].task # t
    PROVE  InStep' /\ RowsRemain
  <1>1. Puts(p, t, d) /\ KnowsLess /\ lock[p].op = "free" /\ mon'[p] = mon[p] /\ lock'[p] = lock[p]
    BY DEF Puts, KnowsLess, LockFree
  <1>2. Shrinks(mon[p], p)
    BY DEF Shrinks, InStep, ListsExpect, Expects
  <1> HIDE DEF Puts, LockFree
  <1>3. Misses404(mon[p], lock[p], JOBS'[p], row', job')
    BY <1>1, GoneStays
  <1> QED
    BY <1>1, <1>2, <1>3, Acts

LEMMA CreateInStep ==
    ASSUME OneProcess, TypeInv, InStep, NEW p \in App, NEW t \in Task, Create(p, t)
    PROVE  InStep' /\ RowsRemain
  <1>1. row[t] \in Rows /\ Sound(row[t], gen[t]) /\ gen \in [Task -> Nat]
    BY DEF TypeInv, DbOK, InStep, RowsSound
  <1>2. LockFree(p) /\ UNCHANGED <<mon, lock, ask, job>>
    BY DEF Create, providerVars
  <1>3. CASE row[t].exists /\ Cache(p, t, Restore(row[t])) /\ UNCHANGED gen
    <2>1. gen[t] # 0
      BY <1>1, <1>3 DEF Sound
    <2>2. /\ Restore(row[t]) \in Entries /\ Restore(row[t]).held
          /\ Follows(Restore(row[t]), row[t], gen[t])
          /\ (Polls(Restore(row[t])) <=> Polls(row[t]))
          /\ Restore(row[t]).job = row[t].job
      BY <1>1, <2>1, RestoreFollows
    <2>3. Begins(lock'[p], t, Restore(row[t])) /\ KnowsLess
      BY <1>2 DEF Begins, KnowsLess, LockFree
    <2> QED
      BY <1>2, <1>3, <2>2, <2>3, Looks
  <1>4. CASE gen[t] = 0 /\ Record(p, t, NewEntry) /\ gen' = [gen EXCEPT ![t] = 1]
    <2>1. NewEntry \in Entries /\ NewEntry.held /\ NewEntry.status = "PENDING_SUBMIT"
          /\ NewEntry.verdict = "none"
      BY EmptyTypes DEF NewEntry, NoEntry
    <2>2. Follows(NewEntry, row[t], gen'[t]) /\ ~Polls(NewEntry)
      BY <1>1, <1>4, <2>1 DEF Sound, Follows, Polls, PENDING_STATES, TERMINAL_STATES
    <2>3. mon[p].pc = "gone" => mon[p].task # t
      <3>1. mon[p].pc = "gone" => Polls(row[mon[p].task])
        BY DEF InStep, GoneIsOpen, Misses404
      <3> QED
        BY <3>1, <1>1, <1>4 DEF Sound, Polls, PENDING_STATES
    <2>4. gen[t] = 0 /\ \A s \in Task \ {t} : gen'[s] = gen[s]
      BY <1>1, <1>4
    <2> QED
      BY <1>2, <1>4, <2>1, <2>2, <2>3, <2>4, Writes
  <1> QED
    BY <1>3, <1>4 DEF Create

LEMMA CancelStartsInStep ==
    ASSUME OneProcess, TypeInv, InStep, NEW p \in App, NEW t \in Task, CancelStarts(p, t)
    PROVE  InStep' /\ RowsRemain
  <1> DEFINE c == Loaded(p, t)
  <1>1. LockFree(p) /\ Found(p, t) /\ UNCHANGED <<gen, mon, ask>>
    BY DEF CancelStarts
  <1>2. /\ c \in Entries /\ c.held /\ Follows(c, row[t], gen[t])
        /\ c = JOBS[p][t] \/ (~JOBS[p][t].held /\ (Polls(c) => Polls(row[t])))
    BY <1>1, FoundFollows
  <1>3. /\ \/ StatusSections(p, t, "http") /\ Cache(p, t, c) /\ UNCHANGED job
           \/ /\ c.status \notin TERMINAL_STATES /\ c.job = NoJob /\ UNCHANGED <<lock, job>>
              /\ Record(p, t, [c EXCEPT !.status = "CANCELLED", !.misses = 0, !.verdict = "none"])
           \/ /\ c.status \notin TERMINAL_STATES /\ Known(c.job) /\ Cache(p, t, c)
              /\ job' = IF job[c.job].state = "IN_PROGRESS"
                        THEN [job EXCEPT ![c.job].state = "CANCELLED"] ELSE job
              /\ Hold(p, "http", "cancel", t, "UNKNOWN", NoJob)
           \/ Cache(p, t, c) /\ UNCHANGED <<lock, job>>
    BY DEF CancelStarts
  <1> HIDE DEF c
  <1>4. CASE StatusSections(p, t, "http") /\ Cache(p, t, c) /\ UNCHANGED job
    BY <1>1, <1>2, <1>4, SectionsBegin, Looks DEF KnowsLess, c
  <1>5. CASE /\ c.status \notin TERMINAL_STATES /\ c.job = NoJob /\ UNCHANGED <<lock, job>>
             /\ Record(p, t, [c EXCEPT !.status = "CANCELLED", !.misses = 0, !.verdict = "none"])
    <2>1. PICK d : d = [c EXCEPT !.status = "CANCELLED", !.misses = 0, !.verdict = "none"]
      OBVIOUS
    <2>2. /\ d.status = "CANCELLED" /\ d.job = c.job /\ d.held /\ d.outs = c.outs
          /\ d.keep = c.keep /\ d.verdict = "none" /\ d \in Entries
      BY <1>2, <2>1, StatusNames, NoMiss DEF Entries, Verdict
    <2>3. Follows(d, row[t], gen[t]) /\ ~Polls(d)
      BY <1>2, <1>5, <2>2 DEF Follows, Polls, PENDING_STATES, TERMINAL_STATES
    <2>4. mon[p].pc = "gone" => mon[p].task # t
      <3>1. mon[p].pc = "gone" =>
               JOBS[p][mon[p].task].held /\ JOBS[p][mon[p].task].job \in Job
        BY DEF InStep, GoneIsOpen, Misses404
      <3> QED
        BY <3>1, <1>2, <1>5, Constants DEF NoJob
    <2> QED
      BY <1>1, <1>5, <2>1, <2>2, <2>3, <2>4, Writes
  <1>6. CASE /\ c.status \notin TERMINAL_STATES /\ Known(c.job) /\ Cache(p, t, c)
             /\ job' = IF job[c.job].state = "IN_PROGRESS"
                       THEN [job EXCEPT ![c.job].state = "CANCELLED"] ELSE job
             /\ Hold(p, "http", "cancel", t, "UNKNOWN", NoJob)
    <2>1. Begins(lock'[p], t, c)
      BY <1>6 DEF Begins, Hold, TypeInv, LockOK
    <2>2. KnowsLess
      BY <1>6 DEF KnowsLess, TypeInv, ProviderOK, ProviderJobs
    <2> QED
      BY <1>1, <1>2, <1>6, <2>1, <2>2, Looks
  <1>7. CASE Cache(p, t, c) /\ UNCHANGED <<lock, job>>
    BY <1>1, <1>2, <1>7, Looks DEF KnowsLess, Begins, LockFree
  <1> QED
    BY <1>3, <1>4, <1>5, <1>6, <1>7

-----------------------------------------------------------------------------
(* The monitor.                                                            *)

LEMMA MonitorHas ==
    ASSUME TypeInv, InStep, NEW p \in App
    PROVE  /\ mon[p] \in Monitors /\ mon[p].todo \subseteq Task
           /\ mon[p].pc \in Refers => mon[p].task \in Task
           /\ mon[p].pc # "relegacy"
           /\ mon[p].pc \in Polling => \A t \in mon[p].todo :
                 t \in Task /\ gen[t] # 0 /\ (JOBS[p][t].held /\ Polls(JOBS[p][t]) => Polls(row[t]))
           /\ lock[p].by # "monitor" => lock[p].op # "post"
  BY DEF TypeInv, MonOK, Monitors, InStep, ListsExpect, Expects, LocksAwait, Awaits

LEMMA DoneIs ==
    ASSUME TypeInv, NEW p \in App, NEW t, Done(p, t)
    PROVE  mon'[p].pc \in {"dispatch", "poll"} /\ mon'[p].todo = mon[p].todo \ {t}
  <1> DEFINE m == [Started EXCEPT !.pc = IF mon[p].todo \subseteq {t} THEN "dispatch" ELSE "poll",
                                  !.todo = mon[p].todo \ {t}]
  <1>1. mon'[p] = m
    BY DEF Done, TypeInv, MonOK
  <1>2. m.pc \in {"dispatch", "poll"} /\ m.todo = mon[p].todo \ {t}
    BY DEF Started
  <1> HIDE DEF m
  <1> QED
    BY <1>1, <1>2

LEMMA RecoverReadsInStep ==
    ASSUME OneProcess, TypeInv, InStep, NEW p \in App, RecoverReads(p)
    PROVE  InStep' /\ RowsRemain
  <1>1. /\ UNCHANGED <<row, gen, JOBS, lock, ask, job>> /\ mon'[p].pc = "recover"
        /\ lock[p].by # "monitor"
    BY DEF RecoverReads, MonitorAt, dbVars, providerVars, TypeInv, MonOK, Monitors
  <1>2. \A t \in Task : Waits(row[t], row'[t])
    BY <1>1 DEF Waits
  <1> QED
    BY <1>1, <1>2, MonitorHas, Waiting DEF Polling, KnowsLess

LEMMA RecoverWritesInStep ==
    ASSUME OneProcess, TypeInv, InStep, NEW p \in App, RecoverWrites(p)
    PROVE  InStep' /\ RowsRemain
  <1>1. /\ UNCHANGED <<gen, JOBS, lock, ask, job>> /\ mon'[p].pc = "dispatch"
        /\ mon[p].pc = "recover" /\ lock[p].by # "monitor"
        /\ \A t \in Task : row'[t] = IF t \in mon[p].todo
                                     THEN [row[t] EXCEPT !.status = "PENDING_SUBMIT", !.claim = "none"]
                                     ELSE row[t]
    BY DEF RecoverWrites, MonitorAt, providerVars, TypeInv, MonOK, Monitors
  <1>2. \A t \in Task : row'[t] = row[t] \/ (WrittenOver(t) /\ Rewritten(row[t], row'[t]))
    <2> TAKE t \in Task
    <2>1. row[t] \in Rows
      BY DEF TypeInv, DbOK
    <2> QED
      BY <1>1, <2>1 DEF WrittenOver, Rewritten, Rows
  <1> QED
    BY <1>1, <1>2, MonitorHas, Rewriting

LEMMA DispatchNothingInStep ==
    ASSUME OneProcess, TypeInv, InStep, NEW p \in App, DispatchNothing(p)
    PROVE  InStep' /\ RowsRemain
  <1>1. /\ UNCHANGED <<row, gen, JOBS, lock, ask, job>> /\ mon'[p].pc = "legacy"
    BY DEF DispatchNothing, MonitorAt, Goto, dbVars, providerVars, TypeInv, MonOK, Monitors
  <1>2. \A t \in Task : Waits(row[t], row'[t])
    BY <1>1 DEF Waits
  <1> QED
    BY <1>1, <1>2, Waiting DEF Polling, KnowsLess

LEMMA ClaimNextInStep ==
    ASSUME OneProcess, TypeInv, InStep, NEW p \in App, NEW t \in Task, ClaimNext(p, t)
    PROVE  InStep' /\ RowsRemain
  <1>1. /\ row' = [row EXCEPT ![t].status = "DISPATCHING", ![t].claim = "fresh"]
        /\ UNCHANGED <<gen, JOBS, lock, ask, job>>
        /\ mon'[p].pc = "claimed" /\ lock[p].by # "monitor"
        /\ row[t].exists /\ row[t].status = "PENDING_SUBMIT"
    BY DEF ClaimNext, MonitorAt, providerVars, TypeInv, MonOK, Monitors, Eligible
  <1>2. \A s \in Task : Waits(row[s], row'[s])
    <2> TAKE s \in Task
    <2>1. row[s] \in Rows /\ row[t] \in Rows
      BY DEF TypeInv, DbOK
    <2> QED
      BY <1>1, <2>1 DEF Waits, Rows, PENDING_STATES, TypeInv, DbOK
  <1>3. lock[p].op # "post"
    BY <1>1, MonitorHas
  <1> QED
    BY <1>1, <1>2, <1>3, Waiting DEF Polling, KnowsLess

LEMMA DispatchPostsInStep ==
    ASSUME OneProcess, TypeInv, InStep, NEW p \in App, NEW j \in Job, DispatchPosts(p, j)
    PROVE  InStep' /\ RowsRemain
  <1> DEFINE t == mon[p].task
             d == Restore(row[t])
  <1>1. /\ mon[p].pc = "claimed" /\ LockFree(p) /\ row[t].exists
        /\ d.status \in PENDING_STATES /\ Cache(p, t, d) /\ UNCHANGED <<gen, ask>>
    BY DEF DispatchPosts, MonitorAt
  <1>2. t \in Task /\ j # NoJob
    BY <1>1, MonitorHas, Constants DEF Refers, NoJob
  <1>3. row[t] \in Rows /\ Sound(row[t], gen[t]) /\ gen[t] # 0
    BY <1>1, <1>2 DEF TypeInv, DbOK, InStep, RowsSound, Sound
  <1>4. /\ d \in Entries /\ d.held /\ Follows(d, row[t], gen[t]) /\ d.status = row[t].status
        /\ row' = row
    BY <1>1, <1>3, RestoreFollows DEF Cache
  <1>5. ~Polls(d) /\ Puts(p, t, d)
    BY <1>1 DEF Polls, Puts
  <1>6. CASE /\ Hold(p, "monitor", "post", t, "UNKNOWN", j)
             /\ mon' = [mon EXCEPT ![p].pc = "legacy", ![p].task = NoTask]
    <2>1. /\ lock'[p].op = "post" /\ lock'[p].by = "monitor" /\ lock'[p].task = t
          /\ lock'[p].sub = j
      BY <1>6 DEF Hold, TypeInv, LockOK
    <2>2. mon'[p].pc = "legacy"
      BY <1>6, MonitorHas DEF TypeInv, MonOK, Monitors
    <2> HIDE DEF d, t
    <2>3. Awaits(lock'[p], d, row'[t], mon'[p])
      BY <1>1, <1>2, <1>4, <2>1, <2>2 DEF Awaits
    <2>4. Shrinks(mon'[p], p) /\ Misses404(mon'[p], lock'[p], JOBS'[p], row', job')
      BY <2>2 DEF Shrinks, Misses404, Polling
    <2> QED
      BY <1>1, <1>2, <1>3, <1>4, <1>5, <2>1, <2>2, <2>3, <2>4, Acts
  <1>7. CASE Goto(p, "release") /\ UNCHANGED lock
    <2>1. mon'[p].pc = "release"
      BY <1>7, MonitorHas DEF Goto, TypeInv, MonOK, Monitors
    <2>2. lock'[p].op = "free"
      BY <1>1, <1>7 DEF LockFree
    <2> HIDE DEF d, t
    <2>3. Shrinks(mon'[p], p) /\ Misses404(mon'[p], lock'[p], JOBS'[p], row', job')
      BY <2>1 DEF Shrinks, Misses404, Polling
    <2> QED
      BY <1>1, <1>2, <1>3, <1>4, <1>5, <2>1, <2>2, <2>3, Acts
  <1> QED
    BY <1>6, <1>7 DEF DispatchPosts

LEMMA DispatchFailsInStep ==
    ASSUME OneProcess, TypeInv, InStep, NEW p \in App, DispatchFails(p)
    PROVE  InStep' /\ RowsRemain
  <1> DEFINE t == mon[p].task
             d == Restore(row[t])
  <1>1. /\ mon[p].pc = "claimed" /\ LockFree(p) /\ row[t].exists /\ Goto(p, "release")
        /\ Cache(p, t, d) \/ UNCHANGED <<JOBS, row>>
        /\ UNCHANGED <<gen, lock, ask, job>>
    BY DEF DispatchFails, MonitorAt, providerVars
  <1>2. t \in Task
    BY <1>1, MonitorHas DEF Refers
  <1>3. mon'[p].pc = "release" /\ lock'[p].op = "free" /\ lock[p].op = "free" /\ KnowsLess
    BY <1>1, MonitorHas DEF Goto, LockFree, TypeInv, MonOK, Monitors, KnowsLess
  <1>4. CASE Cache(p, t, d)
    <2>1. row[t] \in Rows /\ Sound(row[t], gen[t]) /\ gen[t] # 0
      BY <1>1, <1>2 DEF TypeInv, DbOK, InStep, RowsSound, Sound
    <2>2. d \in Entries /\ d.held /\ Follows(d, row[t], gen[t])
      BY <2>1, RestoreFollows
    <2>3. Shrinks(mon'[p], p) /\ Misses404(mon'[p], lock'[p], JOBS'[p], row', job')
      BY <1>3 DEF Shrinks, Misses404, Polling
    <2>4. Puts(p, t, d) /\ mon'[p].pc \notin Polling
      BY <1>3, <1>4 DEF Puts, Polling
    <2> HIDE DEF d, t
    <2> QED
      BY <1>1, <1>2, <1>3, <2>1, <2>2, <2>3, <2>4, Acts
  <1>5. CASE UNCHANGED <<JOBS, row>>
    <2>1. \A s \in Task : Waits(row[s], row'[s])
      BY <1>5 DEF Waits
    <2> QED
      BY <1>1, <1>3, <1>5, <2>1, Waiting DEF Polling
  <1> QED
    BY <1>1, <1>4, <1>5

LEMMA ReleaseReadsInStep ==
    ASSUME OneProcess, TypeInv, InStep, NEW p \in App, ReleaseReads(p)
    PROVE  InStep' /\ RowsRemain
  <1>1. /\ UNCHANGED <<row, gen, JOBS, lock, ask, job>> /\ mon'[p].pc = "releasing"
        /\ lock[p].by # "monitor"
    BY DEF ReleaseReads, MonitorAt, dbVars, providerVars, TypeInv, MonOK, Monitors
  <1>2. \A t \in Task : Waits(row[t], row'[t])
    BY <1>1 DEF Waits
  <1> QED
    BY <1>1, <1>2, MonitorHas, Waiting DEF Polling, KnowsLess

LEMMA ReleaseSubmissionInStep ==
    ASSUME OneProcess, TypeInv, InStep, NEW p \in App, ReleaseSubmission(p)
    PROVE  InStep' /\ RowsRemain
  <1> DEFINE t == mon[p].task
  <1>1. /\ UNCHANGED <<gen, JOBS, lock, ask, job>> /\ mon[p].pc = "releasing"
        /\ mon' = [mon EXCEPT ![p] = [Started EXCEPT !.pc = "legacy"]]
        /\ row' = IF mon[p].seen = "DISPATCHING"
                  THEN [row EXCEPT ![t].status = "PENDING_SUBMIT", ![t].claim = "none",
                                   ![t].deferred = TRUE]
                  ELSE row
        /\ lock[p].by # "monitor"
    BY DEF ReleaseSubmission, MonitorAt, providerVars
  <1>2. mon'[p].pc = "legacy" /\ t \in Task
    BY <1>1, MonitorHas DEF TypeInv, MonOK, Refers, Started
  <1>3. \A s \in Task : row'[s] = row[s] \/ (WrittenOver(s) /\ Rewritten(row[s], row'[s]))
    <2> TAKE s \in Task
    <2>1. row[s] \in Rows
      BY DEF TypeInv, DbOK
    <2> QED
      BY <1>1, <1>2, <2>1 DEF WrittenOver, Rewritten, Rows, TypeInv, DbOK
  <1> HIDE DEF t
  <1> QED
    BY <1>1, <1>2, <1>3, MonitorHas, Rewriting

LEMMA ClaimLegacyInStep ==
    ASSUME OneProcess, TypeInv, InStep, NEW p \in App, ClaimLegacy(p)
    PROVE  InStep' /\ RowsRemain
  <1>1. LegacyRows = {}
    BY DEF LegacyRows, InStep, RowsSound, Sound
  <1>2. /\ UNCHANGED <<gen, JOBS, lock, ask, job>> /\ lock[p].by # "monitor"
        /\ mon' = [mon EXCEPT ![p].pc = "active", ![p].todo = {}, ![p].skip = {}]
        /\ row' = [t \in Task |-> row[t]]
    BY <1>1 DEF ClaimLegacy, MonitorAt, providerVars
  <1>3. mon'[p].pc = "active" /\ KnowsLess /\ lock[p].op # "post"
    BY <1>2, MonitorHas DEF TypeInv, MonOK, Monitors, KnowsLess
  <1>4. \A s \in Task : Waits(row[s], row'[s])
    BY <1>2 DEF Waits
  <1> QED
    BY <1>2, <1>3, <1>4, Waiting DEF Polling

LEMMA LegacyNeverReads ==
    ASSUME TypeInv, InStep, NEW p \in App, NEW t PROVE ~LegacyReads(p, t)
  BY MonitorHas DEF LegacyReads, MonitorAt

(* What the monitor claims is open, or it is recorded as COMPLETED, and    *)
(* then the copy says so, too.                                             *)
LEMMA ClaimActiveInStep ==
    ASSUME OneProcess, TypeInv, InStep, NEW p \in App, ClaimActive(p)
    PROVE  InStep' /\ RowsRemain
  <1> DEFINE ids == (ActiveRows \cup ImportRows) \ mon[p].skip
             m == [Started EXCEPT !.pc = IF ids = {} THEN "dispatch" ELSE "poll", !.todo = ids]
  <1>1. /\ UNCHANGED <<gen, JOBS, lock, ask, job>> /\ lock[p].by # "monitor"
        /\ mon'[p] = m
        /\ row' = [t \in Task |-> IF t \in ActiveRows
                                  THEN [row[t] EXCEPT !.claim = "fresh"] ELSE row[t]]
    BY DEF ClaimActive, MonitorAt, providerVars, TypeInv, MonOK
  <1>2. m.pc \in {"dispatch", "poll"} /\ m.todo = ids
    BY DEF Started
  <1>3. lock[p].op # "post" /\ KnowsLess
    BY <1>1, MonitorHas DEF KnowsLess
  <1> HIDE DEF m
  <1>4. ASSUME NEW t \in ids
        PROVE  t \in Task /\ gen[t] # 0 /\ (JOBS[p][t].held /\ Polls(JOBS[p][t]) => Polls(row[t]))
    <2>1. t \in Task /\ row[t].exists
          /\ (row[t].status \in ACTIVE_STATES \/ row[t].status = "COMPLETED")
      BY DEF ActiveRows, ImportRows
    <2>2. gen[t] # 0 /\ Follows(JOBS[p][t], row[t], gen[t])
      BY <2>1 DEF InStep, RowsSound, Sound, CopiesFollow
    <2> QED
      BY <2>1, <2>2 DEF Follows, Polls, ACTIVE_STATES, PENDING_STATES, TERMINAL_STATES
  <1> HIDE DEF ids
  <1>5. \A t \in Task : Waits(row[t], row'[t])
    <2> TAKE t \in Task
    <2>1. row[t] \in Rows
      BY DEF TypeInv, DbOK
    <2>2. row'[t] = [row[t] EXCEPT !.claim = "fresh"] \/ row'[t] = row[t]
      BY <1>1
    <2> QED
      BY <2>1, <2>2 DEF Waits, Rows
  <1> QED
    BY <1>1, <1>2, <1>3, <1>4, <1>5, Waiting

(* The monitor looks at the next task of its list.                         *)
LEMMA ListedFollows ==
    ASSUME TypeInv, InStep, NEW p \in App, mon[p].pc = "poll", NEW t \in mon[p].todo
    PROVE  LET c == Loaded(p, t) IN
           /\ t \in Task /\ gen[t] # 0 /\ c \in Entries /\ c.held /\ Follows(c, row[t], gen[t])
           /\ Polls(c) => Polls(row[t]) /\ c.job # NoJob
  <1>1. t \in Task /\ gen[t] # 0 /\ (JOBS[p][t].held /\ Polls(JOBS[p][t]) => Polls(row[t]))
    BY MonitorHas DEF Polling
  <1>2. LET c == Loaded(p, t) IN
        /\ c \in Entries /\ c.held /\ Follows(c, row[t], gen[t])
        /\ c = JOBS[p][t] \/ (~JOBS[p][t].held /\ (Polls(c) => Polls(row[t])))
    BY <1>1, LoadedFollows
  <1> QED
    BY <1>1, <1>2 DEF Follows

LEMMA MonitorReadsInStep ==
    ASSUME OneProcess, TypeInv, InStep, NEW p \in App, NEW t \in Task, MonitorReads(p, t)
    PROVE  InStep' /\ RowsRemain
  <1> DEFINE c == Loaded(p, t)
  <1>1. /\ mon[p].pc = "poll" /\ LockFree(p) /\ t \in mon[p].todo /\ Cache(p, t, c)
        /\ StatusSections(p, t, "monitor") /\ Done(p, t) /\ UNCHANGED <<gen, ask>>
    BY DEF MonitorReads, MonitorAt
  <1>2. gen[t] # 0 /\ c \in Entries /\ c.held /\ Follows(c, row[t], gen[t])
    BY <1>1, ListedFollows
  <1>3. Begins(lock'[p], t, c)
    BY <1>1, SectionsBegin
  <1>4. mon'[p].pc \in {"dispatch", "poll"} /\ mon'[p].todo = mon[p].todo \ {t}
    BY <1>1, DoneIs
  <1>5. Puts(p, t, c)
    BY <1>1 DEF Puts
  <1> HIDE DEF c
  <1>6. Awaits(lock'[p], c, row'[t], mon'[p]) /\ (lock'[p].op # "free" => lock'[p].task = t)
    BY <1>2, <1>3, BeginsAwaits DEF Begins
  <1>7. Shrinks(mon'[p], p) /\ Misses404(mon'[p], lock'[p], JOBS'[p], row', job')
    BY <1>1, <1>4 DEF Shrinks, Misses404, Polling
  <1> QED
    BY <1>1, <1>2, <1>4, <1>5, <1>6, <1>7, Acts

LEMMA MonitorMissesInStep ==
    ASSUME OneProcess, TypeInv, InStep, NEW p \in App, NEW t \in Task, MonitorMisses(p, t)
    PROVE  InStep' /\ RowsRemain
  <1> DEFINE c == Loaded(p, t)
  <1>1. /\ mon[p].pc = "poll" /\ LockFree(p) /\ t \in mon[p].todo /\ Cache(p, t, c)
        /\ Polls(c) /\ ~Known(c.job)
        /\ mon' = [mon EXCEPT ![p].pc = "gone", ![p].task = t]
        /\ UNCHANGED <<gen, lock, ask, job>>
    BY DEF MonitorMisses, MonitorAt, providerVars
  <1>2. /\ gen[t] # 0 /\ c \in Entries /\ c.held /\ Follows(c, row[t], gen[t])
        /\ Polls(row[t]) /\ c.job # NoJob
    BY <1>1, ListedFollows
  <1>3. mon'[p].pc = "gone" /\ mon'[p].task = t /\ mon'[p].todo = mon[p].todo
    BY <1>1, MonitorHas DEF TypeInv, MonOK, Monitors
  <1>4. JOBS'[p][t] = c /\ row' = row /\ Puts(p, t, c)
    BY <1>1 DEF Cache, Puts, TypeInv, CopiesOK
  <1> HIDE DEF c
  <1>5. c.job \in Job /\ ~job'[c.job].known
    BY <1>1, <1>2 DEF Known, Entries
  <1>6. lock'[p].op = "free"
    BY <1>1 DEF LockFree
  <1>7. Misses404(mon'[p], lock'[p], JOBS'[p], row', job')
    BY <1>1, <1>2, <1>3, <1>4, <1>5, <1>6 DEF Misses404
  <1>8. Shrinks(mon'[p], p)
    BY <1>1, <1>3 DEF Shrinks, Polling
  <1> QED
    BY <1>1, <1>2, <1>4, <1>6, <1>7, <1>8, Acts

LEMMA MonitorFailsInStep ==
    ASSUME OneProcess, TypeInv, InStep, NEW p \in App, NEW t \in Task, MonitorFails(p, t)
    PROVE  InStep' /\ RowsRemain
  <1> DEFINE c == Loaded(p, t)
  <1>1. /\ mon[p].pc = "poll" /\ LockFree(p) /\ t \in mon[p].todo /\ Cache(p, t, c) /\ Polls(c)
        /\ mon' = [mon EXCEPT ![p].pc = "failed", ![p].task = t]
        /\ UNCHANGED <<gen, lock, ask, job>>
    BY DEF MonitorFails, MonitorAt, providerVars
  <1>2. /\ gen[t] # 0 /\ c \in Entries /\ c.held /\ Follows(c, row[t], gen[t]) /\ Polls(row[t])
    BY <1>1, ListedFollows
  <1>3. mon'[p].pc = "failed" /\ mon'[p].todo = mon[p].todo
    BY <1>1, MonitorHas DEF TypeInv, MonOK, Monitors
  <1>4. row' = row /\ Puts(p, t, c) /\ lock'[p].op = "free"
    BY <1>1 DEF Cache, Puts, LockFree
  <1> HIDE DEF c
  <1>5. Shrinks(mon'[p], p) /\ Misses404(mon'[p], lock'[p], JOBS'[p], row', job')
    BY <1>1, <1>3 DEF Shrinks, Misses404, Polling
  <1> QED
    BY <1>1, <1>2, <1>4, <1>5, Acts

LEMMA ReleaseActiveInStep ==
    ASSUME OneProcess, TypeInv, InStep, NEW p \in App, ReleaseActiveClaim(p)
    PROVE  InStep' /\ RowsRemain
  <1> DEFINE t == mon[p].task
  <1>1. /\ mon[p].pc = "failed" /\ lock[p].by # "monitor" /\ Done(p, t)
        /\ row' = IF row[t].status \in ACTIVE_STATES
                  THEN [row EXCEPT ![t].claim = "none"] ELSE row
        /\ UNCHANGED <<gen, JOBS, lock, ask, job>>
    BY DEF ReleaseActiveClaim, MonitorAt, providerVars
  <1>2. mon'[p].pc \in {"dispatch", "poll"} /\ mon'[p].todo = mon[p].todo \ {t}
    BY <1>1, DoneIs
  <1>3. t \in Task /\ lock[p].op # "post" /\ KnowsLess /\ mon[p].pc \in Polling
    BY <1>1, MonitorHas DEF Refers, KnowsLess, Polling
  <1> HIDE DEF t
  <1>4. \A s \in Task : Waits(row[s], row'[s])
    <2> TAKE s \in Task
    <2>1. row[s] \in Rows
      BY DEF TypeInv, DbOK
    <2>2. row'[s] = [row[s] EXCEPT !.claim = "none"] \/ row'[s] = row[s]
      BY <1>1, <1>3 DEF TypeInv, DbOK
    <2> QED
      BY <2>1, <2>2 DEF Waits, Rows
  <1>5. \A s \in mon'[p].todo :
            s \in Task /\ gen[s] # 0 /\ (JOBS[p][s].held /\ Polls(JOBS[p][s]) => Polls(row[s]))
    BY <1>2, <1>3, MonitorHas
  <1> QED
    BY <1>1, <1>2, <1>3, <1>4, <1>5, Waiting

(* The vanished job's copy is recorded: still open, or with its output, or *)
(* FAILED.                                                                 *)
LEMMA ReconcileRecords ==
    ASSUME OneProcess, TypeInv, InStep, NEW p \in App, NEW t \in Task, mon[p].task = t,
           mon[p].pc = "gone", LockFree(p), Done(p, t), UNCHANGED <<gen, ask>>,
           NEW d \in Entries, Puts(p, t, d), d.held, d.job = JOBS[p][t].job,
           d.outs = JOBS[p][t].outs \/ d.outs # NoJob, d.keep = JOBS[p][t].keep,
           d.verdict # "legacy", d.status \notin PENDING_STATES,
           lock'[p].op # "free" => /\ lock'[p].op = "recover" /\ lock'[p].task = t
                                   /\ Polls(d)
    PROVE  InStep' /\ RowsRemain
  <1> DEFINE c == JOBS[p][t]
  <1>1. c.held /\ Polls(c) /\ c.job \in Job /\ Polls(row[t])
    BY DEF InStep, GoneIsOpen, Misses404
  <1>2. Follows(c, row[t], gen[t])
    BY DEF InStep, CopiesFollow
  <1>3. gen[t] # 0 /\ Follows(d, row[t], gen[t])
    BY <1>1, <1>2, Constants DEF Follows, Polls, NoJob
  <1>4. mon'[p].pc \in {"dispatch", "poll"} /\ mon'[p].todo = mon[p].todo \ {t}
    BY DoneIs
  <1>5. Shrinks(mon'[p], p) /\ Misses404(mon'[p], lock'[p], JOBS'[p], row', job')
    BY <1>4 DEF Shrinks, Misses404, Polling
  <1> HIDE DEF Puts
  <1>6. lock'[p].op # "free" => lock'[p].task = t /\ Awaits(lock'[p], d, row'[t], mon'[p])
    BY DEF Awaits
  <1> QED
    BY <1>3, <1>4, <1>5, <1>6, Acts

LEMMA ReconcileInStep ==
    ASSUME OneProcess, TypeInv, InStep, NEW p \in App, Reconcile(p)
    PROVE  InStep' /\ RowsRemain
  <1>1. PICK t : t = mon[p].task
    OBVIOUS
  <1> DEFINE c == JOBS[p][t]
             attempts == IF c.misses < MinAttempts THEN c.misses + 1 ELSE MinAttempts
             open == IF c.status \in TERMINAL_STATES THEN "IN_PROGRESS" ELSE c.status
  <1>2. mon[p].pc = "gone" /\ LockFree(p) /\ Done(p, t) /\ UNCHANGED <<gen, ask>>
    BY <1>1 DEF Reconcile, MonitorAt
  <1>3. t \in Task
    BY <1>1, <1>2, MonitorHas DEF Refers
  <1>4. c \in Entries /\ c.held /\ Polls(c)
    BY <1>1, <1>2, <1>3 DEF TypeInv, CopiesOK, InStep, GoneIsOpen, Misses404
  <1>5. c.verdict # "legacy"
    BY <1>3, <1>4 DEF InStep, CopiesFollow, Follows
  <1>6. PICK m \in Outputs(p, t) :
           \/ RecoversFrom(p, t, m)
           \/ /\ Record(p, t, [c EXCEPT !.status = open, !.misses = attempts, !.verdict = "none"])
              /\ UNCHANGED lock
           \/ /\ Record(p, t, [c EXCEPT !.status = "FAILED", !.misses = 0, !.verdict = "final"])
              /\ UNCHANGED lock
    BY <1>1 DEF Reconcile
  <1>7. attempts \in Misses /\ open = c.status
    BY <1>4, Constants DEF Entries, Misses, Polls
  <1> HIDE DEF attempts, open
  <1>8. CASE RecoversFrom(p, t, m)
    <2>1. m \in Job \cup {NoJob} /\ m # NoJob
      BY <1>3, <1>8, OutputsType DEF TypeInv, RecoversFrom
    <2>2. PICK d : d = IF c.outs = NoJob THEN [c EXCEPT !.outs = m] ELSE c
      OBVIOUS
    <2>3. /\ d \in Entries /\ d.status = c.status /\ d.job = c.job /\ d.held /\ d.keep = c.keep
          /\ d.verdict = c.verdict /\ d.outs # NoJob
      BY <1>4, <2>1, <2>2 DEF Entries
    <2>4. Puts(p, t, d)
      <3>1. CASE c.outs = NoJob
        BY <1>8, <2>2, <3>1 DEF RecoversFrom, Puts
      <3>2. CASE c.outs # NoJob
        <4>1. JOBS = [JOBS EXCEPT ![p][t] = JOBS[p][t]]
          BY <1>3 DEF TypeInv, CopiesOK
        <4> QED
          BY <1>8, <2>2, <3>2, <4>1 DEF RecoversFrom, Puts, Cache
      <3> QED
        BY <3>1, <3>2
    <2>5. lock'[p].op = "recover" /\ lock'[p].task = t
      BY <1>8 DEF RecoversFrom, Hold, TypeInv, LockOK
    <2>6. Polls(d) /\ d.status \notin PENDING_STATES
      BY <1>4, <2>3 DEF Polls
    <2> QED
      BY <1>1, <1>2, <1>3, <1>5, <2>3, <2>4, <2>5, <2>6, ReconcileRecords
  <1>9. CASE /\ Record(p, t, [c EXCEPT !.status = open, !.misses = attempts, !.verdict = "none"])
             /\ UNCHANGED lock
    <2>1. PICK d : d = [c EXCEPT !.status = open, !.misses = attempts, !.verdict = "none"]
      OBVIOUS
    <2>2. /\ d \in Entries /\ d.status = c.status /\ d.job = c.job /\ d.held /\ d.keep = c.keep
          /\ d.verdict = "none" /\ d.outs = c.outs
      BY <1>4, <1>7, <2>1 DEF Entries, Verdict
    <2>3. Puts(p, t, d) /\ lock'[p].op = "free" /\ d.status \notin PENDING_STATES
      BY <1>2, <1>4, <1>9, <2>1, <2>2 DEF Puts, LockFree, Polls
    <2> QED
      BY <1>1, <1>2, <1>3, <2>2, <2>3, ReconcileRecords
  <1>10. CASE /\ Record(p, t, [c EXCEPT !.status = "FAILED", !.misses = 0, !.verdict = "final"])
              /\ UNCHANGED lock
    <2>1. PICK d : d = [c EXCEPT !.status = "FAILED", !.misses = 0, !.verdict = "final"]
      OBVIOUS
    <2>2. /\ d \in Entries /\ d.status = "FAILED" /\ d.job = c.job /\ d.held /\ d.keep = c.keep
          /\ d.verdict = "final" /\ d.outs = c.outs
      BY <1>4, <2>1, StatusNames, NoMiss DEF Entries, Verdict
    <2>3. Puts(p, t, d) /\ lock'[p].op = "free" /\ d.status \notin PENDING_STATES
      BY <1>2, <1>10, <2>1, <2>2 DEF Puts, LockFree, PENDING_STATES
    <2> QED
      BY <1>1, <1>2, <1>3, <2>2, <2>3, ReconcileRecords
  <1> QED
    BY <1>6, <1>8, <1>9, <1>10

-----------------------------------------------------------------------------
(* New requests, the provider, time and crashes.                           *)

(* Only ended rows are asked to run again: no section, and no vanished     *)
(* job, is about one of them.                                              *)
LEMMA DraftIs ==
    ASSUME TypeInv, NEW d \in Task, DraftRequeue(d)
    PROVE  /\ UNCHANGED <<JOBS, mon, lock, ask, job, manifest>>
           /\ row[d].exists /\ row[d].status \in TERMINAL_STATES
           /\ row'[d] = Reset(row[d], row[d], TRUE) /\ gen'[d] = gen[d] + 1
           /\ \A t \in Task \ {d} : row'[t] = row[t] /\ gen'[t] = gen[t]
           /\ "draft" \in Requests
  <1>1. Load({d})[d] = row[d] /\ \A t \in Task \ {d} : ~Load({d})[t].exists
    BY DEF Load, NoRow
  <1>2. /\ row[d].exists /\ row[d].status \in TERMINAL_STATES /\ Requeue(Load({d}), TRUE)
        /\ UNCHANGED <<JOBS, mon, lock, ask, job, manifest>> /\ "draft" \in Requests
    BY DEF DraftRequeue, Replayable, providerVars
  <1>3. d \in Asked(Load({d})) /\ \A t \in Task \ {d} : t \notin Asked(Load({d}))
    BY <1>1, <1>2 DEF Asked
  <1>4. /\ row'[d] = Reset(row[d], row[d], TRUE) /\ gen'[d] = gen[d] + 1
        /\ \A t \in Task \ {d} : row'[t] = row[t] /\ gen'[t] = gen[t]
    BY <1>1, <1>2, <1>3 DEF Requeue
  <1> QED
    BY <1>2, <1>4

LEMMA DraftRequeueInStep ==
    ASSUME TypeInv, InStep, NEW d \in Task, DraftRequeue(d)
    PROVE  InStep' /\ RowsRemain
  <1>1. \A t \in Task : row[t] \in Rows /\ gen[t] \in Nat
    BY DEF TypeInv, DbOK
  <1>2. /\ UNCHANGED <<JOBS, mon, lock, ask, job>>
        /\ row[d].exists /\ row[d].status \in TERMINAL_STATES
        /\ row'[d] = Reset(row[d], row[d], TRUE) /\ gen'[d] = gen[d] + 1
        /\ \A t \in Task \ {d} : row'[t] = row[t] /\ gen'[t] = gen[t]
    BY DraftIs
  <1>3. /\ row'[d].exists /\ row'[d].status = "PENDING_SUBMIT" /\ row'[d].verdict = "none"
        /\ row'[d].outs = row[d].outs
        /\ gen'[d] > gen[d] /\ gen'[d] # 0 /\ gen[d] # 0
    BY <1>1, <1>2 DEF Reset, InStep, RowsSound, Sound
  <1>4. row'[d].status \in PENDING_STATES /\ ~Polls(row'[d]) /\ ~Polls(row[d])
    BY <1>2, <1>3 DEF Polls, PENDING_STATES
  <1>5. RowsSound'
    BY <1>2, <1>3, <1>4 DEF InStep, RowsSound, Sound
  <1>6. CopiesFollow'
    <2> SUFFICES ASSUME NEW p \in App, NEW t \in Task
                 PROVE  Follows(JOBS[p][t], row'[t], gen'[t])
      BY <1>2 DEF CopiesFollow
    <2>1. Follows(JOBS[p][t], row[t], gen[t])
      BY DEF InStep, CopiesFollow
    <2> QED
      BY <2>1, <1>2, <1>3, <1>4 DEF Follows, PENDING_STATES, TERMINAL_STATES
  <1>7. LocksAwait'
    <2> SUFFICES ASSUME NEW p \in App, lock[p].op # "free"
                 PROVE  Awaits(lock[p], JOBS[p][lock[p].task], row'[lock[p].task], mon[p])
      BY <1>2 DEF LocksAwait, Awaits
    <2>1. Awaits(lock[p], JOBS[p][lock[p].task], row[lock[p].task], mon[p]) /\ lock[p].task \in Task
      BY SectionIs
    <2> QED
      BY <2>1, <1>2, <1>4 DEF Awaits
  <1>8. ListsExpect'
    <2> SUFFICES ASSUME NEW p \in App, mon[p].pc \in Polling, NEW t \in mon[p].todo
                 PROVE  gen'[t] # 0 /\ (JOBS[p][t].held /\ Polls(JOBS[p][t]) => Polls(row'[t]))
      BY <1>2 DEF InStep, ListsExpect, Expects
    <2>1. t \in Task /\ gen[t] # 0 /\ (JOBS[p][t].held /\ Polls(JOBS[p][t]) => Polls(row[t]))
      BY MonitorHas
    <2> QED
      BY <2>1, <1>2, <1>3, <1>4
  <1>9. GoneIsOpen'
    <2> SUFFICES ASSUME NEW p \in App, mon[p].pc = "gone"
                 PROVE  Misses404(mon[p], lock[p], JOBS[p], row', job)
      BY <1>2 DEF GoneIsOpen, Misses404
    <2>1. Misses404(mon[p], lock[p], JOBS[p], row, job) /\ mon[p].task \in Task
      BY MonitorHas DEF InStep, GoneIsOpen, Refers
    <2> QED
      BY <2>1, <1>2, <1>4 DEF Misses404
  <1>10. RowsRemain
    BY <1>2, <1>3 DEF RowsRemain, Remains
  <1> QED
    BY <1>2, <1>5, <1>6, <1>7, <1>8, <1>9, <1>10 DEF InStep, NothingAsked

(* Only a rework or a bulk rework asks first and writes later.             *)
LEMMA NobodyAsks ==
    ASSUME Requests \cap {"rework", "bulk"} = {}, NothingAsked, NEW p \in App
    PROVE  /\ ~ReworkWrites(p) /\ ~ReworkPublished(p) /\ ~BulkWrites(p)
           /\ \A t \in Task : ~ReworkReads(p, t)
           /\ \A S \in SUBSET Task : ~BulkReads(p, S)
  BY DEF NothingAsked, ReworkWrites, ReworkPublished, BulkWrites, ReworkReads, BulkReads

LEMMA HandlerInStep ==
    ASSUME Faulty, TypeInv, InStep, NEW p \in App, Handler(p) PROVE InStep' /\ RowsRemain
  <1>1. OneProcess
    BY DEF Faulty
  <1>2. /\ ~ReworkWrites(p) /\ ~ReworkPublished(p) /\ ~BulkWrites(p)
        /\ \A t \in Task : ~ReworkReads(p, t)
        /\ \A S \in SUBSET Task : ~BulkReads(p, S)
    BY NobodyAsks DEF Faulty, InStep
  <1> QED
    BY <1>1, <1>2, CancelEndsInStep, CreateInStep, GetStatusInStep, CancelStartsInStep DEF Handler

LEMMA MonitorInStep ==
    ASSUME OneProcess, TypeInv, InStep, NEW p \in App, Monitor(p) PROVE InStep' /\ RowsRemain
  BY RecoverReadsInStep, RecoverWritesInStep, DispatchNothingInStep, ClaimNextInStep,
     DispatchPostsInStep, DispatchFailsInStep, ReleaseReadsInStep, ReleaseSubmissionInStep, ClaimLegacyInStep, LegacyNeverReads, ClaimActiveInStep,
     MonitorReadsInStep, MonitorMissesInStep, MonitorFailsInStep, ReleaseActiveInStep,
     ReconcileInStep DEF Monitor

LEMMA SectionInStep ==
    ASSUME OneProcess, TypeInv, InStep, NEW p \in App, SectionEnds(p)
    PROVE  InStep' /\ RowsRemain
  BY DispatchEndsInStep, PollEndsInStep, ImportEndsInStep, LegacyNeverEnds, RecoverEndsInStep
     DEF SectionEnds

(* Nothing a process keeps outlives it, and what the database keeps needs  *)
(* no process.                                                             *)
LEMMA CrashInStep ==
    ASSUME OneProcess, TypeInv, InStep, NEW p \in App, Crash(p) PROVE InStep' /\ RowsRemain
  <1>1. \A q \in App : q = p
    BY DEF OneProcess
  <1>2. /\ UNCHANGED <<row, gen, job>>
        /\ \A t \in Task : JOBS'[p][t] = NoEntry
        /\ mon'[p] = Started /\ lock'[p] = Unlocked /\ ask'[p].op = "none"
    BY DEF Crash, dbVars, providerVars, TypeInv, CopiesOK, MonOK, LockOK, AskOK, Quiet
  <1>3. RowsSound' /\ RowsRemain
    BY <1>2 DEF InStep, RowsSound, RowsRemain, Remains
  <1>4. CopiesFollow'
    BY <1>1, <1>2 DEF CopiesFollow, Follows, NoEntry
  <1>5. LocksAwait' /\ NothingAsked'
    BY <1>1, <1>2 DEF LocksAwait, Awaits, Unlocked, NothingAsked
  <1>6. ListsExpect' /\ GoneIsOpen'
    BY <1>1, <1>2 DEF ListsExpect, Expects, GoneIsOpen, Misses404, Started, Polling
  <1> QED
    BY <1>3, <1>4, <1>5, <1>6 DEF InStep

(* Steps of nobody's: the provider's, and time's.                          *)
LEMMA Elsewhere ==
    ASSUME OneProcess, TypeInv, InStep, \A t \in Task : Waits(row[t], row'[t]),
           UNCHANGED <<gen, JOBS, mon, lock, ask>>, KnowsLess
    PROVE  InStep' /\ RowsRemain
  <1>1. ASSUME NEW p \in App PROVE InStep' /\ RowsRemain
    <2>1. mon'[p] = mon[p]
      OBVIOUS
    <2>2. lock[p].op = "post" => mon[p].pc = "legacy"
      BY DEF InStep, LocksAwait, Awaits
    <2> QED
      BY <2>1, <2>2, MonitorHas, Waiting
  <1>2. CASE App = {}
    <2>1. RowsSound' /\ RowsRemain
      <3> SUFFICES ASSUME NEW t \in Task PROVE Sound(row'[t], gen'[t]) /\ Remains(row[t], row'[t])
        BY DEF RowsSound, RowsRemain
      <3>1. Sound(row[t], gen[t]) /\ Waits(row[t], row'[t]) /\ gen'[t] = gen[t]
        BY DEF InStep, RowsSound
      <3> QED
        BY <3>1 DEF Sound, Waits, Remains, Polls, PENDING_STATES, TERMINAL_STATES
    <2> QED
      BY <2>1, <1>2 DEF InStep, CopiesFollow, LocksAwait, ListsExpect, GoneIsOpen, NothingAsked
  <1> QED
    BY <1>1, <1>2

LEMMA ProviderInStep ==
    ASSUME OneProcess, TypeInv, InStep, Provider PROVE InStep' /\ RowsRemain
  <1>1. PICK j \in Job : \/ \E outcome \in {"COMPLETED", "FAILED"} : JobEnds(j, outcome)
                         \/ PublishManifest(j)
                         \/ Forget(j)
    BY DEF Provider
  <1>2. UNCHANGED <<row, gen, JOBS, mon, lock, ask>>
    BY <1>1 DEF JobEnds, PublishManifest, Forget, dbVars
  <1>3. KnowsLess
    <2>1. CASE \E outcome \in {"COMPLETED", "FAILED"} : JobEnds(j, outcome)
      BY <2>1 DEF JobEnds, KnowsLess, TypeInv, ProviderOK, ProviderJobs
    <2>2. CASE PublishManifest(j)
      BY <2>2 DEF PublishManifest, KnowsLess, TypeInv, ProviderOK, ProviderJobs
    <2>3. CASE Forget(j)
      BY <2>3 DEF Forget, KnowsLess, TypeInv, ProviderOK, ProviderJobs
    <2> QED
      BY <1>1, <2>1, <2>2, <2>3
  <1>4. \A t \in Task : Waits(row[t], row'[t])
    BY <1>2 DEF Waits
  <1> QED
    BY <1>2, <1>3, <1>4, Elsewhere

LEMMA TimeInStep ==
    ASSUME OneProcess, TypeInv, InStep, Time PROVE InStep' /\ RowsRemain
  <1>1. PICK t \in Task : ClaimAges(t) \/ DeferralEnds(t)
    BY DEF Time
  <1>2. UNCHANGED <<gen, JOBS, mon, lock, ask, job>>
    BY <1>1 DEF ClaimAges, DeferralEnds, providerVars
  <1>3. \A s \in Task : Waits(row[s], row'[s])
    <2> TAKE s \in Task
    <2>1. row[s] \in Rows
      BY DEF TypeInv, DbOK
    <2>2. \/ row'[s] = [row[s] EXCEPT !.claim = "stale"]
          \/ row'[s] = [row[s] EXCEPT !.deferred = FALSE]
          \/ row'[s] = row[s]
      BY <1>1 DEF ClaimAges, DeferralEnds, TypeInv, DbOK
    <2> QED
      BY <2>1, <2>2 DEF Waits, Rows
  <1> QED
    BY <1>2, <1>3, Elsewhere DEF KnowsLess

LEMMA NextInStep ==
    ASSUME Faulty, TypeInv, InStep, [Next]_vars PROVE InStep' /\ RowsRemain
  <1>1. OneProcess
    BY DEF Faulty
  <1>2. CASE UNCHANGED vars
    <2>1. UNCHANGED <<row, gen, JOBS, mon, lock, ask, job>>
      BY <1>2 DEF vars
    <2> QED
      BY <1>1, <2>1, Elsewhere DEF Waits, KnowsLess
  <1>3. ASSUME NEW p \in App, Monitor(p) \/ SectionEnds(p) \/ Handler(p) \/ Crash(p)
        PROVE  InStep' /\ RowsRemain
    BY <1>1, <1>3, MonitorInStep, SectionInStep, HandlerInStep, CrashInStep
  <1>4. ASSUME NEW t \in Task, DraftRequeue(t) PROVE InStep' /\ RowsRemain
    BY <1>4, DraftRequeueInStep
  <1>6. CASE Provider \/ Time
    BY <1>1, <1>6, ProviderInStep, TimeInStep
  <1> QED
    BY <1>2, <1>3, <1>4, <1>6 DEF Next

LEMMA InitInStep == ASSUME Faulty, Init PROVE InStep
  <1>1. \A t \in Task : row[t] = NoRow /\ gen[t] = 0
    BY DEF Faulty, NoOldRows, Init
  <1>2. RowsSound
    BY <1>1 DEF RowsSound, Sound, NoRow, Polls, PENDING_STATES
  <1>3. CopiesFollow /\ LocksAwait /\ NothingAsked
    BY DEF Init, CopiesFollow, Follows, NoEntry, LocksAwait, Awaits, Unlocked, NothingAsked, Quiet
  <1>4. ListsExpect /\ GoneIsOpen
    BY DEF Init, ListsExpect, Expects, GoneIsOpen, Misses404, Started, Polling
  <1> QED
    BY <1>2, <1>3, <1>4 DEF InStep

(* Whatever fails, a copy knows of its row's end, of the job to poll and   *)
(* of a registered output, and every call that is waited for is about a    *)
(* copy that has not ended.                                                *)
THEOREM InStepInvariant == ASSUME Faulty PROVE Spec => []InStep
  <1>1. Init => InStep
    BY InitInStep
  <1>2. TypeInv /\ InStep /\ [Next]_vars => InStep'
    BY NextInStep
  <1> QED
    BY <1>1, <1>2, TypesInvariant, PTL DEF Spec

(* An end is final: with one process, whatever crashes, swallowed writes,  *)
(* lost replies and vanished jobs happen, a row that has ended leaves its  *)
(* status only for a new request to run its task, or written over by a     *)
(* release or a recovery that loaded it before.                            *)
THEOREM EndFinal == ASSUME Faulty PROVE Spec => EndIsFinal
  <1> DEFINE Step == \A t \in Task : row[t].exists /\ row[t].status \in TERMINAL_STATES =>
                        \/ row'[t].status = row[t].status
                        \/ gen'[t] > gen[t]
                        \/ WrittenOver(t) /\ row'[t].status = "PENDING_SUBMIT"
                        \/ row[t].verdict = "legacy" /\ row'[t].status = "COMPLETED"
  <1>1. TypeInv /\ InStep /\ [Next]_vars => [Step]_vars
    BY NextInStep DEF RowsRemain, Remains
  <1> QED
    BY <1>1, TypesInvariant, InStepInvariant, PTL DEF Spec, EndIsFinal

(* The output kept for a requeued prompt stays registered until a run of   *)
(* the prompt has one of its own, whatever fails meanwhile.                *)
THEOREM OutputKept == ASSUME Faulty PROVE Spec => PriorOutputKept
  <1> DEFINE Step == \A t \in Task : row[t].keep /\ row[t].outs # NoJob =>
                        row'[t].outs # NoJob \/ gen'[t] > gen[t]
  <1>1. TypeInv /\ InStep /\ [Next]_vars => [Step]_vars
    BY NextInStep DEF RowsRemain, Remains
  <1> QED
    BY <1>1, TypesInvariant, InStepInvariant, PTL DEF Spec, PriorOutputKept

-----------------------------------------------------------------------------
(* No stranded task.  Any number of processes, any request, and any fault  *)
(* but a process that dies, a write that fails and a provider that answers *)
(* without a status; and either it forgets no job, or one process is alone *)
(* to look for the forgotten ones.                                         *)
Lasting   == Faults \cap {"crash", "dbError"} = {}
Answering == /\ Lasting /\ "unknown" \notin Faults /\ NoOldRows
             /\ "gone" \notin Faults \/ Faulty

(* An active status goes with a provider job, and a claimed row can be     *)
(* told by its claim.                                                      *)
Whole(status, j) == /\ status # "UNKNOWN"
                    /\ status \in ACTIVE_STATES => j # NoJob
WholeRow(r)  == /\ Whole(r.status, r.job) /\ r.verdict # "legacy"
                /\ r.status = "DISPATCHING" => r.claim # "none"
WholeCopy(c) == Whole(c.status, c.job) /\ c.verdict # "legacy"
WholeLock(l, c) == /\ l.op # "legacy"
                   /\ l.op = "post" => l.sub # NoJob
                   /\ l.op = "poll" => l.got # "UNKNOWN" /\ c.job # NoJob
                   /\ l.op = "import" => c.status = "COMPLETED"

RowsWhole     == \A t \in Task : WholeRow(row[t])
CopiesWhole   == \A p \in App, t \in Task : WholeCopy(JOBS[p][t])
LocksWhole    == \A p \in App : lock[p].op # "free" => WholeLock(lock[p], JOBS[p][lock[p].task])
NoOldListed   == \A p \in App : mon[p].pc # "relegacy"
Unstranded    == RowsWhole /\ CopiesWhole /\ LocksWhole /\ NoOldListed
AsksWhole     == \A p \in App, t \in Task : ask[p].op = "publish" => WholeRow(ask[p].seen[t])

(* A row that is submitted has its thread.  Only a claim makes one.        *)
Posts(p, t) == lock[p].op = "post" /\ lock[p].task = t
RowsHeld == \A t \in Task : row[t].status = "DISPATCHING" => \E p \in App : Submits(p, t)
Untaken  == \A t \in Task : row'[t].status = "DISPATCHING" => row[t].status = "DISPATCHING"

(* The provider's side of it, and the vanished jobs that are looked at.    *)
AllKnown   == \A j \in Job : job[j].state # "none" => job[j].known
NoneGone   == \A p \in App : mon[p].pc # "gone"
OpenIfGone == \A p \in App : mon[p].pc = "gone" => Polls(JOBS[p][mon[p].task])

LEMMA RestoreWhole ==
    ASSUME NEW r, WholeRow(r) PROVE WholeCopy(Restore(r))
  BY DEF WholeRow, WholeCopy, Restore

LEMMA EmptyWhole == WholeRow(NoRow) /\ WholeCopy(NoEntry) /\ WholeCopy(NewEntry)
  BY DEF WholeRow, WholeCopy, Whole, NoRow, NoEntry, NewEntry, PENDING_STATES, ACTIVE_STATES

LEMMA LoadedWhole ==
    ASSUME Unstranded, NEW p \in App, NEW t \in Task PROVE WholeCopy(Loaded(p, t))
  BY RestoreWhole DEF Unstranded, RowsWhole, CopiesWhole, Loaded

LEMMA RecordedWhole ==
    ASSUME NEW c, NEW r, WholeCopy(c), c.status # "DISPATCHING" PROVE WholeRow(Recorded(c, r))
  BY DEF WholeCopy, WholeRow, Recorded

(* A process puts a copy into memory, and perhaps into the database: there *)
(* it may leave everything but a claim.                                    *)
LEMMA PutWhole ==
    ASSUME TypeInv, Unstranded, NEW p \in App, NEW t \in Task, NEW d,
           Cache(p, t, d) \/ (Record(p, t, d) /\ d.status # "DISPATCHING"), WholeCopy(d),
           NEW l, lock' = [lock EXCEPT ![p] = l], l.op # "free" => l.task = t /\ WholeLock(l, d),
           \A q \in App : mon'[q].pc # "relegacy"
    PROVE  Unstranded' /\ Untaken
  <1>1. /\ JOBS'[p][t] = d
        /\ \A q \in App, s \in Task : q # p \/ s # t => JOBS'[q][s] = JOBS[q][s]
    BY DEF Record, Cache, TypeInv, CopiesOK
  <1>2. /\ \A s \in Task \ {t} : row'[s] = row[s]
        /\ row'[t] = row[t] \/ (row'[t] = Recorded(d, row[t]) /\ d.status # "DISPATCHING")
    BY DEF Record, Cache, TypeInv, DbOK
  <1>3. RowsWhole'
    BY <1>2, RecordedWhole DEF RowsWhole, Unstranded
  <1>4. CopiesWhole'
    BY <1>1 DEF CopiesWhole, Unstranded
  <1>5. LocksWhole'
    <2> SUFFICES ASSUME NEW q \in App, lock'[q].op # "free"
                 PROVE  WholeLock(lock'[q], JOBS'[q][lock'[q].task])
      BY DEF LocksWhole
    <2>1. CASE q = p
      BY <2>1, <1>1 DEF TypeInv, LockOK
    <2>2. CASE q # p
      <3>1. lock'[q] = lock[q] /\ lock[q].task \in Task
        BY <2>2 DEF TypeInv, LockOK
      <3> QED
        BY <2>2, <3>1, <1>1 DEF LocksWhole, Unstranded
    <2> QED
      BY <2>1, <2>2
  <1>6. NoOldListed'
    BY DEF NoOldListed
  <1>7. Untaken
    BY <1>2 DEF Untaken, Recorded
  <1> QED
    BY <1>3, <1>4, <1>5, <1>6, <1>7 DEF Unstranded

(* A record at the end of a section, which leaves the monitor where it is. *)
LEMMA EndWhole ==
    ASSUME TypeInv, Unstranded, NEW p \in App, NEW t \in Task, NEW d, Record(p, t, d),
           d.status \notin PENDING_STATES, WholeCopy(d), UNCHANGED mon,
           Unlock(p) \/ (UNCHANGED lock /\ LockFree(p))
    PROVE  Unstranded' /\ Untaken
  <1>1. \A q \in App : mon'[q].pc # "relegacy"
    BY DEF Unstranded, NoOldListed
  <1>2. d.status # "DISPATCHING"
    BY DEF PENDING_STATES
  <1>3. PICK l : lock' = [lock EXCEPT ![p] = l] /\ l.op = "free"
    <2>1. CASE Unlock(p)
      <3>1. lock' = [lock EXCEPT ![p] = Unlocked] /\ Unlocked.op = "free"
        BY <2>1 DEF Unlock, Unlocked
      <3> QED
        BY <3>1
    <2>2. CASE UNCHANGED lock /\ LockFree(p)
      <3>1. lock' = [lock EXCEPT ![p] = lock[p]]
        BY <2>2 DEF TypeInv, LockOK
      <3> QED
        BY <2>2, <3>1 DEF LockFree
    <2> QED
      BY <2>1, <2>2
  <1> QED
    BY <1>1, <1>2, <1>3, PutWhole

LEMMA SectionWhole ==
    ASSUME TypeInv, Unstranded, NEW p \in App, SectionEnds(p) \/ CancelEnds(p)
    PROVE  Unstranded' /\ Untaken
  <1> DEFINE t == lock[p].task
             c == JOBS[p][t]
  <1>1. lock[p].op # "free" /\ UNCHANGED mon
    BY DEF SectionEnds, DispatchEnds, PollEnds, ImportEnds, LegacyEnds, RecoverEnds, CancelEnds
  <1>2. t \in Task /\ c \in Entries /\ lock[p] \in Locks
    BY <1>1 DEF TypeInv, LockOK, CopiesOK
  <1>3. WholeCopy(c) /\ WholeLock(lock[p], c)
    BY <1>1, <1>2 DEF Unstranded, CopiesWhole, LocksWhole
  <1>4. CASE DispatchEnds(p)
    <2>1. PICK d : d = [c EXCEPT !.status = "QUEUED", !.job = lock[p].sub]
      OBVIOUS
    <2>2. d.status = "QUEUED" /\ d.job = lock[p].sub /\ d.verdict = c.verdict
      BY <1>2, <2>1 DEF Entries
    <2>3. Record(p, t, d) /\ Unlock(p) /\ lock[p].op = "post"
      BY <1>4, <2>1 DEF DispatchEnds
    <2>4. WholeCopy(d) /\ d.status \notin PENDING_STATES
      BY <1>3, <2>2, <2>3 DEF WholeCopy, WholeLock, Whole, PENDING_STATES
    <2> QED
      BY <1>1, <1>2, <2>3, <2>4, EndWhole
  <1>5. CASE PollEnds(p)
    <2>1. PICK d : d = [c EXCEPT !.status = lock[p].got, !.misses = 0, !.verdict = "none"]
      OBVIOUS
    <2>2. /\ d.status = lock[p].got /\ d.job = c.job /\ d.verdict = "none" /\ d.outs = c.outs
      BY <1>2, <2>1 DEF Entries
    <2>3. Record(p, t, d) /\ lock[p].op = "poll"
      BY <1>5, <2>1 DEF PollEnds
    <2>4. WholeCopy(d) /\ d.status \notin PENDING_STATES
      BY <1>2, <1>3, <2>2, <2>3 DEF WholeCopy, WholeLock, Whole, PENDING_STATES, Locks, Answer
    <2>5. CASE Unlock(p)
      BY <1>1, <1>2, <2>3, <2>4, <2>5, EndWhole
    <2>6. CASE lock' = [lock EXCEPT ![p].op = "import"] /\ lock[p].got = "COMPLETED"
      <3>1. PICK l : l = [lock[p] EXCEPT !.op = "import"]
        OBVIOUS
      <3>2. lock' = [lock EXCEPT ![p] = l] /\ l.op = "import" /\ l.task = t
        BY <1>2, <2>6, <3>1 DEF TypeInv, LockOK, Locks
      <3>3. WholeLock(l, d)
        BY <2>2, <2>6, <3>2 DEF WholeLock
      <3>4. (\A q \in App : mon'[q].pc # "relegacy") /\ d.status # "DISPATCHING"
        BY <1>1, <2>4 DEF Unstranded, NoOldListed, PENDING_STATES
      <3> HIDE DEF t
      <3> QED
        BY <1>2, <2>3, <2>4, <3>2, <3>3, <3>4, PutWhole
    <2> QED
      BY <1>5, <2>5, <2>6 DEF PollEnds
  <1>6. CASE ImportEnds(p)
    <2>1. PICK m \in Imports(t) : Record(p, t, [c EXCEPT !.outs = m])
      BY <1>6 DEF ImportEnds
    <2>2. PICK d : d = [c EXCEPT !.outs = m]
      OBVIOUS
    <2>3. d.status = c.status /\ d.job = c.job /\ d.verdict = c.verdict
      BY <1>2, <2>2 DEF Entries
    <2>4. Record(p, t, d) /\ Unlock(p) /\ c.status = "COMPLETED"
      BY <1>3, <1>6, <2>1, <2>2 DEF ImportEnds, WholeLock
    <2>5. WholeCopy(d) /\ d.status \notin PENDING_STATES
      BY <1>3, <2>3, <2>4 DEF WholeCopy, PENDING_STATES
    <2> QED
      BY <1>1, <1>2, <2>4, <2>5, EndWhole
  <1>7. CASE LegacyEnds(p)
    BY <1>3, <1>7 DEF LegacyEnds, WholeLock
  <1>8. CASE RecoverEnds(p) \/ CancelEnds(p)
    <2>1. PICK status \in {"COMPLETED", "CANCELLED"} :
             /\ Record(p, t, [c EXCEPT !.status = status, !.misses = 0, !.verdict = "none"])
             /\ Unlock(p)
      BY <1>8 DEF RecoverEnds, CancelEnds
    <2>2. PICK d : d = [c EXCEPT !.status = status, !.misses = 0, !.verdict = "none"]
      OBVIOUS
    <2>3. d.status = status /\ d.job = c.job /\ d.verdict = "none"
      BY <1>2, <2>2 DEF Entries
    <2>4. WholeCopy(d) /\ d.status \notin PENDING_STATES
      BY <2>3 DEF WholeCopy, Whole, PENDING_STATES, ACTIVE_STATES
    <2> QED
      BY <1>1, <1>2, <2>1, <2>2, <2>4, EndWhole
  <1> QED
    BY <1>4, <1>5, <1>6, <1>7, <1>8 DEF SectionEnds

(* Looking at a copy may begin a section that waits for the provider.      *)
LEMMA SectionsWhole ==
    ASSUME "unknown" \notin Faults, TypeInv, Truth, Unstranded, NEW p \in App, NEW t \in Task,
           NEW by, LockFree(p), StatusSections(p, t, by)
    PROVE  \E l : /\ lock' = [lock EXCEPT ![p] = l]
                  /\ l.op # "free" => l.task = t /\ WholeLock(l, Loaded(p, t))
  <1> DEFINE c == Loaded(p, t)
  <1>1. CASE UNCHANGED lock
    <2>1. lock' = [lock EXCEPT ![p] = lock[p]] /\ lock[p].op = "free"
      BY <1>1 DEF TypeInv, LockOK, LockFree
    <2> QED
      BY <2>1
  <1>2. CASE c.status = "COMPLETED" /\ Hold(p, by, "import", t, "UNKNOWN", NoJob)
    <2>1. PICK l : l = [op |-> "import", by |-> by, task |-> t, got |-> "UNKNOWN", sub |-> NoJob]
      OBVIOUS
    <2>2. lock' = [lock EXCEPT ![p] = l] /\ l.op = "import" /\ l.task = t
      BY <1>2, <2>1 DEF Hold
    <2>3. WholeLock(l, c)
      BY <1>2, <2>2 DEF WholeLock
    <2> QED
      BY <2>2, <2>3
  <1>3. ASSUME Known(c.job), NEW a \in Answers(c.job), Hold(p, by, "poll", t, a, NoJob)
        PROVE  \E l : /\ lock' = [lock EXCEPT ![p] = l]
                      /\ l.op # "free" => l.task = t /\ WholeLock(l, c)
    <2>1. PICK l : l = [op |-> "poll", by |-> by, task |-> t, got |-> a, sub |-> NoJob]
      OBVIOUS
    <2>2. lock' = [lock EXCEPT ![p] = l] /\ l.op = "poll" /\ l.task = t /\ l.got = a
      BY <1>3, <2>1 DEF Hold
    <2>3. Honest(job, t, c)
      BY LoadedHonest DEF Truth
    <2>4. c.job \in Job /\ c.job # NoJob
      BY <1>3, <2>3 DEF Known, Honest, Accepted
    <2>5. job[c.job] \in ProviderJobs
      BY <2>4 DEF TypeInv, ProviderOK
    <2>6. a # "UNKNOWN"
      BY <1>3, <2>5 DEF Answers, ProviderJobs
    <2>7. WholeLock(l, c)
      BY <2>2, <2>4, <2>6 DEF WholeLock
    <2> QED
      BY <2>2, <2>7
  <1> HIDE DEF c
  <1> QED
    BY <1>1, <1>2, <1>3 DEF StatusSections, c

(* A copy is put into memory while nobody holds the lock, and looked at or *)
(* not.                                                                    *)
LEMMA LookWhole ==
    ASSUME "unknown" \notin Faults, TypeInv, Truth, Unstranded, NEW p \in App, NEW t \in Task,
           LockFree(p), NEW d, Cache(p, t, d), WholeCopy(d),
           UNCHANGED lock \/ (d = Loaded(p, t) /\ \E by : StatusSections(p, t, by)),
           \A q \in App : mon'[q].pc # "relegacy"
    PROVE  Unstranded' /\ Untaken
  <1>1. \E l : lock' = [lock EXCEPT ![p] = l] /\ (l.op # "free" => l.task = t /\ WholeLock(l, d))
    <2>1. CASE UNCHANGED lock
      <3>1. lock' = [lock EXCEPT ![p] = lock[p]] /\ lock[p].op = "free"
        BY <2>1 DEF TypeInv, LockOK, LockFree
      <3> QED
        BY <3>1
    <2>2. CASE d = Loaded(p, t) /\ \E by : StatusSections(p, t, by)
      BY <2>2, SectionsWhole
    <2> QED
      BY <2>1, <2>2
  <1> QED
    BY <1>1, PutWhole

LEMMA ResetWhole ==
    ASSUME NEW r, NEW s, NEW preserve
    PROVE  WholeRow(Reset(r, s, preserve)) /\ Reset(r, s, preserve).status = "PENDING_SUBMIT"
  <1>1. /\ Reset(r, s, preserve).status = "PENDING_SUBMIT"
        /\ Reset(r, s, preserve).verdict = "none"
    BY DEF Reset
  <1> QED
    BY <1>1 DEF WholeRow, Whole, ACTIVE_STATES

LEMMA RequeueWhole ==
    ASSUME TypeInv, Unstranded, NEW seen, NEW preserve, Requeue(seen, preserve),
           UNCHANGED <<JOBS, mon, lock>>
    PROVE  Unstranded' /\ Untaken
  <1>1. \A t \in Task : row'[t] = row[t] \/ row'[t] = Reset(row[t], seen[t], preserve)
    BY DEF Requeue
  <1>2. RowsWhole' /\ Untaken
    BY <1>1, ResetWhole DEF RowsWhole, Unstranded, Untaken
  <1> QED
    BY <1>2 DEF Unstranded, CopiesWhole, LocksWhole, NoOldListed

LEMMA HandlerWhole ==
    ASSUME "unknown" \notin Faults, TypeInv, Truth, Unstranded, AsksWhole, NEW p \in App, Handler(p)
    PROVE  Unstranded' /\ Untaken
  <1>1. CASE CancelEnds(p)
    BY <1>1, SectionWhole
  <1>2. ASSUME UNCHANGED mon PROVE \A q \in App : mon'[q].pc # "relegacy"
    BY <1>2 DEF Unstranded, NoOldListed
  <1>3. ASSUME NEW t \in Task, Create(p, t) PROVE Unstranded' /\ Untaken
    <2>1. LockFree(p) /\ UNCHANGED <<mon, lock>>
      BY <1>3 DEF Create
    <2>2. CASE Cache(p, t, Restore(row[t]))
      <3>1. WholeCopy(Restore(row[t]))
        BY RestoreWhole DEF Unstranded, RowsWhole
      <3> QED
        BY <1>2, <2>1, <2>2, <3>1, LookWhole
    <2>3. CASE Record(p, t, NewEntry)
      <3>1. NewEntry.status # "DISPATCHING" /\ WholeCopy(NewEntry)
        BY EmptyWhole DEF NewEntry, NoEntry
      <3>2. PICK d : d = NewEntry
        OBVIOUS
      <3>3. Record(p, t, d) /\ d.status # "DISPATCHING" /\ WholeCopy(d)
        BY <2>3, <3>1, <3>2
      <3>4. lock' = [lock EXCEPT ![p] = lock[p]] /\ lock[p].op = "free"
        BY <2>1 DEF TypeInv, LockOK, LockFree
      <3>5. \A q \in App : mon'[q].pc # "relegacy"
        BY <1>2, <2>1
      <3> QED
        BY <3>5, <3>3, <3>4, PutWhole
    <2> QED
      BY <1>3, <2>2, <2>3 DEF Create
  <1>4. ASSUME NEW t \in Task, GetStatus(p, t) PROVE Unstranded' /\ Untaken
    <2>1. /\ LockFree(p) /\ Cache(p, t, Loaded(p, t)) /\ UNCHANGED mon
          /\ StatusSections(p, t, "http") \/ UNCHANGED lock
      BY <1>4 DEF GetStatus
    <2> QED
      BY <1>2, <2>1, LoadedWhole, LookWhole
  <1>5. ASSUME NEW t \in Task, CancelStarts(p, t) PROVE Unstranded' /\ Untaken
    <2> DEFINE c == Loaded(p, t)
    <2>1. LockFree(p) /\ UNCHANGED mon /\ WholeCopy(c) /\ c \in Entries
      BY <1>5, LoadedWhole, LoadedType DEF CancelStarts, TypeInv
    <2>2. \/ StatusSections(p, t, "http") /\ Cache(p, t, c)
          \/ /\ Record(p, t, [c EXCEPT !.status = "CANCELLED", !.misses = 0, !.verdict = "none"])
             /\ UNCHANGED lock
          \/ Cache(p, t, c) /\ Hold(p, "http", "cancel", t, "UNKNOWN", NoJob)
          \/ Cache(p, t, c) /\ UNCHANGED lock
      BY <1>5 DEF CancelStarts
    <2> HIDE DEF c
    <2>3. CASE (StatusSections(p, t, "http") \/ UNCHANGED lock) /\ Cache(p, t, c)
      BY <1>2, <2>1, <2>3, LookWhole DEF c
    <2>4. CASE /\ Record(p, t, [c EXCEPT !.status = "CANCELLED", !.misses = 0, !.verdict = "none"])
               /\ UNCHANGED lock
      <3>1. PICK d : d = [c EXCEPT !.status = "CANCELLED", !.misses = 0, !.verdict = "none"]
        OBVIOUS
      <3>2. d.status = "CANCELLED" /\ d.job = c.job /\ d.verdict = "none"
        BY <2>1, <3>1 DEF Entries
      <3>3. WholeCopy(d) /\ d.status \notin PENDING_STATES
        BY <3>2 DEF WholeCopy, Whole, PENDING_STATES, ACTIVE_STATES
      <3> QED
        BY <2>1, <2>4, <3>1, <3>3, EndWhole
    <2>5. CASE Cache(p, t, c) /\ Hold(p, "http", "cancel", t, "UNKNOWN", NoJob)
      <3>1. PICK l : l = [op |-> "cancel", by |-> "http", task |-> t, got |-> "UNKNOWN", sub |-> NoJob]
        OBVIOUS
      <3>2. lock' = [lock EXCEPT ![p] = l] /\ l.op = "cancel" /\ l.task = t
        BY <2>5, <3>1 DEF Hold
      <3>3. WholeLock(l, c)
        BY <3>2 DEF WholeLock
      <3> QED
        BY <1>2, <2>1, <2>5, <3>2, <3>3, PutWhole
    <2> QED
      BY <2>2, <2>3, <2>4, <2>5
  <1>6. CASE ReworkWrites(p) \/ BulkWrites(p)
    BY <1>6, RequeueWhole DEF ReworkWrites, BulkWrites
  <1>7. CASE ReworkPublished(p)
    <2>1. PICK t \in Asked(ask[p].seen) :
             \E c \in {Restore(ask[p].seen[t]), Restore(row[t])} : Cache(p, t, c)
      BY <1>7 DEF ReworkPublished
    <2>2. PICK c \in {Restore(ask[p].seen[t]), Restore(row[t])} : Cache(p, t, c)
      BY <2>1
    <2>3. LockFree(p) /\ UNCHANGED <<mon, lock>> /\ ask[p].op = "publish" /\ t \in Task
      BY <1>7 DEF ReworkPublished, Asked
    <2>4. WholeCopy(c)
      BY <2>2, <2>3, RestoreWhole DEF Unstranded, RowsWhole, AsksWhole
    <2> QED
      BY <1>2, <2>2, <2>3, <2>4, LookWhole
  <1>8. CASE (\E S \in SUBSET Task : BulkReads(p, S)) \/ (\E t \in Task : ReworkReads(p, t))
    <2>1. UNCHANGED <<row, JOBS, mon, lock>>
      BY <1>8 DEF BulkReads, ReworkReads, dbVars
    <2> QED
      BY <2>1 DEF Unstranded, RowsWhole, CopiesWhole, LocksWhole, NoOldListed, Untaken
  <1> QED
    BY <1>1, <1>3, <1>4, <1>5, <1>6, <1>7, <1>8 DEF Handler

-----------------------------------------------------------------------------
(* The monitor strands nothing.                                            *)

(* Steps that change rows only.                                            *)
LEMMA RowsStayWhole ==
    ASSUME Unstranded, UNCHANGED <<JOBS, lock>>, \A t \in Task : WholeRow(row'[t]),
           \A t \in Task : row'[t].status = "DISPATCHING" => row[t].status = "DISPATCHING",
           \A q \in App : mon'[q].pc # "relegacy"
    PROVE  Unstranded' /\ Untaken
  BY DEF Unstranded, RowsWhole, CopiesWhole, LocksWhole, NoOldListed, Untaken

LEMMA RowWhole ==
    ASSUME NEW r \in Rows, WholeRow(r)
    PROVE  /\ \A claim \in {"fresh", "stale"} : LET n == [r EXCEPT !.claim = claim] IN
                 WholeRow(n) /\ n.status = r.status
           /\ LET n == [r EXCEPT !.deferred = FALSE] IN WholeRow(n) /\ n.status = r.status
           /\ r.status # "DISPATCHING" =>
                 LET n == [r EXCEPT !.claim = "none"] IN WholeRow(n) /\ n.status = r.status
           /\ WholeRow([r EXCEPT !.status = "DISPATCHING", !.claim = "fresh"])
           /\ LET n == [r EXCEPT !.status = "PENDING_SUBMIT", !.claim = "none"] IN
                 WholeRow(n) /\ n.status = "PENDING_SUBMIT"
           /\ \A d : LET n == [r EXCEPT !.status = "PENDING_SUBMIT", !.claim = "none",
                                        !.deferred = d] IN
                 WholeRow(n) /\ n.status = "PENDING_SUBMIT"
  BY DEF WholeRow, Whole, Rows, ACTIVE_STATES

(* The rows are written over and the list is left.                         *)
LEMMA ReleasesWhole ==
    ASSUME TypeInv, Unstranded, NEW p \in App,
           RecoverReads(p) \/ RecoverWrites(p) \/ ReleaseReads(p) \/ ReleaseSubmission(p)
    PROVE  Unstranded' /\ Untaken
  <1>1. /\ \A t \in Task : row[t] \in Rows /\ WholeRow(row[t])
        /\ \A q \in App : mon[q] \in Monitors /\ mon[q].pc # "relegacy"
    BY DEF TypeInv, DbOK, MonOK, Unstranded, RowsWhole, NoOldListed
  <1>2. \A q \in App : mon'[q].pc # "relegacy"
    <2>1. CASE RecoverReads(p) \/ ReleaseReads(p) \/ RecoverWrites(p)
      BY <1>1, <2>1 DEF RecoverReads, RecoverWrites, ReleaseReads, TypeInv, MonOK, Monitors
    <2>2. CASE ReleaseSubmission(p)
      BY <1>1, <2>2 DEF ReleaseSubmission, TypeInv, MonOK, Started
    <2> QED
      BY <2>1, <2>2
  <1>3. UNCHANGED <<JOBS, lock>>
    BY DEF RecoverReads, RecoverWrites, ReleaseReads, ReleaseSubmission
  <1>4. \A t \in Task :
           \/ row'[t] = row[t]
           \/ row'[t] = [row[t] EXCEPT !.status = "PENDING_SUBMIT", !.claim = "none"]
           \/ row'[t] = [row[t] EXCEPT !.status = "PENDING_SUBMIT", !.claim = "none",
                                       !.deferred = TRUE]
    <2>1. CASE RecoverReads(p) \/ ReleaseReads(p)
      BY <2>1 DEF RecoverReads, ReleaseReads, dbVars
    <2>2. CASE RecoverWrites(p)
      BY <2>2 DEF RecoverWrites
    <2>3. CASE ReleaseSubmission(p)
      BY <2>3 DEF ReleaseSubmission, TypeInv, DbOK
    <2> QED
      BY <2>1, <2>2, <2>3
  <1>5. \A t \in Task : WholeRow(row'[t])
                        /\ (row'[t].status = "DISPATCHING" => row[t].status = "DISPATCHING")
    <2> TAKE t \in Task
    <2>1. /\ LET n == [row[t] EXCEPT !.status = "PENDING_SUBMIT", !.claim = "none"] IN
               WholeRow(n) /\ n.status = "PENDING_SUBMIT"
          /\ LET n == [row[t] EXCEPT !.status = "PENDING_SUBMIT", !.claim = "none",
                                     !.deferred = TRUE] IN
               WholeRow(n) /\ n.status = "PENDING_SUBMIT"
      BY <1>1, RowWhole
    <2> QED
      BY <1>1, <1>4, <2>1
  <1> QED
    BY <1>2, <1>3, <1>5, RowsStayWhole

(* Only a claim takes a row, for the monitor that makes it.                *)
LEMMA ClaimWhole ==
    ASSUME TypeInv, Unstranded, NEW p \in App, NEW t \in Task, ClaimNext(p, t)
    PROVE  /\ Unstranded'
           /\ \A s \in Task \ {t} : row'[s] = row[s]
           /\ Submits(p, t)'
           /\ UNCHANGED lock /\ \A q \in App \ {p} : mon'[q] = mon[q]
           /\ mon[p].pc = "dispatch"
  <1>1. /\ \A s \in Task : row[s] \in Rows /\ WholeRow(row[s])
        /\ \A q \in App : mon[q] \in Monitors /\ mon[q].pc # "relegacy"
    BY DEF TypeInv, DbOK, MonOK, Unstranded, RowsWhole, NoOldListed
  <1>2. /\ mon'[p].pc = "claimed" /\ mon'[p].task = t /\ mon[p].pc = "dispatch"
        /\ \A q \in App \ {p} : mon'[q] = mon[q]
        /\ UNCHANGED <<JOBS, lock>>
    BY <1>1 DEF ClaimNext, MonitorAt, TypeInv, MonOK, Monitors
  <1>3. /\ row'[t] = [row[t] EXCEPT !.status = "DISPATCHING", !.claim = "fresh"]
        /\ \A s \in Task \ {t} : row'[s] = row[s]
    BY DEF ClaimNext, TypeInv, DbOK
  <1>4. \A s \in Task : WholeRow(row'[s])
    <2>1. WholeRow([row[t] EXCEPT !.status = "DISPATCHING", !.claim = "fresh"])
      BY <1>1, RowWhole
    <2> QED
      BY <1>1, <1>3, <2>1
  <1>5. \A q \in App : mon'[q].pc # "relegacy"
    BY <1>1, <1>2
  <1>6. Unstranded'
    BY <1>2, <1>4, <1>5 DEF Unstranded, RowsWhole, CopiesWhole, LocksWhole, NoOldListed
  <1> QED
    BY <1>2, <1>3, <1>6 DEF Submits

LEMMA DispatchWhole ==
    ASSUME TypeInv, Unstranded, NEW p \in App,
           DispatchNothing(p) \/ DispatchFails(p) \/ \E j \in Job : DispatchPosts(p, j)
    PROVE  Unstranded' /\ Untaken
  <1>1. /\ \A t \in Task : row[t] \in Rows /\ WholeRow(row[t])
        /\ \A q \in App : mon[q] \in Monitors /\ mon[q].pc # "relegacy"
    BY DEF TypeInv, DbOK, MonOK, Unstranded, RowsWhole, NoOldListed
  <1>2. CASE DispatchNothing(p)
    <2>1. \A q \in App : mon'[q].pc # "relegacy"
      BY <1>1, <1>2 DEF DispatchNothing, Goto, TypeInv, MonOK, Monitors
    <2> QED
      BY <1>1, <1>2, <2>1, RowsStayWhole DEF DispatchNothing, dbVars
  <1>4. ASSUME NEW j \in Job, DispatchPosts(p, j) PROVE Unstranded' /\ Untaken
    <2> DEFINE t == mon[p].task
               c == Restore(row[t])
    <2>1. t \in Task /\ j # NoJob
      BY <1>4, Constants DEF DispatchPosts, MonitorAt, TypeInv, MonOK, Refers, NoJob
    <2>2. Cache(p, t, c) /\ WholeCopy(c) /\ LockFree(p)
      BY <1>1, <1>4, <2>1, RestoreWhole DEF DispatchPosts
    <2>3. \A q \in App : mon'[q].pc # "relegacy"
      BY <1>1, <1>4 DEF DispatchPosts, Goto, TypeInv, MonOK, Monitors
    <2>4. CASE Hold(p, "monitor", "post", t, "UNKNOWN", j)
      <3>1. PICK l : l = [op |-> "post", by |-> "monitor", task |-> t, got |-> "UNKNOWN", sub |-> j]
        OBVIOUS
      <3>2. lock' = [lock EXCEPT ![p] = l] /\ l.op = "post" /\ l.task = t /\ l.sub = j
        BY <2>4, <3>1 DEF Hold
      <3> HIDE DEF c
      <3>3. WholeLock(l, c)
        BY <2>1, <3>2 DEF WholeLock
      <3> HIDE DEF t
      <3> QED
        BY <2>1, <2>2, <2>3, <3>2, <3>3, PutWhole
    <2>5. CASE UNCHANGED lock
      <3>1. lock' = [lock EXCEPT ![p] = lock[p]] /\ lock[p].op = "free"
        BY <2>2, <2>5 DEF TypeInv, LockOK, LockFree
      <3> HIDE DEF c, t
      <3> QED
        BY <2>1, <2>2, <2>3, <3>1, PutWhole
    <2> QED
      BY <1>4, <2>4, <2>5 DEF DispatchPosts
  <1>5. CASE DispatchFails(p)
    <2> DEFINE t == mon[p].task
    <2>1. t \in Task
      BY <1>5 DEF DispatchFails, MonitorAt, TypeInv, MonOK, Refers
    <2>2. \A q \in App : mon'[q].pc # "relegacy"
      BY <1>1, <1>5 DEF DispatchFails, Goto, TypeInv, MonOK, Monitors
    <2>3. CASE Cache(p, t, Restore(row[t]))
      <3>1. lock' = [lock EXCEPT ![p] = lock[p]] /\ lock[p].op = "free"
        BY <1>5 DEF DispatchFails, TypeInv, LockOK, LockFree
      <3>2. WholeCopy(Restore(row[t]))
        BY <1>1, <2>1, RestoreWhole
      <3> HIDE DEF t
      <3> QED
        BY <2>1, <2>2, <2>3, <3>1, <3>2, PutWhole
    <2>4. CASE UNCHANGED <<JOBS, row>>
      BY <1>1, <1>5, <2>2, <2>4, RowsStayWhole DEF DispatchFails
    <2> QED
      BY <1>5, <2>3, <2>4 DEF DispatchFails
  <1> QED
    BY <1>2, <1>4, <1>5

LEMMA RefreshWhole ==
    ASSUME "unknown" \notin Faults, TypeInv, Truth, Unstranded, NEW p \in App,
           \/ ClaimLegacy(p)
           \/ \E t \in Task : LegacyReads(p, t) \/ MonitorReads(p, t)
           \/ ClaimActive(p)
           \/ ReleaseActiveClaim(p)
    PROVE  Unstranded' /\ Untaken
  <1>1. /\ \A t \in Task : row[t] \in Rows /\ WholeRow(row[t])
        /\ \A q \in App : mon[q] \in Monitors /\ mon[q].pc # "relegacy"
    BY DEF TypeInv, DbOK, MonOK, Unstranded, RowsWhole, NoOldListed
  <1>2. CASE ClaimLegacy(p)
    <2>1. LegacyRows = {}
      BY <1>1 DEF LegacyRows, WholeRow
    <2>2. /\ mon' = [mon EXCEPT ![p].pc = "active", ![p].todo = {}, ![p].skip = {}]
          /\ row' = [t \in Task |-> row[t]] /\ UNCHANGED <<JOBS, lock>>
      BY <1>2, <2>1 DEF ClaimLegacy
    <2>3. \A q \in App : mon'[q].pc # "relegacy"
      BY <1>1, <2>2 DEF TypeInv, MonOK, Monitors
    <2> QED
      BY <1>1, <2>2, <2>3, RowsStayWhole
  <1>3. ASSUME NEW t \in Task, LegacyReads(p, t) PROVE Unstranded' /\ Untaken
    BY <1>1, <1>3 DEF LegacyReads, MonitorAt
  <1>4. ASSUME NEW t \in Task, MonitorReads(p, t) PROVE Unstranded' /\ Untaken
    <2>1. /\ LockFree(p) /\ Cache(p, t, Loaded(p, t)) /\ Done(p, t)
          /\ StatusSections(p, t, "monitor")
      BY <1>4 DEF MonitorReads
    <2>2. \A q \in App : mon'[q].pc # "relegacy"
      <3>1. mon'[p].pc # "relegacy"
        BY <2>1, DoneIs
      <3>2. \A q \in App \ {p} : mon'[q] = mon[q]
        BY <2>1 DEF Done, TypeInv, MonOK
      <3> QED
        BY <1>1, <3>1, <3>2
    <2> QED
      BY <2>1, <2>2, LoadedWhole, LookWhole
  <1>5. CASE ClaimActive(p)
    <2> DEFINE m == [Started EXCEPT !.pc = IF (ActiveRows \cup ImportRows) \ mon[p].skip = {}
                                           THEN "dispatch" ELSE "poll",
                                    !.todo = (ActiveRows \cup ImportRows) \ mon[p].skip]
    <2>1. m.pc \in {"dispatch", "poll"}
      BY DEF Started
    <2>2. mon' = [mon EXCEPT ![p] = m] /\ UNCHANGED <<JOBS, lock>>
      BY <1>5 DEF ClaimActive
    <2> HIDE DEF m
    <2>3. \A q \in App : mon'[q].pc # "relegacy"
      BY <1>1, <2>1, <2>2 DEF TypeInv, MonOK
    <2>4. \A t \in Task : row'[t] = row[t] \/ row'[t] = [row[t] EXCEPT !.claim = "fresh"]
      BY <1>5 DEF ClaimActive
    <2>5. \A t \in Task : WholeRow(row'[t]) /\ row'[t].status = row[t].status
      <3> TAKE t \in Task
      <3>1. LET n == [row[t] EXCEPT !.claim = "fresh"] IN WholeRow(n) /\ n.status = row[t].status
        BY <1>1, RowWhole
      <3> QED
        BY <1>1, <2>4, <3>1
    <2> QED
      BY <2>2, <2>3, <2>5, RowsStayWhole
  <1>6. CASE ReleaseActiveClaim(p)
    <2>1. Done(p, mon[p].task) /\ UNCHANGED <<JOBS, lock>>
      BY <1>6 DEF ReleaseActiveClaim
    <2>2. \A q \in App : mon'[q].pc # "relegacy"
      <3>1. mon'[p].pc # "relegacy"
        BY <2>1, DoneIs
      <3>2. \A q \in App \ {p} : mon'[q] = mon[q]
        BY <2>1 DEF Done, TypeInv, MonOK
      <3> QED
        BY <1>1, <3>1, <3>2
    <2>3. \A t \in Task : \/ row'[t] = row[t]
                          \/ /\ row[t].status # "DISPATCHING"
                             /\ row'[t] = [row[t] EXCEPT !.claim = "none"]
      BY <1>6 DEF ReleaseActiveClaim, TypeInv, DbOK, ACTIVE_STATES
    <2>4. \A t \in Task : WholeRow(row'[t]) /\ row'[t].status = row[t].status
      <3> TAKE t \in Task
      <3>1. row[t].status # "DISPATCHING" =>
               LET n == [row[t] EXCEPT !.claim = "none"] IN WholeRow(n) /\ n.status = row[t].status
        BY <1>1, RowWhole
      <3> QED
        BY <1>1, <2>3, <3>1
    <2> QED
      BY <2>1, <2>2, <2>4, RowsStayWhole
  <1> QED
    BY <1>2, <1>3, <1>4, <1>5, <1>6

(* A missed or failed status call leaves the copy as it is.                *)
LEMMA AskWhole ==
    ASSUME "unknown" \notin Faults, TypeInv, Truth, Unstranded, NEW p \in App, NEW t \in Task,
           MonitorMisses(p, t) \/ MonitorFails(p, t)
    PROVE  Unstranded' /\ Untaken
  <1>1. PICK pc \in {"gone", "failed"} : mon' = [mon EXCEPT ![p].pc = pc, ![p].task = t]
    BY DEF MonitorMisses, MonitorFails
  <1>2. \A q \in App : mon[q] \in Monitors /\ mon[q].pc # "relegacy"
    BY DEF TypeInv, MonOK, Unstranded, NoOldListed
  <1>3. \A q \in App : mon'[q].pc # "relegacy"
    BY <1>1, <1>2 DEF TypeInv, MonOK, Monitors
  <1>4. LockFree(p) /\ Cache(p, t, Loaded(p, t)) /\ UNCHANGED lock
    BY DEF MonitorMisses, MonitorFails
  <1> QED
    BY <1>3, <1>4, LoadedWhole, LookWhole

(* A vanished job's copy is recorded only while it is open: with its       *)
(* output, still open, or FAILED.                                          *)
LEMMA ReconcileWhole ==
    ASSUME TypeInv, Unstranded, OpenIfGone, NEW p \in App, Reconcile(p) PROVE Unstranded' /\ Untaken
  <1>1. PICK t : t = mon[p].task
    OBVIOUS
  <1> DEFINE c == JOBS[p][t]
             attempts == IF c.misses < MinAttempts THEN c.misses + 1 ELSE MinAttempts
             open == IF c.status \in TERMINAL_STATES THEN "IN_PROGRESS" ELSE c.status
  <1>2. mon[p].pc = "gone" /\ LockFree(p) /\ Done(p, t)
    BY <1>1 DEF Reconcile, MonitorAt
  <1>3. t \in Task
    BY <1>1, <1>2 DEF TypeInv, MonOK, Refers
  <1>4. c \in Entries /\ Polls(c) /\ WholeCopy(c)
    BY <1>1, <1>2, <1>3 DEF TypeInv, CopiesOK, OpenIfGone, Unstranded, CopiesWhole
  <1>5. \A q \in App : mon'[q].pc # "relegacy"
    <2>1. mon'[p].pc # "relegacy"
      BY <1>2, DoneIs
    <2>2. \A q \in App \ {p} : mon'[q] = mon[q]
      BY <1>2 DEF Done, TypeInv, MonOK
    <2> QED
      BY <2>1, <2>2 DEF Unstranded, NoOldListed
  <1>6. PICK m \in Outputs(p, t) :
           \/ RecoversFrom(p, t, m)
           \/ /\ Record(p, t, [c EXCEPT !.status = open, !.misses = attempts, !.verdict = "none"])
              /\ UNCHANGED lock
           \/ /\ Record(p, t, [c EXCEPT !.status = "FAILED", !.misses = 0, !.verdict = "final"])
              /\ UNCHANGED lock
    BY <1>1 DEF Reconcile
  <1>7. open = c.status
    BY <1>4 DEF Polls
  <1>8. lock' = [lock EXCEPT ![p] = lock[p]] \/ ~UNCHANGED lock
    BY DEF TypeInv, LockOK
  <1> HIDE DEF attempts, open
  <1>9. CASE RecoversFrom(p, t, m)
    <2>1. PICK d : d = IF c.outs = NoJob THEN [c EXCEPT !.outs = m] ELSE c
      OBVIOUS
    <2>2. d.status = c.status /\ d.job = c.job /\ d.verdict = c.verdict
      BY <1>4, <2>1 DEF Entries
    <2>3. WholeCopy(d) /\ d.status # "DISPATCHING"
      BY <1>4, <2>2 DEF WholeCopy, Polls, PENDING_STATES
    <2>4. Cache(p, t, d) \/ Record(p, t, d)
      <3>1. CASE c.outs = NoJob
        BY <1>9, <2>1, <3>1 DEF RecoversFrom
      <3>2. CASE c.outs # NoJob
        <4>1. JOBS = [JOBS EXCEPT ![p][t] = JOBS[p][t]]
          BY <1>3 DEF TypeInv, CopiesOK
        <4> QED
          BY <1>9, <2>1, <3>2, <4>1 DEF RecoversFrom, Cache
      <3> QED
        BY <3>1, <3>2
    <2>5. PICK l : l = [op |-> "recover", by |-> "monitor", task |-> t, got |-> "UNKNOWN", sub |-> NoJob]
      OBVIOUS
    <2>6. lock' = [lock EXCEPT ![p] = l] /\ l.op = "recover" /\ l.task = t
      BY <1>9, <2>5 DEF RecoversFrom, Hold
    <2>7. WholeLock(l, d)
      BY <2>6 DEF WholeLock
    <2> QED
      BY <1>3, <1>5, <2>3, <2>4, <2>6, <2>7, PutWhole
  <1>10. CASE /\ Record(p, t, [c EXCEPT !.status = open, !.misses = attempts, !.verdict = "none"])
              /\ UNCHANGED lock
    <2>1. PICK d : d = [c EXCEPT !.status = open, !.misses = attempts, !.verdict = "none"]
      OBVIOUS
    <2>2. d.status = c.status /\ d.job = c.job /\ d.verdict = "none"
      BY <1>4, <1>7, <2>1 DEF Entries
    <2>3. WholeCopy(d) /\ d.status # "DISPATCHING"
      BY <1>4, <2>2 DEF WholeCopy, Polls, PENDING_STATES
    <2>4. lock[p].op = "free"
      BY <1>2 DEF LockFree
    <2> QED
      BY <1>3, <1>5, <1>8, <1>10, <2>1, <2>3, <2>4, PutWhole
  <1>11. CASE /\ Record(p, t, [c EXCEPT !.status = "FAILED", !.misses = 0, !.verdict = "final"])
              /\ UNCHANGED lock
    <2>1. PICK d : d = [c EXCEPT !.status = "FAILED", !.misses = 0, !.verdict = "final"]
      OBVIOUS
    <2>2. d.status = "FAILED" /\ d.job = c.job /\ d.verdict = "final"
      BY <1>4, <2>1 DEF Entries
    <2>3. WholeCopy(d) /\ d.status # "DISPATCHING"
      BY <2>2 DEF WholeCopy, Whole, PENDING_STATES, ACTIVE_STATES
    <2>4. lock[p].op = "free"
      BY <1>2 DEF LockFree
    <2> QED
      BY <1>3, <1>5, <1>8, <1>11, <2>1, <2>3, <2>4, PutWhole
  <1> QED
    BY <1>6, <1>9, <1>10, <1>11

LEMMA MonitorWhole ==
    ASSUME "unknown" \notin Faults, TypeInv, Truth, Unstranded, OpenIfGone,
           NEW p \in App, Monitor(p)
    PROVE  Unstranded' /\ (Untaken \/ \E t \in Task : ClaimNext(p, t))
  <1>1. CASE \E t \in Task : ClaimNext(p, t)
    BY <1>1, ClaimWhole
  <1>2. CASE \/ RecoverReads(p) \/ RecoverWrites(p) \/ ReleaseReads(p) \/ ReleaseSubmission(p)
             \/ DispatchNothing(p) \/ DispatchFails(p) \/ \E j \in Job : DispatchPosts(p, j)
    BY <1>2, ReleasesWhole, DispatchWhole
  <1>3. CASE \/ ClaimLegacy(p) \/ ClaimActive(p) \/ ReleaseActiveClaim(p)
             \/ \E t \in Task : LegacyReads(p, t) \/ MonitorReads(p, t)
    BY <1>3, RefreshWhole
  <1>4. CASE Reconcile(p) \/ \E t \in Task : MonitorMisses(p, t) \/ MonitorFails(p, t)
    BY <1>4, AskWhole, ReconcileWhole
  <1> QED
    BY <1>1, <1>2, <1>3, <1>4 DEF Monitor

LEMMA TimeWhole ==
    ASSUME TypeInv, Unstranded, Time PROVE Unstranded' /\ Untaken
  <1>1. \A t \in Task : row[t] \in Rows /\ WholeRow(row[t])
    BY DEF TypeInv, DbOK, Unstranded, RowsWhole
  <1>2. UNCHANGED <<JOBS, mon, lock>>
    BY DEF Time, ClaimAges, DeferralEnds
  <1>3. \A t \in Task : \/ row'[t] = row[t]
                        \/ row'[t] = [row[t] EXCEPT !.claim = "stale"]
                        \/ row'[t] = [row[t] EXCEPT !.deferred = FALSE]
    BY DEF Time, ClaimAges, DeferralEnds, TypeInv, DbOK
  <1>4. \A t \in Task : WholeRow(row'[t]) /\ row'[t].status = row[t].status
    <2> TAKE t \in Task
    <2>1. /\ LET n == [row[t] EXCEPT !.claim = "stale"] IN WholeRow(n) /\ n.status = row[t].status
          /\ LET n == [row[t] EXCEPT !.deferred = FALSE] IN WholeRow(n) /\ n.status = row[t].status
      BY <1>1, RowWhole
    <2> QED
      BY <1>1, <1>3, <2>1
  <1>5. \A q \in App : mon'[q].pc # "relegacy"
    BY <1>2 DEF Unstranded, NoOldListed
  <1> QED
    BY <1>2, <1>4, <1>5, RowsStayWhole

LEMMA NextWhole ==
    ASSUME Lasting, "unknown" \notin Faults, TypeInv, Truth, Unstranded, AsksWhole, OpenIfGone,
           [Next]_vars
    PROVE  Unstranded' /\ (Untaken \/ \E p \in App, t \in Task : ClaimNext(p, t))
  <1>1. CASE UNCHANGED vars
    BY <1>1 DEF vars, Unstranded, RowsWhole, CopiesWhole, LocksWhole, NoOldListed, Untaken
  <1>2. ASSUME NEW p \in App, Monitor(p)
        PROVE  Unstranded' /\ (Untaken \/ \E t \in Task : ClaimNext(p, t))
    BY <1>2, MonitorWhole
  <1>3. ASSUME NEW p \in App, SectionEnds(p) PROVE Unstranded' /\ Untaken
    BY <1>3, SectionWhole
  <1>4. ASSUME NEW p \in App, Handler(p) PROVE Unstranded' /\ Untaken
    BY <1>4, HandlerWhole
  <1>5. ASSUME NEW p \in App PROVE ~Crash(p)
    BY DEF Crash, Lasting
  <1>6. ASSUME NEW t \in Task, DraftRequeue(t) PROVE Unstranded' /\ Untaken
    BY <1>6, RequeueWhole DEF DraftRequeue
  <1>7. CASE Provider
    BY <1>7 DEF Provider, JobEnds, PublishManifest, Forget, dbVars,
                Unstranded, RowsWhole, CopiesWhole, LocksWhole, NoOldListed, Untaken
  <1>8. CASE Time
    BY <1>8, TimeWhole
  <1> QED
    BY <1>1, <1>2, <1>3, <1>4, <1>5, <1>6, <1>7, <1>8 DEF Next

(* What a rework is about to publish is a row that was just written.       *)
LEMMA NextAsksWhole ==
    ASSUME TypeInv, AsksWhole, [Next]_vars, RowsWhole' PROVE AsksWhole'
  <1>1. ASSUME NEW p \in App, NEW op, NEW seen,
               op = "publish" => \A t \in Task : WholeRow(seen[t]),
               ask' = [ask EXCEPT ![p] = [op |-> op, seen |-> seen]]
        PROVE  AsksWhole'
    <2>1. /\ ask'[p].op = op /\ ask'[p].seen = seen
          /\ \A q \in App \ {p} : ask'[q] = ask[q]
      BY <1>1 DEF TypeInv, AskOK
    <2> QED
      BY <1>1, <2>1 DEF AsksWhole
  <1>2. CASE UNCHANGED ask
    BY <1>2 DEF AsksWhole
  <1>3. ASSUME NEW p \in App, ask' = [ask EXCEPT ![p] = Quiet] PROVE AsksWhole'
    <2>1. PICK seen : seen = [t \in Task |-> NoRow]
      OBVIOUS
    <2>2. Quiet = [op |-> "none", seen |-> seen]
      BY <2>1 DEF Quiet
    <2>3. ask' = [ask EXCEPT ![p] = [op |-> "none", seen |-> seen]]
      BY <1>3, <2>2
    <2>4. "none" = "publish" => \A t \in Task : WholeRow(seen[t])
      OBVIOUS
    <2> QED
      BY <1>1, <2>3, <2>4
  <1>4. ASSUME NEW p \in App, NEW S \in SUBSET Task, NEW op \in {"rework", "bulk"},
               ask' = [ask EXCEPT ![p] = [op |-> op, seen |-> Load(S)]]
        PROVE  AsksWhole'
    BY <1>1, <1>4
  <1>5. ASSUME NEW p \in App,
               ask' = [ask EXCEPT ![p] = [op |-> "publish",
                          seen |-> [t \in Task |-> IF t \in Asked(ask[p].seen)
                                                   THEN row'[t] ELSE NoRow]]]
        PROVE  AsksWhole'
    <2> DEFINE seen == [t \in Task |-> IF t \in Asked(ask[p].seen) THEN row'[t] ELSE NoRow]
    <2>1. \A t \in Task : WholeRow(seen[t])
      BY EmptyWhole DEF RowsWhole
    <2>2. ask' = [ask EXCEPT ![p] = [op |-> "publish", seen |-> seen]]
      BY <1>5
    <2> HIDE DEF seen
    <2> QED
      BY <1>1, <2>1, <2>2
  <1> QED
    BY <1>2, <1>3, <1>4, <1>5, AskMoves

(* A thread that submits a row goes on doing so, or the row is released.   *)
Steady == \A q \in App, t \in Task :
    Submits(q, t) => Submits(q, t)' \/ row'[t].status # "DISPATCHING"

LEMMA MonitorSteady ==
    ASSUME Lasting, TypeInv, NEW p \in App, Monitor(p) PROVE Steady
  <1>1. mon[p] \in Monitors
    BY DEF TypeInv, MonOK
  <1>2. \A q \in App \ {p} : mon'[q] = mon[q] /\ lock'[q] = lock[q]
    BY DEF Monitor, RecoverReads, RecoverWrites, DispatchNothing, ClaimNext, DispatchPosts,
           DispatchFails, ReleaseReads, ReleaseSubmission, ClaimLegacy, LegacyReads, ClaimActive,
           MonitorReads, MonitorMisses, MonitorFails, ReleaseActiveClaim, Reconcile, RecoversFrom,
           StatusSections, Goto, Done, Hold, TypeInv, MonOK, LockOK
  <1>3. lock[p].op # "free" => lock'[p] = lock[p]
    BY DEF Monitor, RecoverReads, RecoverWrites, DispatchNothing, ClaimNext, DispatchPosts,
           DispatchFails, ReleaseReads, ReleaseSubmission, ClaimLegacy, LegacyReads, ClaimActive,
           MonitorReads, MonitorMisses, MonitorFails, ReleaseActiveClaim, Reconcile, LockFree
  <1> SUFFICES ASSUME NEW t \in Task, Submits(p, t), ~Posts(p, t)
               PROVE  Submits(p, t)' \/ row'[t].status # "DISPATCHING"
    BY <1>2, <1>3 DEF Steady, Submits, Posts
  <1>4. mon[p].task = t /\ mon[p].pc \in {"claimed", "release", "releasing"}
        /\ (mon[p].pc = "releasing" => mon[p].seen = "DISPATCHING")
    BY DEF Submits, Posts
  <1>5. \/ DispatchFails(p) \/ ReleaseReads(p) \/ ReleaseSubmission(p)
        \/ \E j \in Job : DispatchPosts(p, j)
    BY <1>4 DEF Monitor, RecoverReads, RecoverWrites, DispatchNothing, ClaimNext, ClaimLegacy,
           LegacyReads, ClaimActive, MonitorReads, MonitorMisses, MonitorFails, ReleaseActiveClaim,
           Reconcile, MonitorAt
  <1>6. CASE DispatchFails(p)
    BY <1>1, <1>4, <1>6 DEF DispatchFails, Goto, Submits, TypeInv, MonOK, Monitors
  <1>7. CASE ReleaseReads(p)
    BY <1>1, <1>4, <1>7 DEF ReleaseReads, Submits, TypeInv, MonOK, Monitors, dbVars
  <1>8. CASE ReleaseSubmission(p)
    BY <1>4, <1>8 DEF ReleaseSubmission, MonitorAt, TypeInv, DbOK, Rows
  <1>9. ASSUME NEW j \in Job, DispatchPosts(p, j) PROVE Submits(p, t)'
    <2>1. CASE Hold(p, "monitor", "post", t, "UNKNOWN", j)
      BY <2>1 DEF Hold, Submits, TypeInv, LockOK
    <2>2. CASE Goto(p, "release")
      BY <1>1, <1>4, <2>2 DEF Goto, Submits, TypeInv, MonOK, Monitors
    <2> QED
      BY <1>4, <1>9, <2>1, <2>2 DEF DispatchPosts
  <1> QED
    BY <1>5, <1>6, <1>7, <1>8, <1>9

LEMMA NextSteady ==
    ASSUME Lasting, TypeInv, [Next]_vars PROVE Steady
  <1>1. ASSUME UNCHANGED mon, \A q \in App : lock[q].op = "post" => lock'[q] = lock[q]
        PROVE  Steady
    BY <1>1 DEF Steady, Submits
  <1>2. ASSUME NEW p \in App, Monitor(p) PROVE Steady
    BY <1>2, MonitorSteady
  <1>3. ASSUME NEW p \in App, DispatchEnds(p) PROVE Steady
    <2>1. PICK t : t = lock[p].task
      OBVIOUS
    <2>2. PICK d : d = [JOBS[p][t] EXCEPT !.status = "QUEUED", !.job = lock[p].sub]
      OBVIOUS
    <2>3. t \in Task /\ lock[p].op = "post" /\ Record(p, t, d) /\ UNCHANGED mon
          /\ \A q \in App \ {p} : lock'[q] = lock[q]
      BY <1>3, <2>1, <2>2 DEF DispatchEnds, Unlock, TypeInv, LockOK
    <2>4. d.status = "QUEUED"
      BY <2>2, <2>3 DEF TypeInv, CopiesOK, Entries
    <2>5. Recorded(d, row[t]).status = "QUEUED"
      BY <2>4 DEF Recorded
    <2>6. row'[t].status = "QUEUED"
      BY <2>3, <2>5 DEF Record, Lasting, TypeInv, DbOK
    <2> QED
      BY <2>1, <2>3, <2>6 DEF Steady, Submits
  <1>4. ASSUME NEW p \in App, PollEnds(p) \/ ImportEnds(p) \/ LegacyEnds(p) \/ RecoverEnds(p)
                               \/ CancelEnds(p)
        PROVE  Steady
    <2>1. UNCHANGED mon /\ lock[p].op # "post" /\ \A q \in App \ {p} : lock'[q] = lock[q]
      BY <1>4 DEF PollEnds, ImportEnds, LegacyEnds, RecoverEnds, CancelEnds, RecoversFrom, Hold,
                  Unlock, TypeInv, LockOK
    <2> QED
      BY <1>1, <2>1
  <1>5. ASSUME NEW p \in App, \/ ReworkWrites(p) \/ ReworkPublished(p) \/ BulkWrites(p)
                              \/ \E S \in SUBSET Task : BulkReads(p, S)
                              \/ \E t \in Task : \/ Create(p, t) \/ GetStatus(p, t)
                                                 \/ CancelStarts(p, t) \/ ReworkReads(p, t)
        PROVE  Steady
    <2>1. UNCHANGED mon /\ (UNCHANGED lock \/ (LockFree(p) /\ \A q \in App \ {p} : lock'[q] = lock[q]))
      BY <1>5 DEF ReworkWrites, ReworkPublished, BulkWrites, BulkReads, Create, GetStatus,
                  CancelStarts, ReworkReads, StatusSections, Hold, TypeInv, LockOK
    <2> QED
      BY <1>1, <2>1 DEF LockFree
  <1>6. ASSUME NEW p \in App PROVE ~Crash(p)
    BY DEF Crash, Lasting
  <1>7. CASE Provider \/ Time \/ (\E t \in Task : DraftRequeue(t)) \/ UNCHANGED vars
    <2>1. UNCHANGED <<mon, lock>>
      BY <1>7 DEF Provider, JobEnds, PublishManifest, Forget, Time, ClaimAges, DeferralEnds,
                  DraftRequeue, vars
    <2> QED
      BY <1>1, <2>1
  <1> QED
    BY <1>2, <1>3, <1>4, <1>5, <1>6, <1>7 DEF Next, SectionEnds, Handler

LEMMA NextHeld ==
    ASSUME Lasting, "unknown" \notin Faults, TypeInv, Truth, Unstranded, AsksWhole, OpenIfGone,
           RowsHeld, [Next]_vars
    PROVE  RowsHeld'
  <1>1. Steady
    BY NextSteady
  <1>2. CASE Untaken
    BY <1>1, <1>2 DEF RowsHeld, Steady, Untaken
  <1>3. ASSUME NEW p \in App, NEW t \in Task, ClaimNext(p, t) PROVE RowsHeld'
    <2>1. Submits(p, t)' /\ \A s \in Task \ {t} : row'[s] = row[s]
      BY <1>3, ClaimWhole
    <2> QED
      BY <1>1, <2>1 DEF RowsHeld, Steady
  <1> QED
    BY <1>2, <1>3, NextWhole

LEMMA InitWhole ==
    ASSUME Init, NoOldRows PROVE Unstranded
  <1>1. RowsWhole
    <2>1. \A t \in Task : row[t] = NoRow
      BY DEF Init, NoOldRows
    <2> QED
      BY <2>1, EmptyWhole DEF RowsWhole
  <1>2. CopiesWhole
    BY EmptyWhole DEF Init, CopiesWhole
  <1>3. LocksWhole /\ NoOldListed
    BY DEF Init, LocksWhole, NoOldListed, Unlocked, Started
  <1> QED
    BY <1>1, <1>2, <1>3 DEF Unstranded

(* A provider that forgets no job knows every job it accepted, so no       *)
(* status call answers that there is none.                                 *)
Remembered == AllKnown /\ NoneGone

LEMMA InitRemembered ==
    ASSUME Init, NoOldRows PROVE Remembered
  <1>1. \A t \in Task : LegacyJob[t] = 0
    BY DEF NoOldRows, NoJob
  <1>2. \A j \in Job : job[j] = NoSuchJob
    BY <1>1 DEF Init, Job
  <1> QED
    BY <1>2 DEF Init, Remembered, AllKnown, NoneGone, NoSuchJob, Started

LEMMA JobsRemembered ==
    ASSUME TypeInv, AllKnown, "gone" \notin Faults, [Next]_vars PROVE AllKnown'
  <1>1. \A j \in Job : job[j] \in ProviderJobs /\ (job[j].state # "none" => job[j].known)
    BY DEF TypeInv, ProviderOK, AllKnown
  <1>2. CASE UNCHANGED job
    BY <1>1, <1>2 DEF AllKnown
  <1>3. ASSUME NEW t, NEW j \in Job, Accept(j, t) PROVE AllKnown'
    BY <1>1, <1>3 DEF Accept, AllKnown, TypeInv, ProviderOK
  <1>4. ASSUME NEW j \in Job, NEW outcome, job[j].state # "none",
               job' = [job EXCEPT ![j].state = outcome]
        PROVE  AllKnown'
    BY <1>1, <1>4 DEF AllKnown, TypeInv, ProviderOK, ProviderJobs
  <1>5. ASSUME NEW j \in Job, NEW outcome, JobEnds(j, outcome) PROVE AllKnown'
    BY <1>1, <1>5 DEF JobEnds, AllKnown, TypeInv, ProviderOK, ProviderJobs
  <1>6. ASSUME NEW j \in Job, PublishManifest(j) PROVE AllKnown'
    BY <1>1, <1>6 DEF PublishManifest, AllKnown, TypeInv, ProviderOK, ProviderJobs
  <1>7. CASE Provider
    BY <1>5, <1>6, <1>7 DEF Provider, Forget
  <1>8. ASSUME NEW p \in App, Monitor(p) PROVE AllKnown'
    <2>1. UNCHANGED job \/ \E j \in Job : DispatchPosts(p, j)
      BY <1>8 DEF Monitor, RecoverReads, RecoverWrites, DispatchNothing, ClaimNext, DispatchFails,
                  ReleaseReads, ReleaseSubmission, ClaimLegacy, LegacyReads, ClaimActive, MonitorReads, MonitorMisses,
                  MonitorFails, ReleaseActiveClaim, Reconcile, providerVars
    <2> QED
      BY <1>2, <1>3, <2>1 DEF DispatchPosts
  <1>9. ASSUME NEW p \in App, Handler(p) PROVE AllKnown'
    <2>1. \/ UNCHANGED job
          \/ \E t \in Task : CancelStarts(p, t)
      BY <1>9 DEF Handler, CancelEnds, Create, GetStatus, ReworkReads, ReworkWrites, ReworkPublished,
                  BulkReads, BulkWrites, providerVars
    <2>2. ASSUME NEW t \in Task, CancelStarts(p, t) PROVE AllKnown'
      <3>1. \/ UNCHANGED job
            \/ /\ Known(Loaded(p, t).job)
               /\ job[Loaded(p, t).job].state = "IN_PROGRESS"
               /\ job' = [job EXCEPT ![Loaded(p, t).job].state = "CANCELLED"]
        BY <2>2 DEF CancelStarts
      <3>2. Loaded(p, t).job \in Job \cup {NoJob}
        BY LoadedType DEF TypeInv, Entries
      <3> QED
        BY <1>2, <1>4, <3>1, <3>2 DEF Known
    <2> QED
      BY <1>2, <2>1, <2>2
  <1>10. ASSUME NEW p \in App, SectionEnds(p) \/ Crash(p) PROVE UNCHANGED job
    BY <1>10 DEF SectionEnds, DispatchEnds, PollEnds, ImportEnds, LegacyEnds, RecoverEnds,
                 Crash, providerVars
  <1>11. ASSUME Time \/ (\E t \in Task : DraftRequeue(t)) PROVE UNCHANGED job
    BY <1>11 DEF DraftRequeue, Time, ClaimAges, DeferralEnds, providerVars
  <1>12. CASE UNCHANGED vars
    BY <1>2, <1>12 DEF vars
  <1> QED
    BY <1>2, <1>7, <1>8, <1>9, <1>10, <1>11, <1>12 DEF Next

LEMMA NobodyMisses ==
    ASSUME "unknown" \notin Faults, TypeInv, Truth, Unstranded, AllKnown,
           NEW p \in App, NEW t \in Task
    PROVE  ~MonitorMisses(p, t)
  <1> DEFINE c == Loaded(p, t)
  <1> SUFFICES ASSUME Polls(c), ~Known(c.job) PROVE FALSE
    BY DEF MonitorMisses
  <1>1. WholeCopy(c) /\ c \in Entries /\ Honest(job, t, c)
    BY LoadedWhole, LoadedType, LoadedHonest DEF TypeInv, Truth
  <1>2. c.status \in ACTIVE_STATES
    BY <1>1 DEF Polls, Entries, Status, WholeCopy, Whole
  <1>3. c.job # NoJob
    BY <1>1, <1>2 DEF WholeCopy, Whole
  <1> HIDE DEF c
  <1>4. c.job \in Job /\ job[c.job].state # "none"
    BY <1>1, <1>3 DEF Honest, Accepted
  <1> QED
    BY <1>3, <1>4 DEF AllKnown, Known

LEMMA NextRemembered ==
    ASSUME "unknown" \notin Faults, "gone" \notin Faults, TypeInv, Truth, Unstranded,
           Remembered, [Next]_vars
    PROVE  Remembered'
  <1>1. AllKnown'
    BY JobsRemembered DEF Remembered
  <1>2. \A q \in App : mon[q] \in Monitors /\ mon[q].pc # "gone"
    BY DEF TypeInv, MonOK, Remembered, NoneGone
  <1>3. CASE UNCHANGED mon
    BY <1>1, <1>2, <1>3 DEF Remembered, NoneGone
  <1>4. ASSUME NEW p \in App, NEW m, mon' = [mon EXCEPT ![p] = m], m.pc # "gone"
        PROVE  NoneGone'
    BY <1>2, <1>4 DEF NoneGone, TypeInv, MonOK
  <1>5. ASSUME NEW p \in App, Monitor(p) PROVE NoneGone'
    <2>1. CASE DispatchNothing(p) \/ DispatchFails(p)
      <3>1. PICK pc \in {"legacy", "release"} : Goto(p, pc)
        BY <2>1 DEF DispatchNothing, DispatchFails
      <3>2. PICK m : m = [mon[p] EXCEPT !.pc = pc]
        OBVIOUS
      <3>3. mon' = [mon EXCEPT ![p] = m] /\ m.pc = pc
        BY <1>2, <3>1, <3>2 DEF Goto, Monitors
      <3> QED
        BY <1>4, <3>3
    <2>2. CASE \/ \E t \in Task : ClaimNext(p, t) \/ LegacyReads(p, t)
               \/ \E j \in Job : DispatchPosts(p, j)
               \/ ClaimLegacy(p)
      <3>1. mon'[p].pc \in {"claimed", "release", "legacy", "relegacy", "active"}
        <4>1. CASE \E t \in Task : ClaimNext(p, t)
          BY <1>2, <4>1 DEF ClaimNext, TypeInv, MonOK, Monitors
        <4>2. CASE \E t \in Task : LegacyReads(p, t)
          BY <1>2, <4>2 DEF LegacyReads, TypeInv, MonOK, Monitors
        <4>3. CASE \E j \in Job : DispatchPosts(p, j)
          BY <1>2, <4>3 DEF DispatchPosts, Goto, TypeInv, MonOK, Monitors
        <4>5. CASE ClaimLegacy(p)
          <5>1. PICK pc \in {"relegacy", "active"} :
                   mon' = [mon EXCEPT ![p].pc = pc, ![p].todo = LegacyRows, ![p].skip = LegacyRows]
            BY <4>5 DEF ClaimLegacy
          <5> QED
            BY <1>2, <5>1 DEF TypeInv, MonOK, Monitors
        <4> QED
          BY <2>2, <4>1, <4>2, <4>3, <4>5
      <3>2. \A q \in App \ {p} : mon'[q] = mon[q]
        BY <2>2 DEF ClaimNext, LegacyReads, DispatchPosts, Goto, ClaimLegacy,
                    TypeInv, MonOK
      <3> QED
        BY <1>2, <3>1, <3>2 DEF NoneGone
    <2>3. CASE ClaimActive(p)
      <3> DEFINE m == [Started EXCEPT !.pc = IF (ActiveRows \cup ImportRows) \ mon[p].skip = {}
                                             THEN "dispatch" ELSE "poll",
                                      !.todo = (ActiveRows \cup ImportRows) \ mon[p].skip]
      <3>1. mon' = [mon EXCEPT ![p] = m]
        BY <2>3 DEF ClaimActive
      <3>2. m.pc # "gone"
        BY DEF Started
      <3> HIDE DEF m
      <3> QED
        BY <1>4, <3>1, <3>2
    <2>4. CASE (\E t \in Task : MonitorReads(p, t)) \/ ReleaseActiveClaim(p) \/ Reconcile(p)
      <3>1. PICK t : Done(p, t)
        BY <2>4 DEF MonitorReads, ReleaseActiveClaim, Reconcile
      <3>2. \A q \in App \ {p} : mon'[q] = mon[q]
        BY <3>1 DEF Done, TypeInv, MonOK
      <3>3. mon'[p].pc # "gone"
        BY <3>1, DoneIs
      <3> QED
        BY <1>2, <3>2, <3>3 DEF NoneGone
    <2>5. ASSUME NEW t \in Task, MonitorMisses(p, t) PROVE NoneGone'
      BY <2>5, NobodyMisses DEF Remembered
    <2>6. ASSUME NEW t \in Task, MonitorFails(p, t) PROVE NoneGone'
      BY <1>2, <2>6 DEF MonitorFails, NoneGone, TypeInv, MonOK, Monitors
    <2>7. CASE RecoverReads(p) \/ RecoverWrites(p) \/ ReleaseReads(p) \/ ReleaseSubmission(p)
      <3>1. CASE RecoverReads(p) \/ RecoverWrites(p) \/ ReleaseReads(p)
        BY <1>2, <3>1 DEF RecoverReads, RecoverWrites, ReleaseReads, NoneGone, TypeInv, MonOK,
                          Monitors
      <3>2. CASE ReleaseSubmission(p)
        BY <1>2, <3>2 DEF ReleaseSubmission, NoneGone, TypeInv, MonOK, Started
      <3> QED
        BY <2>7, <3>1, <3>2
    <2> QED
      BY <1>5, <2>1, <2>2, <2>3, <2>4, <2>5, <2>6, <2>7 DEF Monitor
  <1>6. ASSUME NEW p \in App, Crash(p) PROVE NoneGone'
    <2>1. PICK m : m = Started
      OBVIOUS
    <2>2. mon' = [mon EXCEPT ![p] = m] /\ m.pc = "dispatch"
      BY <1>6, <2>1 DEF Crash, Started
    <2> QED
      BY <1>4, <2>2
  <1>7. ASSUME NEW p \in App, SectionEnds(p) \/ Handler(p) PROVE UNCHANGED mon
    BY <1>7 DEF SectionEnds, DispatchEnds, PollEnds, ImportEnds, LegacyEnds, RecoverEnds,
                Handler, CancelEnds, Create, GetStatus, CancelStarts, ReworkReads, ReworkWrites,
                ReworkPublished, BulkReads, BulkWrites
  <1>8. ASSUME Provider \/ Time \/ (\E t \in Task : DraftRequeue(t)) \/ UNCHANGED vars
        PROVE  UNCHANGED mon
    BY <1>8 DEF DraftRequeue, Time, ClaimAges, DeferralEnds, Provider, JobEnds,
                PublishManifest, Forget, vars
  <1>9. NoneGone'
    BY <1>2, <1>3, <1>5, <1>6, <1>7, <1>8 DEF Next, Remembered
  <1> QED
    BY <1>1, <1>9 DEF Remembered

LEMMA StaysOpen ==
    ASSUME InStep PROVE OpenIfGone
  BY DEF InStep, GoneIsOpen, Misses404, OpenIfGone

LEMMA InitHeld ==
    ASSUME Init, NoOldRows PROVE AsksWhole /\ RowsHeld
  <1>1. \A t \in Task : row[t].status = "PENDING_SUBMIT"
    BY DEF Init, NoOldRows, NoRow
  <1>2. \A p \in App : ask[p].op = "none"
    BY DEF Init, Quiet
  <1> QED
    BY <1>1, <1>2 DEF AsksWhole, RowsHeld

LEMMA WholeHeld ==
    ASSUME Unstranded, RowsHeld PROVE NoStrandedTask
  BY DEF Unstranded, RowsWhole, WholeRow, Whole, RowsHeld, NoStrandedTask

(* However many processes share the database, whatever the users ask for,  *)
(* and however releases, recoveries and reworks write over what they have  *)
(* looked at before: every row that has not ended is one that is moved on, *)
(* a claimed one by a thread that submits it, an active one by the poll of *)
(* its provider job (NoStrandedTask) - as long as threads live, writes     *)
(* succeed and the provider answers with a status.                         *)
THEOREM NoneStranded == ASSUME Answering PROVE Spec => []NoStrandedTask
  <1> USE DEF Answering
  <1>1. CASE "gone" \notin Faults
    <2>1. Init => Unstranded /\ AsksWhole /\ RowsHeld /\ Remembered
      BY InitWhole, InitHeld, InitRemembered
    <2>2. TypeInv /\ Truth /\ Unstranded /\ AsksWhole /\ RowsHeld /\ Remembered /\ [Next]_vars =>
             Unstranded' /\ AsksWhole' /\ RowsHeld' /\ Remembered'
      <3> SUFFICES ASSUME TypeInv, Truth, Unstranded, AsksWhole, RowsHeld, Remembered, [Next]_vars
                   PROVE  Unstranded' /\ AsksWhole' /\ RowsHeld' /\ Remembered'
        OBVIOUS
      <3>1. OpenIfGone
        BY DEF Remembered, NoneGone, OpenIfGone
      <3>2. Unstranded' /\ RowsHeld' /\ Remembered'
        BY <1>1, <3>1, NextWhole, NextHeld, NextRemembered
      <3> QED
        BY <3>2, NextAsksWhole DEF Unstranded
    <2> QED
      BY <2>1, <2>2, WholeHeld, TypesInvariant, TruthInvariant, PTL DEF Spec
  <1>2. CASE Faulty
    <2>1. Init => Unstranded /\ AsksWhole /\ RowsHeld
      BY InitWhole, InitHeld
    <2>2. TypeInv /\ Truth /\ InStep /\ Unstranded /\ AsksWhole /\ RowsHeld /\ [Next]_vars =>
             Unstranded' /\ AsksWhole' /\ RowsHeld'
      <3> SUFFICES ASSUME TypeInv, Truth, InStep, Unstranded, AsksWhole, RowsHeld, [Next]_vars
                   PROVE  Unstranded' /\ AsksWhole' /\ RowsHeld'
        OBVIOUS
      <3>1. Unstranded' /\ RowsHeld'
        BY StaysOpen, NextWhole, NextHeld
      <3> QED
        BY <3>1, NextAsksWhole DEF Unstranded
    <2> QED
      BY <1>2, <2>1, <2>2, WholeHeld, TypesInvariant, TruthInvariant, InStepInvariant, PTL DEF Spec
  <1> QED
    BY <1>1, <1>2

-----------------------------------------------------------------------------
(* Submitted once.  Every POST /run is answered and recorded; then a row   *)
(* that is being submitted, or was, is not taken for one that waits.       *)
Reliable == Faults \cap {"crash", "dbError", "lostReply"} = {}

(* What a process may be about to write over a row has left the queue.     *)
Late == /\ \A p \in App : lock[p].op \in {"poll", "import", "recover", "legacy"} =>
              JOBS[p][lock[p].task].status \notin PENDING_STATES
        /\ \A p \in App : mon[p].pc = "gone" =>
              JOBS[p][mon[p].task].status \notin PENDING_STATES
        /\ NothingAsked

Serves(j, t) == Created(j) /\ job[j].task = t /\ job[j].gen = gen[t]

(* A thread that is about to submit a task, or to write its row back to    *)
(* where it waits.                                                         *)
Unserved(t) == \A j \in Job : ~Serves(j, t)
Hands(p, t) == \/ mon[p].pc \in {"claimed", "release"} /\ mon[p].task = t
               \/ mon[p].pc = "releasing" /\ mon[p].task = t /\ mon[p].seen = "DISPATCHING"
               \/ mon[p].pc = "recover" /\ t \in mon[p].todo

(* A provider job serves a request no younger than the task's last one, no *)
(* two serve one request, a row that still waits although it has one is    *)
(* about to be told, and nobody is about to submit a task, or to let it    *)
(* wait, that has one.                                                     *)
JobsAsked  == \A j \in Job : Created(j) => /\ job[j].task \in Task
                                           /\ job[j].gen \in 1..gen[job[j].task]
Single     == \A i, j \in Job :
    Created(i) /\ Created(j) /\ job[i].task = job[j].task /\ job[i].gen = job[j].gen => i = j
WaitsTold  == \A t \in Task, j \in Job : Serves(j, t) /\ row[t].status \in PENDING_STATES =>
                 \E p \in App : Posts(p, t)
HandsUnserved == \A p \in App, t \in Task : Hands(p, t) => Unserved(t)
Once == JobsAsked /\ Single /\ WaitsTold /\ HandsUnserved

(* So the jobs of a task are as many as some of its requests.              *)
LEMMA OnceCounts == ASSUME TypeInv, Once PROVE SubmittedOnce
  <1> SUFFICES ASSUME NEW t \in Task
               PROVE  Cardinality({ j \in Job : Created(j) /\ job[j].task = t }) <= gen[t]
    BY DEF SubmittedOnce
  <1> DEFINE S == { j \in Job : Created(j) /\ job[j].task = t }
             f == [j \in S |-> job[j].gen]
  <1>1. gen[t] \in Nat
    BY DEF TypeInv, DbOK
  <1>2. f \in Injection(S, 1..gen[t])
    <2>1. \A j \in S : job[j].gen \in 1..gen[t]
      BY DEF Once, JobsAsked
    <2>2. \A i, j \in S : job[i].gen = job[j].gen => i = j
      BY DEF Once, Single
    <2> QED
      BY <2>1, <2>2 DEF Injection, IsInjective
  <1>3. IsFiniteSet(1..gen[t]) /\ Cardinality(1..gen[t]) = gen[t]
    BY <1>1, FS_Interval
  <1> HIDE DEF S, f
  <1>4. Cardinality(S) <= Cardinality(1..gen[t])
    BY <1>2, <1>3, FS_Injection
  <1> QED
    BY <1>3, <1>4 DEF S

(* A row stays as it is, or is moved on past the queue.                    *)
Departs(r, n) == n = r \/ n.status \notin PENDING_STATES
Departing ==
    /\ \A t \in Task : Departs(row[t], row'[t])
    /\ \A q \in App : lock[q].op = "post" =>
          lock'[q] = lock[q] \/ row'[lock[q].task].status \notin PENDING_STATES
    /\ \A q \in App : lock'[q].op = "post" => lock'[q] = lock[q]
    /\ UNCHANGED gen
JobsKeep == \A j \in Job : /\ Created(j)' <=> Created(j)
                           /\ Created(j) => /\ job'[j].task = job[j].task
                                            /\ job'[j].gen = job[j].gen
(* No monitor comes to submit a task, or to write its row back.            *)
ClaimsKeep == \A q \in App : /\ \A t \in Task : Hands(q, t)' => Hands(q, t)
                             /\ mon'[q].pc = "recover" => mon[q].pc = "recover"

LEMMA PutDeparts ==
    ASSUME TypeInv, Reliable, NEW p \in App, NEW t \in Task, NEW d,
           Cache(p, t, d) \/ (Record(p, t, d) /\ d.status \notin PENDING_STATES),
           NEW l, lock' = [lock EXCEPT ![p] = l], l.op # "post",
           lock[p].op = "post" => Record(p, t, d) /\ d.status \notin PENDING_STATES
                                                  /\ t = lock[p].task,
           UNCHANGED gen
    PROVE  Departing
  <1>1. Record(p, t, d) => row' = [row EXCEPT ![t] = Recorded(d, row[t])]
    BY DEF Record, Reliable
  <1>2. Recorded(d, row[t]).status = d.status
    BY DEF Recorded
  <1>3. \A s \in Task : Departs(row[s], row'[s])
    BY <1>1, <1>2 DEF Cache, Departs, TypeInv, DbOK
  <1>4. Record(p, t, d) => row'[t].status = d.status
    BY <1>1, <1>2 DEF TypeInv, DbOK
  <1>5. lock'[p] = l /\ \A q \in App \ {p} : lock'[q] = lock[q]
    BY DEF TypeInv, LockOK
  <1> QED
    BY <1>3, <1>4, <1>5 DEF Departing

(* The lock is free, or is left.                                           *)
LEMMA EndDeparts ==
    ASSUME TypeInv, Reliable, NEW p \in App, NEW t \in Task, NEW d,
           Record(p, t, d), d.status \notin PENDING_STATES,
           \/ Unlock(p) /\ t = lock[p].task
           \/ UNCHANGED lock /\ LockFree(p),
           UNCHANGED gen
    PROVE  Departing
  <1>1. CASE Unlock(p) /\ t = lock[p].task
    <2>1. PICK l : l = Unlocked
      OBVIOUS
    <2>2. lock' = [lock EXCEPT ![p] = l] /\ l.op = "free"
      BY <1>1, <2>1 DEF Unlock, Unlocked
    <2> QED
      BY <1>1, <2>2, PutDeparts
  <1>2. CASE UNCHANGED lock /\ LockFree(p)
    <2>1. lock' = [lock EXCEPT ![p] = lock[p]] /\ lock[p].op = "free"
      BY <1>2 DEF TypeInv, LockOK, LockFree
    <2> QED
      BY <2>1, PutDeparts
  <1> QED
    BY <1>1, <1>2

(* A vanished job's output is recorded for a copy that has left the queue. *)
LEMMA RecoversDeparts ==
    ASSUME TypeInv, Reliable, NEW p \in App, NEW t \in Task, NEW m, RecoversFrom(p, t, m),
           JOBS[p][t].status \notin PENDING_STATES, lock[p].op # "post", UNCHANGED gen
    PROVE  Departing
  <1> DEFINE c == JOBS[p][t]
  <1>1. PICK l : l = [op |-> "recover", by |-> "monitor", task |-> t, got |-> "UNKNOWN", sub |-> NoJob]
    OBVIOUS
  <1>2. lock' = [lock EXCEPT ![p] = l] /\ l.op = "recover"
    BY <1>1 DEF RecoversFrom, Hold
  <1>3. c \in Entries
    BY DEF TypeInv, CopiesOK
  <1>4. CASE c.outs = NoJob
    <2>1. PICK d : d = [c EXCEPT !.outs = m]
      OBVIOUS
    <2>2. d.status = c.status
      BY <1>3, <2>1 DEF Entries
    <2>3. Record(p, t, d)
      BY <1>4, <2>1 DEF RecoversFrom
    <2> QED
      BY <1>2, <2>2, <2>3, PutDeparts
  <1>5. CASE c.outs # NoJob
    <2>1. UNCHANGED <<JOBS, row>>
      BY <1>5 DEF RecoversFrom
    <2>2. JOBS' = [JOBS EXCEPT ![p][t] = c]
      BY <2>1 DEF TypeInv, CopiesOK
    <2>3. Cache(p, t, c)
      BY <2>1, <2>2 DEF Cache
    <2> HIDE DEF c
    <2> QED
      BY <1>2, <2>3, PutDeparts
  <1> QED
    BY <1>4, <1>5

LEMMA SectionDeparts ==
    ASSUME TypeInv, Reliable, Late, NEW p \in App, SectionEnds(p) \/ CancelEnds(p)
    PROVE  Departing
  <1> DEFINE t == lock[p].task
             c == JOBS[p][t]
  <1>1. lock[p].op # "free" /\ UNCHANGED gen
    BY DEF SectionEnds, DispatchEnds, PollEnds, ImportEnds, LegacyEnds, RecoverEnds, CancelEnds
  <1>2. t \in Task /\ c \in Entries /\ lock[p] \in Locks
    BY <1>1 DEF TypeInv, LockOK, CopiesOK
  <1>3. CASE DispatchEnds(p)
    <2>1. PICK d : d = [c EXCEPT !.status = "QUEUED", !.job = lock[p].sub]
      OBVIOUS
    <2>2. d.status = "QUEUED"
      BY <1>2, <2>1 DEF Entries
    <2>3. Record(p, t, d) /\ Unlock(p)
      BY <1>3, <2>1 DEF DispatchEnds
    <2> QED
      BY <1>1, <1>2, <2>2, <2>3, EndDeparts DEF PENDING_STATES
  <1>4. CASE PollEnds(p)
    <2>1. PICK d : d = [c EXCEPT !.status = lock[p].got, !.misses = 0, !.verdict = "none"]
      OBVIOUS
    <2>2. d.status \notin PENDING_STATES
      BY <1>2, <2>1 DEF Entries, Locks, Answer, PENDING_STATES
    <2>3. Record(p, t, d) /\ lock[p].op = "poll"
      BY <1>4, <2>1 DEF PollEnds
    <2>4. CASE Unlock(p)
      BY <1>1, <1>2, <2>2, <2>3, <2>4, EndDeparts
    <2>5. CASE lock' = [lock EXCEPT ![p].op = "import"]
      <3>1. PICK l : l = [lock[p] EXCEPT !.op = "import"]
        OBVIOUS
      <3>2. lock' = [lock EXCEPT ![p] = l] /\ l.op = "import"
        BY <1>2, <2>5, <3>1 DEF TypeInv, LockOK, Locks
      <3> HIDE DEF t
      <3> QED
        BY <1>1, <1>2, <2>2, <2>3, <3>2, PutDeparts
    <2> QED
      BY <1>4, <2>4, <2>5 DEF PollEnds
  <1>5. CASE ImportEnds(p)
    <2>1. PICK m \in Imports(t) : Record(p, t, [c EXCEPT !.outs = m])
      BY <1>5 DEF ImportEnds
    <2>2. PICK d : d = [c EXCEPT !.outs = m]
      OBVIOUS
    <2>3. d.status = c.status /\ lock[p].op = "import" /\ Unlock(p)
      BY <1>2, <1>5, <2>2 DEF Entries, ImportEnds
    <2>4. d.status \notin PENDING_STATES
      BY <2>3 DEF Late
    <2> QED
      BY <1>1, <1>2, <2>1, <2>2, <2>3, <2>4, EndDeparts
  <1>6. CASE RecoverEnds(p) \/ CancelEnds(p)
    <2>1. PICK status \in {"COMPLETED", "CANCELLED"} :
             /\ Record(p, t, [c EXCEPT !.status = status, !.misses = 0, !.verdict = "none"])
             /\ Unlock(p)
      BY <1>6 DEF RecoverEnds, CancelEnds
    <2>2. PICK d : d = [c EXCEPT !.status = status, !.misses = 0, !.verdict = "none"]
      OBVIOUS
    <2>3. d.status \notin PENDING_STATES
      BY <1>2, <2>2 DEF Entries, PENDING_STATES
    <2> QED
      BY <1>1, <1>2, <2>1, <2>2, <2>3, EndDeparts
  <1>7. CASE LegacyEnds(p)
    <2>1. lock[p].op = "legacy" /\ c.status \notin PENDING_STATES
      BY <1>7 DEF LegacyEnds, Late
    <2>2. PICK m \in Outputs(p, t) :
             \/ RecoversFrom(p, t, m)
             \/ /\ Record(p, t, [c EXCEPT !.status = "FAILED", !.misses = 0, !.verdict = "final"])
                /\ Unlock(p)
      BY <1>7 DEF LegacyEnds
    <2>3. CASE RecoversFrom(p, t, m)
      BY <1>1, <1>2, <2>1, <2>3, RecoversDeparts
    <2>4. CASE /\ Record(p, t, [c EXCEPT !.status = "FAILED", !.misses = 0, !.verdict = "final"])
               /\ Unlock(p)
      <3>1. PICK d : d = [c EXCEPT !.status = "FAILED", !.misses = 0, !.verdict = "final"]
        OBVIOUS
      <3>2. d.status = "FAILED"
        BY <1>2, <3>1 DEF Entries
      <3> QED
        BY <1>1, <1>2, <2>4, <3>1, <3>2, EndDeparts DEF PENDING_STATES
    <2> QED
      BY <2>2, <2>3, <2>4
  <1> QED
    BY <1>3, <1>4, <1>5, <1>6, <1>7 DEF SectionEnds

(* A copy is put into memory, and the lock taken for a call about it, or   *)
(* not.                                                                    *)
LEMMA LookDeparts ==
    ASSUME TypeInv, Reliable, NEW p \in App, NEW t \in Task, NEW d, Cache(p, t, d), LockFree(p),
           \/ UNCHANGED lock
           \/ \E by : StatusSections(p, t, by)
           \/ \E by, op, a, j : Hold(p, by, op, t, a, j) /\ op # "post",
           UNCHANGED gen
    PROVE  Departing
  <1>1. ASSUME UNCHANGED lock PROVE Departing
    <2>1. lock' = [lock EXCEPT ![p] = lock[p]] /\ lock[p].op = "free"
      BY <1>1 DEF TypeInv, LockOK, LockFree
    <2> QED
      BY <2>1, PutDeparts
  <1>2. ASSUME NEW by, NEW op, NEW a, NEW j, Hold(p, by, op, t, a, j), op # "post" PROVE Departing
    <2>1. PICK l : l = [op |-> op, by |-> by, task |-> t, got |-> a, sub |-> j]
      OBVIOUS
    <2>2. lock' = [lock EXCEPT ![p] = l] /\ l.op # "post" /\ lock[p].op = "free"
      BY <1>2, <2>1 DEF Hold, LockFree
    <2> QED
      BY <2>2, PutDeparts
  <1>3. ASSUME NEW by, StatusSections(p, t, by) PROVE Departing
    <2>1. \/ UNCHANGED lock
          \/ Hold(p, by, "import", t, "UNKNOWN", NoJob)
          \/ \E a : Hold(p, by, "poll", t, a, NoJob)
      BY <1>3 DEF StatusSections
    <2> QED
      BY <1>1, <1>2, <2>1
  <1> QED
    BY <1>1, <1>2, <1>3

LEMMA HandlerDeparts ==
    ASSUME TypeInv, Reliable, Late, NEW p \in App,
           \/ CancelEnds(p)
           \/ \E t \in Task : \/ GetStatus(p, t) \/ CancelStarts(p, t)
                              \/ Create(p, t) /\ row[t].exists /\ UNCHANGED gen
    PROVE  Departing
  <1>1. CASE CancelEnds(p)
    BY <1>1, SectionDeparts
  <1>2. ASSUME NEW t \in Task, GetStatus(p, t) PROVE Departing
    <2>1. /\ LockFree(p) /\ Cache(p, t, Loaded(p, t)) /\ UNCHANGED gen
          /\ StatusSections(p, t, "http") \/ UNCHANGED lock
      BY <1>2 DEF GetStatus
    <2> QED
      BY <2>1, LookDeparts
  <1>3. ASSUME NEW t \in Task, CancelStarts(p, t) PROVE Departing
    <2> DEFINE c == Loaded(p, t)
    <2>1. LockFree(p) /\ UNCHANGED gen /\ c \in Entries
      BY <1>3, LoadedType DEF CancelStarts, TypeInv
    <2>2. \/ StatusSections(p, t, "http") /\ Cache(p, t, c)
          \/ /\ Record(p, t, [c EXCEPT !.status = "CANCELLED", !.misses = 0, !.verdict = "none"])
             /\ UNCHANGED lock
          \/ Cache(p, t, c) /\ Hold(p, "http", "cancel", t, "UNKNOWN", NoJob)
          \/ Cache(p, t, c) /\ UNCHANGED lock
      BY <1>3 DEF CancelStarts
    <2> HIDE DEF c
    <2>3. CASE /\ Record(p, t, [c EXCEPT !.status = "CANCELLED", !.misses = 0, !.verdict = "none"])
               /\ UNCHANGED lock
      <3>1. PICK d : d = [c EXCEPT !.status = "CANCELLED", !.misses = 0, !.verdict = "none"]
        OBVIOUS
      <3>2. d.status = "CANCELLED"
        BY <2>1, <3>1 DEF Entries
      <3> QED
        BY <2>1, <2>3, <3>1, <3>2, EndDeparts DEF PENDING_STATES
    <2> QED
      BY <2>1, <2>2, <2>3, LookDeparts
  <1>4. ASSUME NEW t \in Task, Create(p, t), row[t].exists, UNCHANGED gen PROVE Departing
    <2>1. LockFree(p) /\ UNCHANGED lock
      BY <1>4 DEF Create
    <2>2. CASE Cache(p, t, Restore(row[t]))
      BY <1>4, <2>1, <2>2, LookDeparts
    <2>3. CASE gen[t] = 0 /\ gen' = [gen EXCEPT ![t] = 1]
      BY <1>4, <2>3 DEF TypeInv, DbOK
    <2> QED
      BY <1>4, <2>2, <2>3 DEF Create
  <1> QED
    BY <1>1, <1>2, <1>3, <1>4

(* Rows are leased or released that have left the queue.                   *)
LEMMA LeaseDeparts ==
    ASSUME \A t \in Task : row'[t] = row[t] \/ row'[t].status \notin PENDING_STATES,
           UNCHANGED <<lock, gen>>
    PROVE  Departing
  BY DEF Departing, Departs

LEMMA ClaimDeparts ==
    ASSUME TypeInv, NEW p \in App,
           ClaimLegacy(p) \/ ClaimActive(p) \/ ReleaseActiveClaim(p)
    PROVE  Departing
  <1>1. \A t \in Task : row[t] \in Rows
    BY DEF TypeInv, DbOK
  <1>2. \A t \in Task :
           \/ row'[t] = row[t]
           \/ /\ row[t].status \notin PENDING_STATES
              /\ \E claim : row'[t] = [row[t] EXCEPT !.claim = claim]
    <2>1. CASE ClaimLegacy(p)
      BY <2>1 DEF ClaimLegacy, LegacyRows, PENDING_STATES
    <2>2. CASE ClaimActive(p)
      BY <2>2 DEF ClaimActive, ActiveRows, PENDING_STATES, ACTIVE_STATES
    <2>3. CASE ReleaseActiveClaim(p)
      BY <2>3 DEF ReleaseActiveClaim, PENDING_STATES, ACTIVE_STATES, TypeInv, DbOK
    <2> QED
      BY <2>1, <2>2, <2>3
  <1>3. \A t \in Task : row'[t] = row[t] \/ row'[t].status \notin PENDING_STATES
    <2> TAKE t \in Task
    <2>1. ASSUME NEW claim PROVE [row[t] EXCEPT !.claim = claim].status = row[t].status
      BY <1>1 DEF Rows
    <2> QED
      BY <1>2, <2>1
  <1>4. UNCHANGED <<lock, gen>>
    BY DEF ClaimLegacy, ClaimActive, ReleaseActiveClaim
  <1> QED
    BY <1>3, <1>4, LeaseDeparts

LEMMA ReconcileDeparts ==
    ASSUME TypeInv, Reliable, Late, NEW p \in App, Reconcile(p) PROVE Departing
  <1>1. PICK t : t = mon[p].task
    OBVIOUS
  <1> DEFINE c == JOBS[p][t]
             attempts == IF c.misses < MinAttempts THEN c.misses + 1 ELSE MinAttempts
             open == IF c.status \in TERMINAL_STATES THEN "IN_PROGRESS" ELSE c.status
  <1>2. mon[p].pc = "gone" /\ LockFree(p) /\ UNCHANGED gen
    BY DEF Reconcile, MonitorAt
  <1>3. t \in Task
    BY <1>1, <1>2 DEF TypeInv, MonOK, Refers
  <1>4. c \in Entries /\ c.status \notin PENDING_STATES
    BY <1>1, <1>2, <1>3 DEF TypeInv, CopiesOK, Late
  <1>5. PICK m \in Outputs(p, t) :
           \/ RecoversFrom(p, t, m)
           \/ /\ Record(p, t, [c EXCEPT !.status = open, !.misses = attempts, !.verdict = "none"])
              /\ UNCHANGED lock
           \/ /\ Record(p, t, [c EXCEPT !.status = "FAILED", !.misses = 0, !.verdict = "final"])
              /\ UNCHANGED lock
    BY <1>1 DEF Reconcile
  <1>6. open \notin PENDING_STATES
    BY <1>4 DEF PENDING_STATES
  <1> HIDE DEF attempts, open
  <1>7. CASE RecoversFrom(p, t, m)
    BY <1>2, <1>3, <1>4, <1>7, RecoversDeparts DEF LockFree
  <1>8. CASE /\ Record(p, t, [c EXCEPT !.status = open, !.misses = attempts, !.verdict = "none"])
             /\ UNCHANGED lock
    <2>1. PICK d : d = [c EXCEPT !.status = open, !.misses = attempts, !.verdict = "none"]
      OBVIOUS
    <2>2. d.status = open
      BY <1>4, <2>1 DEF Entries
    <2> QED
      BY <1>2, <1>3, <1>6, <1>8, <2>1, <2>2, EndDeparts
  <1>9. CASE /\ Record(p, t, [c EXCEPT !.status = "FAILED", !.misses = 0, !.verdict = "final"])
             /\ UNCHANGED lock
    <2>1. PICK d : d = [c EXCEPT !.status = "FAILED", !.misses = 0, !.verdict = "final"]
      OBVIOUS
    <2>2. d.status = "FAILED"
      BY <1>4, <2>1 DEF Entries
    <2> QED
      BY <1>2, <1>3, <1>9, <2>1, <2>2, EndDeparts DEF PENDING_STATES
  <1> QED
    BY <1>5, <1>7, <1>8, <1>9

LEMMA MonitorDeparts ==
    ASSUME TypeInv, Reliable, Late, NEW p \in App,
           \/ DispatchFails(p)
           \/ ClaimLegacy(p) \/ ClaimActive(p) \/ ReleaseActiveClaim(p) \/ Reconcile(p)
           \/ \E t \in Task : \/ LegacyReads(p, t)
                              \/ MonitorReads(p, t) \/ MonitorMisses(p, t) \/ MonitorFails(p, t)
    PROVE  Departing
  <1>1. CASE DispatchFails(p)
    <2>1. mon[p].task \in Task /\ LockFree(p) /\ UNCHANGED <<lock, gen>>
      BY <1>1 DEF DispatchFails, MonitorAt, TypeInv, MonOK, Refers
    <2>2. CASE UNCHANGED row
      BY <2>1, <2>2, LeaseDeparts
    <2> QED
      BY <1>1, <2>2 DEF DispatchFails, Cache
  <1>2. CASE ClaimLegacy(p) \/ ClaimActive(p) \/ ReleaseActiveClaim(p)
    BY <1>2, ClaimDeparts
  <1>3. CASE Reconcile(p)
    BY <1>3, ReconcileDeparts
  <1>4. ASSUME NEW t \in Task, LegacyReads(p, t) PROVE Departing
    <2>1. LockFree(p) /\ Cache(p, t, Restore(row[t])) /\ UNCHANGED gen
          /\ Hold(p, "monitor", "legacy", t, "UNKNOWN", NoJob)
      BY <1>4 DEF LegacyReads
    <2> QED
      BY <2>1, LookDeparts
  <1>5. ASSUME NEW t \in Task, MonitorReads(p, t) PROVE Departing
    <2>1. LockFree(p) /\ Cache(p, t, Loaded(p, t)) /\ UNCHANGED gen
          /\ StatusSections(p, t, "monitor")
      BY <1>5 DEF MonitorReads
    <2> QED
      BY <2>1, LookDeparts
  <1>6. ASSUME NEW t \in Task, MonitorMisses(p, t) \/ MonitorFails(p, t) PROVE Departing
    <2>1. LockFree(p) /\ Cache(p, t, Loaded(p, t)) /\ UNCHANGED <<lock, gen>>
      BY <1>6 DEF MonitorMisses, MonitorFails
    <2> QED
      BY <2>1, LookDeparts
  <1> QED
    BY <1>1, <1>2, <1>3, <1>4, <1>5, <1>6

-----------------------------------------------------------------------------
(* Where the monitors go.                                                  *)

LEMMA DoneMoves ==
    ASSUME NEW p \in App, NEW t, Done(p, t)
    PROVE  \E m : /\ mon' = [mon EXCEPT ![p] = m]
                  /\ m.pc \in {"dispatch", "poll"} /\ m.todo \subseteq mon[p].todo
  <1> DEFINE m == [Started EXCEPT !.pc = IF mon[p].todo \subseteq {t} THEN "dispatch" ELSE "poll",
                                  !.todo = mon[p].todo \ {t}]
  <1>1. mon' = [mon EXCEPT ![p] = m]
    BY DEF Done
  <1>2. m.pc \in {"dispatch", "poll"} /\ m.todo \subseteq mon[p].todo
    BY DEF Started
  <1> HIDE DEF m
  <1> QED
    BY <1>1, <1>2

LEMMA ClaimsStay ==
    ASSUME TypeInv, NEW p \in App,
           \/ RecoverWrites(p) \/ DispatchNothing(p) \/ DispatchFails(p)
           \/ ReleaseReads(p) \/ ReleaseSubmission(p)
           \/ ClaimLegacy(p) \/ ClaimActive(p) \/ ReleaseActiveClaim(p) \/ Reconcile(p)
           \/ \E t \in Task : \/ LegacyReads(p, t)
                              \/ MonitorReads(p, t) \/ MonitorMisses(p, t) \/ MonitorFails(p, t)
    PROVE  ClaimsKeep
  <1>1. mon[p] \in Monitors
    BY DEF TypeInv, MonOK
  <1>2. ASSUME NEW m, mon' = [mon EXCEPT ![p] = m],
               \/ m.pc \notin {"claimed", "release", "releasing", "recover"}
               \/ /\ mon[p].pc \in {"claimed", "release"} /\ m.pc \in {"release", "releasing"}
                  /\ m.task = mon[p].task
        PROVE  ClaimsKeep
    <2>1. mon'[p] = m /\ \A q \in App \ {p} : mon'[q] = mon[q]
      BY <1>2 DEF TypeInv, MonOK
    <2> QED
      BY <1>2, <2>1 DEF ClaimsKeep, Hands
  <1>3. CASE RecoverWrites(p)
    <2>1. PICK m : m = [mon[p] EXCEPT !.pc = "dispatch", !.todo = {}]
      OBVIOUS
    <2>2. mon' = [mon EXCEPT ![p].pc = "dispatch", ![p].todo = {}]
      BY <1>3 DEF RecoverWrites
    <2>3. mon' = [mon EXCEPT ![p] = m] /\ m.pc = "dispatch"
      BY <1>1, <2>1, <2>2 DEF Monitors, TypeInv, MonOK
    <2> QED
      BY <1>2, <2>3
  <1>4. CASE DispatchNothing(p) \/ DispatchFails(p)
    <2>1. PICK pc \in {"legacy", "release"} :
             /\ mon' = [mon EXCEPT ![p].pc = pc]
             /\ pc = "release" => mon[p].pc = "claimed"
      BY <1>4 DEF DispatchNothing, DispatchFails, Goto, MonitorAt
    <2>2. PICK m : m = [mon[p] EXCEPT !.pc = pc]
      OBVIOUS
    <2>3. mon' = [mon EXCEPT ![p] = m] /\ m.pc = pc /\ m.task = mon[p].task
      BY <1>1, <2>1, <2>2 DEF Monitors
    <2> QED
      BY <1>2, <2>1, <2>3
  <1>5. CASE ReleaseReads(p)
    <2>1. PICK m : m = [mon[p] EXCEPT !.pc = "releasing", !.seen = row[mon[p].task].status]
      OBVIOUS
    <2>2. mon' = [mon EXCEPT ![p].pc = "releasing", ![p].seen = row[mon[p].task].status]
          /\ mon[p].pc = "release"
      BY <1>5 DEF ReleaseReads, MonitorAt
    <2>3. mon' = [mon EXCEPT ![p] = m] /\ m.pc = "releasing" /\ m.task = mon[p].task
      BY <1>1, <2>1, <2>2 DEF Monitors, TypeInv, MonOK
    <2> QED
      BY <1>2, <2>2, <2>3
  <1>6. CASE ReleaseSubmission(p)
    <2>1. PICK m : m = [Started EXCEPT !.pc = "legacy"]
      OBVIOUS
    <2>2. mon' = [mon EXCEPT ![p] = m] /\ m.pc = "legacy"
      BY <1>6, <2>1 DEF ReleaseSubmission, Started
    <2> QED
      BY <1>2, <2>2
  <1>7. CASE ClaimLegacy(p) \/ \E t \in Task : LegacyReads(p, t)
    <2>1. mon'[p].pc \in {"active", "relegacy"} /\ \A q \in App \ {p} : mon'[q] = mon[q]
      <3>1. ASSUME ClaimLegacy(p)
            PROVE  mon'[p].pc \in {"active", "relegacy"} /\ \A q \in App \ {p} : mon'[q] = mon[q]
        BY <1>1, <3>1 DEF ClaimLegacy, Monitors, TypeInv, MonOK
      <3>2. ASSUME NEW t \in Task, LegacyReads(p, t)
            PROVE  mon'[p].pc \in {"active", "relegacy"} /\ \A q \in App \ {p} : mon'[q] = mon[q]
        BY <1>1, <3>2 DEF LegacyReads, Monitors, TypeInv, MonOK
      <3> QED
        BY <1>7, <3>1, <3>2
    <2> QED
      BY <2>1 DEF ClaimsKeep, Hands
  <1>8. CASE ClaimActive(p)
    <2>1. PICK pc \in {"dispatch", "poll"} : \E ids :
             mon' = [mon EXCEPT ![p] = [Started EXCEPT !.pc = pc, !.todo = ids]]
      BY <1>8 DEF ClaimActive
    <2>2. PICK ids : mon' = [mon EXCEPT ![p] = [Started EXCEPT !.pc = pc, !.todo = ids]]
      BY <2>1
    <2>3. PICK m : m = [Started EXCEPT !.pc = pc, !.todo = ids]
      OBVIOUS
    <2>4. mon' = [mon EXCEPT ![p] = m] /\ m.pc = pc
      BY <2>2, <2>3 DEF Started
    <2> QED
      BY <1>2, <2>4
  <1>9. ASSUME NEW t, Done(p, t) PROVE ClaimsKeep
    <2>1. PICK m : mon' = [mon EXCEPT ![p] = m] /\ m.pc \in {"dispatch", "poll"}
      BY <1>9, DoneMoves
    <2> QED
      BY <1>2, <2>1
  <1>10. CASE ReleaseActiveClaim(p) \/ Reconcile(p) \/ \E t \in Task : MonitorReads(p, t)
    BY <1>9, <1>10 DEF ReleaseActiveClaim, Reconcile, MonitorReads
  <1>11. CASE \E t \in Task : MonitorMisses(p, t) \/ MonitorFails(p, t)
    <2>1. PICK pc \in {"gone", "failed"}, t \in Task : mon' = [mon EXCEPT ![p].pc = pc, ![p].task = t]
      BY <1>11 DEF MonitorMisses, MonitorFails
    <2>2. PICK m : m = [mon[p] EXCEPT !.pc = pc, !.task = t]
      OBVIOUS
    <2>3. mon' = [mon EXCEPT ![p] = m] /\ m.pc = pc
      BY <1>1, <2>1, <2>2 DEF Monitors, TypeInv, MonOK
    <2> QED
      BY <1>2, <2>3
  <1> QED
    BY <1>3, <1>4, <1>5, <1>6, <1>7, <1>8, <1>10, <1>11

-----------------------------------------------------------------------------
(* Every step but a submission serves the requests there are.              *)

LEMMA UnservedStays ==
    ASSUME JobsKeep, NEW t \in Task, gen'[t] = gen[t], Unserved(t) PROVE Unserved(t)'
  BY DEF JobsKeep, Unserved, Serves

LEMMA OnceStays ==
    ASSUME TypeInv, Once, JobsKeep,
           gen' \in [Task -> Nat],
           \A t \in Task : \/ gen'[t] > gen[t]
                           \/ /\ gen'[t] = gen[t]
                              /\ row'[t].status \in PENDING_STATES =>
                                    row[t].status \in PENDING_STATES \/ Unserved(t),
           \A q \in App : lock[q].op = "post" =>
              lock'[q] = lock[q] \/ row'[lock[q].task].status \notin PENDING_STATES,
           \A q \in App, t \in Task : Hands(q, t)' => Hands(q, t) \/ Unserved(t)
    PROVE  Once'
  <1>1. ASSUME NEW j \in Job, Created(j)'
        PROVE  /\ Created(j) /\ job'[j].task = job[j].task /\ job'[j].gen = job[j].gen
               /\ job[j].task \in Task /\ job[j].gen \in Nat
               /\ job[j].gen \in 1..gen[job[j].task]
    BY <1>1 DEF JobsKeep, Once, JobsAsked, TypeInv, ProviderOK, ProviderJobs
  <1>2. JobsAsked'
    <2>1. \A t \in Task : gen[t] \in Nat /\ gen'[t] \in Nat /\ gen'[t] >= gen[t]
      BY DEF TypeInv, DbOK
    <2> QED
      BY <1>1, <2>1 DEF JobsAsked
  <1>3. Single'
    BY <1>1 DEF Once, Single
  <1>4. ASSUME NEW t \in Task, gen'[t] > gen[t] PROVE Unserved(t)'
    <2> SUFFICES ASSUME NEW j \in Job, Created(j)', job'[j].task = t, job'[j].gen = gen'[t]
                 PROVE  FALSE
      BY DEF Unserved, Serves
    <2>1. gen[t] \in Nat /\ gen'[t] \in Nat /\ job[j].gen \in 1..gen[t]
      BY <1>1 DEF TypeInv, DbOK
    <2> QED
      BY <1>1, <1>4, <2>1
  <1>5. ASSUME NEW t \in Task, Unserved(t) PROVE Unserved(t)'
    BY <1>4, <1>5, UnservedStays
  <1>6. WaitsTold'
    <2> SUFFICES ASSUME NEW t \in Task, NEW j \in Job, Serves(j, t)', row'[t].status \in PENDING_STATES
                 PROVE  \E p \in App : Posts(p, t)'
      BY DEF WaitsTold
    <2>1. ~Unserved(t)'
      BY DEF Unserved
    <2>2. gen'[t] = gen[t] /\ row[t].status \in PENDING_STATES
      BY <1>4, <1>5, <2>1
    <2>3. Serves(j, t)
      BY <1>1, <2>2 DEF Serves
    <2>4. PICK p \in App : Posts(p, t)
      BY <2>2, <2>3 DEF Once, WaitsTold
    <2>5. lock'[p] = lock[p]
      BY <2>4 DEF Posts
    <2> QED
      BY <2>4, <2>5 DEF Posts
  <1>7. HandsUnserved'
    BY <1>5 DEF Once, HandsUnserved
  <1> QED
    BY <1>2, <1>3, <1>6, <1>7 DEF Once

LEMMA DepartingOnce ==
    ASSUME TypeInv, Once, JobsKeep, Departing, ClaimsKeep PROVE Once'
  <1>1. gen' \in [Task -> Nat] /\ \A t \in Task : gen'[t] = gen[t]
    BY DEF Departing, TypeInv, DbOK
  <1>2. \A t \in Task : row'[t].status \in PENDING_STATES => row[t].status \in PENDING_STATES
    BY DEF Departing, Departs
  <1>3. \A q \in App : lock[q].op = "post" =>
              lock'[q] = lock[q] \/ row'[lock[q].task].status \notin PENDING_STATES
    BY DEF Departing
  <1>4. \A q \in App, t \in Task : Hands(q, t)' => Hands(q, t)
    BY DEF ClaimsKeep
  <1> QED
    BY <1>1, <1>2, <1>3, <1>4, OnceStays

(* Rows that wait are claimed, released, taken back or deferred.           *)
LEMMA WaitingOnce ==
    ASSUME TypeInv, Once, UNCHANGED <<gen, lock, job>>,
           \A t \in Task : row'[t].status \in PENDING_STATES =>
              row[t].status \in PENDING_STATES \/ Unserved(t),
           \A q \in App, t \in Task : Hands(q, t)' => Hands(q, t) \/ Unserved(t)
    PROVE  Once'
  <1>1. JobsKeep
    BY DEF JobsKeep, Created
  <1>2. gen' \in [Task -> Nat] /\ \A t \in Task : gen'[t] = gen[t]
    BY DEF TypeInv, DbOK
  <1> QED
    BY <1>1, <1>2, OnceStays

(* While a process is about to submit a task no other one is; and nobody   *)
(* submits a task that a monitor may claim or take back.                   *)
Alone == \A p, q \in App :
    /\ mon[p].pc = "claimed" /\ q # p => ~Posts(q, mon[p].task) /\ ~Hands(q, mon[p].task)
    /\ MonitorAt(p, "dispatch") => \A t \in Task :
          row[t].status = "PENDING_SUBMIT" \/ StaleDispatch(row[t]) => ~Posts(q, t)

LEMMA QueueOnce ==
    ASSUME TypeInv, Once, Alone, NEW p \in App,
           \/ RecoverReads(p) \/ RecoverWrites(p) \/ DispatchNothing(p)
           \/ ReleaseReads(p) \/ ReleaseSubmission(p)
           \/ \E t \in Task : ClaimNext(p, t)
    PROVE  Once'
  <1>1. /\ \A t \in Task : row[t] \in Rows
        /\ mon[p] \in Monitors
    BY DEF TypeInv, DbOK, MonOK
  <1>2. UNCHANGED <<gen, lock, job>>
    BY DEF RecoverReads, RecoverWrites, DispatchNothing, ReleaseReads, ReleaseSubmission,
           ClaimNext, providerVars, dbVars
  <1>3. ASSUME \A t \in Task : \/ row'[t] = row[t] \/ Hands(p, t)
                               \/ row[t].status \in PENDING_STATES
        PROVE  \A t \in Task : row'[t].status \in PENDING_STATES =>
                  row[t].status \in PENDING_STATES \/ Unserved(t)
    BY <1>3 DEF Once, HandsUnserved
  <1>4. ASSUME NEW t \in Task, MonitorAt(p, "dispatch"),
               row[t].status = "PENDING_SUBMIT" \/ StaleDispatch(row[t])
        PROVE  Unserved(t) /\ row[t].status \in PENDING_STATES
    <2>1. row[t].status \in PENDING_STATES
      BY <1>4 DEF StaleDispatch, PENDING_STATES
    <2>2. \A q \in App : ~Posts(q, t)
      BY <1>4 DEF Alone
    <2> QED
      BY <2>1, <2>2 DEF Once, WaitsTold, Unserved
  <1>5. CASE RecoverReads(p)
    <2>1. MonitorAt(p, "dispatch") /\ UNCHANGED row
          /\ mon' = [mon EXCEPT ![p].pc = "recover", ![p].todo = StaleRows]
      BY <1>5 DEF RecoverReads, dbVars
    <2>2. /\ mon'[p].pc = "recover" /\ mon'[p].todo = StaleRows
          /\ \A q \in App \ {p} : mon'[q] = mon[q]
      BY <1>1, <2>1 DEF Monitors, TypeInv, MonOK
    <2>3. ASSUME NEW q \in App, NEW t \in Task, Hands(q, t)' PROVE Hands(q, t) \/ Unserved(t)
      <3>1. CASE q = p
        <4>1. StaleDispatch(row[t])
          BY <2>2, <2>3, <3>1 DEF Hands, StaleRows
        <4> QED
          BY <1>4, <2>1, <4>1
      <3>2. CASE q # p
        BY <2>2, <2>3, <3>2 DEF Hands
      <3> QED
        BY <3>1, <3>2
    <2> QED
      BY <1>2, <2>1, <2>3, WaitingOnce
  <1>6. CASE RecoverWrites(p)
    <2>1. \A t \in Task : row'[t] = row[t] \/ Hands(p, t)
      BY <1>6 DEF RecoverWrites, MonitorAt, Hands
    <2>2. ClaimsKeep
      BY <1>6, ClaimsStay
    <2> QED
      BY <1>2, <1>3, <2>1, <2>2, WaitingOnce DEF ClaimsKeep
  <1>7. CASE DispatchNothing(p) \/ ReleaseReads(p)
    <2>1. UNCHANGED row
      BY <1>7 DEF DispatchNothing, ReleaseReads, dbVars
    <2>2. ClaimsKeep
      BY <1>7, ClaimsStay
    <2> QED
      BY <1>2, <2>1, <2>2, WaitingOnce DEF ClaimsKeep
  <1>8. CASE ReleaseSubmission(p)
    <2>1. \A t \in Task : row'[t] = row[t] \/ Hands(p, t)
      BY <1>8 DEF ReleaseSubmission, MonitorAt, Hands, TypeInv, DbOK
    <2>2. ClaimsKeep
      BY <1>8, ClaimsStay
    <2> QED
      BY <1>2, <1>3, <2>1, <2>2, WaitingOnce DEF ClaimsKeep
  <1>9. ASSUME NEW t \in Task, ClaimNext(p, t) PROVE Once'
    <2>1. MonitorAt(p, "dispatch") /\ row[t].status = "PENDING_SUBMIT"
          /\ mon' = [mon EXCEPT ![p].pc = "claimed", ![p].task = t]
          /\ \A s \in Task \ {t} : row'[s] = row[s]
      BY <1>9 DEF ClaimNext, Eligible, TypeInv, DbOK
    <2>2. Unserved(t) /\ row[t].status \in PENDING_STATES
      BY <1>4, <2>1
    <2>3. /\ mon'[p].pc = "claimed" /\ mon'[p].task = t
          /\ \A q \in App \ {p} : mon'[q] = mon[q]
      BY <1>1, <2>1 DEF Monitors, TypeInv, MonOK
    <2>4. ASSUME NEW q \in App, NEW s \in Task, Hands(q, s)' PROVE Hands(q, s) \/ Unserved(s)
      BY <2>2, <2>3, <2>4 DEF Hands
    <2> QED
      BY <1>2, <2>1, <2>2, <2>4, WaitingOnce
  <1> QED
    BY <1>5, <1>6, <1>7, <1>8, <1>9

LEMMA TimeOnce ==
    ASSUME TypeInv, Once, Time PROVE Once'
  <1>1. \A t \in Task : row'[t].status = row[t].status
    BY DEF Time, ClaimAges, DeferralEnds, TypeInv, DbOK, Rows
  <1>2. UNCHANGED <<gen, lock, job, mon>>
    BY DEF Time, ClaimAges, DeferralEnds, providerVars
  <1>3. \A q \in App, t \in Task : Hands(q, t)' => Hands(q, t)
    BY <1>2 DEF Hands
  <1> QED
    BY <1>1, <1>2, <1>3, WaitingOnce

(* A new request is younger than every provider job.                       *)
LEMMA RequestOnce ==
    ASSUME TypeInv, TypeInv', Once,
           \/ \E t \in Task : DraftRequeue(t)
           \/ \E p \in App, t \in Task : Create(p, t) /\ ~UNCHANGED gen
    PROVE  Once'
  <1>1. UNCHANGED <<lock, job, mon>>
    BY DEF DraftRequeue, Create, providerVars
  <1>2. JobsKeep
    BY <1>1 DEF JobsKeep, Created
  <1>3. \A t \in Task : gen'[t] > gen[t] \/ (gen'[t] = gen[t] /\ row'[t] = row[t])
    <2>1. ASSUME NEW d \in Task, DraftRequeue(d)
          PROVE  \A t \in Task : gen'[t] > gen[t] \/ (gen'[t] = gen[t] /\ row'[t] = row[t])
      <3>1. gen'[d] = gen[d] + 1 /\ \A t \in Task \ {d} : row'[t] = row[t] /\ gen'[t] = gen[t]
        BY <2>1, DraftIs
      <3>2. gen[d] \in Nat
        BY DEF TypeInv, DbOK
      <3> QED
        BY <3>1, <3>2
    <2>2. ASSUME NEW p \in App, NEW t \in Task, Create(p, t), ~UNCHANGED gen
          PROVE  \A s \in Task : gen'[s] > gen[s] \/ (gen'[s] = gen[s] /\ row'[s] = row[s])
      <3>1. Record(p, t, NewEntry) /\ gen[t] = 0 /\ gen' = [gen EXCEPT ![t] = 1]
        BY <2>2 DEF Create
      <3> QED
        BY <3>1 DEF Record, TypeInv, DbOK
    <2> QED
      BY <2>1, <2>2
  <1>4. gen' \in [Task -> Nat]
    BY DEF TypeInv, DbOK
  <1>5. \A q \in App, t \in Task : Hands(q, t)' => Hands(q, t)
    BY <1>1 DEF Hands
  <1> QED
    BY <1>1, <1>2, <1>3, <1>4, <1>5, OnceStays

(* A submission makes the first job of its request, as long as no other    *)
(* process submits the same task.                                          *)
LEMMA PostsOnce ==
    ASSUME TypeInv, Once, Reliable, NEW p \in App, NEW j \in Job, DispatchPosts(p, j),
           gen[mon[p].task] # 0,
           \A q \in App : q # p => ~Hands(q, mon[p].task)
    PROVE  Once'
  <1>1. PICK t : t = mon[p].task
    OBVIOUS
  <1>2. /\ t \in Task /\ lock[p].op = "free" /\ gen[t] \in Nat \ {0} /\ mon[p].pc = "claimed"
    BY <1>1 DEF DispatchPosts, MonitorAt, TypeInv, MonOK, Refers, LockFree, DbOK
  <1>3. /\ row[t].status \in PENDING_STATES /\ UNCHANGED <<row, gen>>
        /\ job[j].state = "none" /\ Accept(j, t)
        /\ Hold(p, "monitor", "post", t, "UNKNOWN", j)
        /\ mon' = [mon EXCEPT ![p].pc = "legacy", ![p].task = NoTask]
    BY <1>1 DEF DispatchPosts, Cache, Restore, FreshJob, Reliable
  <1>4. Unserved(t)
    BY <1>1, <1>2 DEF Once, HandsUnserved, Hands
  <1>5. /\ \A i \in Job \ {j} : job'[i] = job[i]
        /\ job'[j].state # "none" /\ job'[j].task = t /\ job'[j].gen = gen[t]
    BY <1>3 DEF Accept, TypeInv, ProviderOK
  <1>6. Posts(p, t)' /\ \A q \in App \ {p} : lock'[q] = lock[q]
    BY <1>3 DEF Hold, Posts, TypeInv, LockOK
  <1>7. mon'[p].pc = "legacy" /\ \A q \in App \ {p} : mon'[q] = mon[q]
    BY <1>3 DEF TypeInv, MonOK, Monitors
  <1>8. JobsAsked'
    BY <1>2, <1>3, <1>5 DEF Once, JobsAsked, Created
  <1>9. Single'
    <2> SUFFICES ASSUME NEW i \in Job, NEW k \in Job, Created(i)', Created(k)',
                        job'[i].task = job'[k].task, job'[i].gen = job'[k].gen
                 PROVE  i = k
      BY DEF Single
    <2>1. CASE i # j /\ k # j
      BY <1>5, <2>1 DEF Once, Single, Created
    <2>2. ASSUME NEW h \in Job, h # j, Created(h)', job'[h].task = t, job'[h].gen = gen[t] PROVE FALSE
      BY <1>4, <1>5, <2>2 DEF Unserved, Serves, Created
    <2> QED
      BY <1>5, <2>1, <2>2
  <1>10. ASSUME NEW s \in Task, s # t, NEW i \in Job, Serves(i, s)' PROVE Serves(i, s)
    <2>1. i # j
      BY <1>5, <1>10 DEF Serves
    <2> QED
      BY <1>3, <1>5, <1>10, <2>1 DEF Serves, Created
  <1>11. WaitsTold'
    <2> SUFFICES ASSUME NEW s \in Task, NEW i \in Job, Serves(i, s)', row'[s].status \in PENDING_STATES
                 PROVE  \E q \in App : Posts(q, s)'
      BY DEF WaitsTold
    <2>1. CASE s = t
      BY <1>6, <2>1
    <2>2. CASE s # t
      <3>1. Serves(i, s) /\ row[s].status \in PENDING_STATES
        BY <1>3, <1>10, <2>2
      <3>2. PICK q \in App : Posts(q, s)
        BY <3>1 DEF Once, WaitsTold
      <3>3. q # p
        BY <1>2, <3>2 DEF Posts
      <3> QED
        BY <1>6, <3>2, <3>3 DEF Posts
    <2> QED
      BY <2>1, <2>2
  <1>12. HandsUnserved'
    <2> SUFFICES ASSUME NEW q \in App, NEW s \in Task, Hands(q, s)' PROVE Unserved(s)'
      BY DEF HandsUnserved
    <2>1. q # p /\ Hands(q, s)
      BY <1>7 DEF Hands
    <2>2. s # t
      BY <1>1, <2>1
    <2>3. Unserved(s)
      BY <2>1 DEF Once, HandsUnserved
    <2> QED
      BY <1>10, <2>2, <2>3 DEF Unserved
  <1> QED
    BY <1>8, <1>9, <1>11, <1>12 DEF Once

(* What accepts no job keeps the jobs there are.                           *)
LEMMA NobodyAccepts ==
    ASSUME TypeInv, [Next]_vars, \A p \in App, j \in Job : ~DispatchPosts(p, j) PROVE JobsKeep
  <1>1. \A j \in Job : job[j] \in ProviderJobs
    BY DEF TypeInv, ProviderOK
  <1>2. CASE UNCHANGED job
    BY <1>2 DEF JobsKeep, Created
  <1>3. CASE Provider
    <2>1. PICK j \in Job : \/ \E outcome \in {"COMPLETED", "FAILED"} : JobEnds(j, outcome)
                           \/ PublishManifest(j)
                           \/ Forget(j)
      BY <1>3 DEF Provider
    <2>2. CASE \E outcome \in {"COMPLETED", "FAILED"} : JobEnds(j, outcome)
      BY <1>1, <2>2 DEF JobEnds, JobsKeep, Created, TypeInv, ProviderOK, ProviderJobs
    <2>3. CASE PublishManifest(j) \/ Forget(j)
      <3>1. \A i \in Job : /\ job'[i].state = job[i].state /\ job'[i].task = job[i].task
                           /\ job'[i].gen = job[i].gen
        BY <1>1, <2>3 DEF PublishManifest, Forget, TypeInv, ProviderOK, ProviderJobs
      <3> QED
        BY <3>1 DEF JobsKeep, Created
    <2> QED
      BY <2>1, <2>2, <2>3
  <1>4. ASSUME NEW p \in App, NEW t \in Task, CancelStarts(p, t) PROVE JobsKeep
    <2>1. PICK j : \/ UNCHANGED job
                   \/ job[j].state = "IN_PROGRESS" /\ job' = [job EXCEPT ![j].state = "CANCELLED"]
      BY <1>4 DEF CancelStarts
    <2> QED
      BY <1>1, <1>2, <2>1 DEF JobsKeep, Created, TypeInv, ProviderOK, ProviderJobs
  <1>5. ASSUME NEW p \in App, Monitor(p) PROVE UNCHANGED job
    BY <1>5 DEF Monitor, RecoverReads, RecoverWrites, DispatchNothing, ClaimNext, DispatchFails,
                ReleaseReads, ReleaseSubmission, ClaimLegacy, LegacyReads, ClaimActive,
                MonitorReads, MonitorMisses, MonitorFails, ReleaseActiveClaim, Reconcile,
                providerVars
  <1>6. ASSUME NEW p \in App, Handler(p) PROVE JobsKeep
    <2>1. UNCHANGED job \/ \E t \in Task : CancelStarts(p, t)
      BY <1>6 DEF Handler, CancelEnds, Create, GetStatus, ReworkReads, ReworkWrites,
                  ReworkPublished, BulkReads, BulkWrites, providerVars
    <2> QED
      BY <1>2, <1>4, <2>1
  <1>7. ASSUME NEW p \in App, SectionEnds(p) \/ Crash(p) PROVE UNCHANGED job
    BY <1>7 DEF SectionEnds, DispatchEnds, PollEnds, ImportEnds, LegacyEnds, RecoverEnds,
                Crash, providerVars
  <1>8. ASSUME Time \/ (\E t \in Task : DraftRequeue(t)) \/ UNCHANGED vars
        PROVE  UNCHANGED job
    BY <1>8 DEF DraftRequeue, Time, ClaimAges, DeferralEnds, providerVars, vars
  <1> QED
    BY <1>2, <1>3, <1>5, <1>6, <1>7, <1>8 DEF Next

LEMMA NextOnce ==
    ASSUME TypeInv, TypeInv', Reliable, Requests \cap {"rework", "bulk"} = {}, Late, Once, Alone,
           \A t \in Task : gen[t] = 0 => ~row[t].exists, [Next]_vars
    PROVE  Once'
  <1>1. ASSUME NEW p \in App, NEW j \in Job, DispatchPosts(p, j) PROVE Once'
    <2>1. mon[p].pc = "claimed" /\ gen[mon[p].task] # 0
      BY <1>1 DEF DispatchPosts, MonitorAt, TypeInv, MonOK, Refers
    <2>2. \A q \in App : q # p => ~Hands(q, mon[p].task)
      BY <2>1 DEF Alone
    <2> QED
      BY <1>1, <2>1, <2>2, PostsOnce
  <1> SUFFICES ASSUME \A p \in App, j \in Job : ~DispatchPosts(p, j) PROVE Once'
    BY <1>1
  <1>2. JobsKeep
    BY NobodyAccepts
  <1>3. ASSUME UNCHANGED mon PROVE ClaimsKeep
    BY <1>3 DEF ClaimsKeep, Hands
  <1>4. ASSUME NEW p \in App, Monitor(p) PROVE Once'
    <2>1. CASE \/ DispatchFails(p)
               \/ ClaimLegacy(p) \/ ClaimActive(p) \/ ReleaseActiveClaim(p) \/ Reconcile(p)
               \/ \E t \in Task : \/ LegacyReads(p, t)
                                  \/ MonitorReads(p, t) \/ MonitorMisses(p, t) \/ MonitorFails(p, t)
      BY <1>2, <2>1, MonitorDeparts, ClaimsStay, DepartingOnce
    <2>2. CASE \/ RecoverReads(p) \/ RecoverWrites(p) \/ DispatchNothing(p)
               \/ ReleaseReads(p) \/ ReleaseSubmission(p)
               \/ \E t \in Task : ClaimNext(p, t)
      BY <2>2, QueueOnce
    <2> QED
      BY <1>4, <2>1, <2>2 DEF Monitor
  <1>5. ASSUME NEW p \in App, SectionEnds(p) PROVE Once'
    <2>1. UNCHANGED mon
      BY <1>5 DEF SectionEnds, DispatchEnds, PollEnds, ImportEnds, LegacyEnds, RecoverEnds
    <2> QED
      BY <1>2, <1>3, <1>5, <2>1, SectionDeparts, DepartingOnce
  <1>6. ASSUME NEW p \in App, Handler(p) PROVE Once'
    <2>1. /\ ~ReworkWrites(p) /\ ~ReworkPublished(p) /\ ~BulkWrites(p)
          /\ \A t \in Task : ~ReworkReads(p, t)
          /\ \A S \in SUBSET Task : ~BulkReads(p, S)
      BY NobodyAsks DEF Late
    <2>2. CASE \/ CancelEnds(p)
               \/ \E t \in Task : \/ GetStatus(p, t) \/ CancelStarts(p, t)
                                  \/ Create(p, t) /\ row[t].exists /\ UNCHANGED gen
      <3>1. UNCHANGED mon
        BY <2>2 DEF CancelEnds, GetStatus, CancelStarts, Create
      <3> QED
        BY <1>2, <1>3, <2>2, <3>1, HandlerDeparts, DepartingOnce
    <2>3. ASSUME NEW t \in Task, Create(p, t), ~(row[t].exists /\ UNCHANGED gen) PROVE Once'
      <3>1. gen[t] = 0 /\ gen' = [gen EXCEPT ![t] = 1]
        BY <2>3 DEF Create
      <3>2. ~UNCHANGED gen
        BY <3>1 DEF TypeInv, DbOK
      <3> QED
        BY <2>3, <3>2, RequestOnce
    <2> QED
      BY <1>6, <2>1, <2>2, <2>3 DEF Handler
  <1>7. ASSUME NEW p \in App PROVE ~Crash(p)
    BY DEF Crash, Reliable
  <1>8. CASE \E t \in Task : DraftRequeue(t)
    BY <1>8, RequestOnce
  <1>9. CASE Provider \/ UNCHANGED vars
    <2>1. UNCHANGED <<row, gen, lock, mon>>
      BY <1>9 DEF Provider, JobEnds, PublishManifest, Forget, dbVars, vars
    <2>2. gen' \in [Task -> Nat] /\ \A t \in Task : gen'[t] = gen[t] /\ row'[t] = row[t]
      BY <2>1 DEF TypeInv, DbOK
    <2>3. \A q \in App, t \in Task : Hands(q, t)' => Hands(q, t)
      BY <2>1 DEF Hands
    <2> QED
      BY <1>2, <2>1, <2>2, <2>3, OnceStays
  <1>10. CASE Time
    BY <1>10, TimeOnce
  <1> QED
    BY <1>4, <1>5, <1>6, <1>7, <1>8, <1>9, <1>10 DEF Next

(* The rows an older release failed have the one job it submitted.         *)
LEMMA InitOnce == ASSUME Init PROVE Once
  <1>1. ASSUME NEW j \in Job, Created(j)
        PROVE  job[j].task \in Task /\ LegacyJob[job[j].task] = j /\ job[j].gen = 1
    <2>1. \E t \in Task : LegacyJob[t] = j
      BY <1>1 DEF Init, Created, NoSuchJob
    <2>2. PICK t : t = CHOOSE s \in Task : LegacyJob[s] = j
      OBVIOUS
    <2>3. t \in Task /\ LegacyJob[t] = j
      BY <2>1, <2>2
    <2>4. job[j] = ForgottenJob(t)
      BY <2>1, <2>2 DEF Init
    <2> QED
      BY <2>3, <2>4 DEF ForgottenJob
  <1>2. ASSUME NEW t \in Task, LegacyJob[t] # NoJob
        PROVE  gen[t] = 1 /\ row[t].status \notin PENDING_STATES
    BY <1>2 DEF Init, LegacyRow, NoRow, PENDING_STATES
  <1>3. \A j \in Job : j # NoJob
    BY DEF Job, NoJob
  <1>4. Single
    BY <1>1 DEF Single
  <1>5. \A j \in Job : Created(j) => /\ job[j].task \in Task /\ gen[job[j].task] = 1
                                     /\ job[j].gen = 1
                                     /\ row[job[j].task].status \notin PENDING_STATES
    BY <1>1, <1>2, <1>3
  <1>6. JobsAsked /\ WaitsTold
    BY <1>5 DEF JobsAsked, WaitsTold, Serves
  <1>7. HandsUnserved
    BY DEF Init, Started, HandsUnserved, Hands
  <1> QED
    BY <1>4, <1>6, <1>7 DEF Once

LEMMA InStepLate == ASSUME InStep PROVE Late
  BY DEF InStep, LocksAwait, Awaits, GoneIsOpen, Misses404, Late, Polls, PENDING_STATES


-----------------------------------------------------------------------------
(* Many processes, no request but the first, and no claim that ages while  *)
(* its holder lives: a task is with one process at a time, from its claim  *)
(* to the record of its submission, and no claim is ever taken back.       *)
Punctual == NoRequeue /\ "slowCall" \notin Faults

Taken(r)   == r.status # "PENDING_SUBMIT" /\ (r.status = "DISPATCHING" => r.claim = "fresh")
OneHolds   == \A p, q \in App, t \in Task : Submits(p, t) /\ Submits(q, t) => p = q
HeldTaken  == \A p \in App, t \in Task : Submits(p, t) => Taken(row[t])
PostsByMon == \A p \in App : lock[p].op = "post" => lock[p].by = "monitor"
NoRecovery == \A p \in App : mon[p].pc # "recover"
Tokens == OneHolds /\ HeldTaken /\ PostsByMon /\ RowsHeld /\ NoRecovery

LEMMA NothingToRecover ==
    ASSUME Tokens PROVE StaleRows = {} /\ \A p \in App : ~RecoverReads(p) /\ ~RecoverWrites(p)
  <1>1. StaleRows = {}
    BY DEF Tokens, RowsHeld, HeldTaken, Taken, StaleRows, StaleDispatch
  <1> QED
    BY <1>1 DEF RecoverReads, RecoverWrites, MonitorAt, Tokens, NoRecovery

LEMMA HandsSubmits ==
    ASSUME Tokens, NEW p \in App, NEW t \in Task PROVE Submits(p, t) <=> Hands(p, t) \/ Posts(p, t)
  BY DEF Tokens, NoRecovery, Submits, Hands, Posts

LEMMA TokensAlone == ASSUME TypeInv, Tokens PROVE Alone
  <1>1. ASSUME NEW p \in App, NEW q \in App, mon[p].pc = "claimed", q # p,
               Posts(q, mon[p].task) \/ Hands(q, mon[p].task)
        PROVE  FALSE
    <2>1. mon[p].task \in Task
      BY <1>1 DEF TypeInv, MonOK, Refers
    <2>2. Submits(p, mon[p].task) /\ Submits(q, mon[p].task)
      BY <1>1, <2>1, HandsSubmits DEF Submits
    <2> QED
      BY <1>1, <2>1, <2>2 DEF Tokens, OneHolds
  <1>2. ASSUME NEW q \in App, NEW t \in Task,
               row[t].status = "PENDING_SUBMIT" \/ StaleDispatch(row[t])
        PROVE  ~Posts(q, t)
    <2>1. ~Taken(row[t])
      BY <1>2 DEF Taken, StaleDispatch
    <2> QED
      BY <2>1, HandsSubmits DEF Tokens, HeldTaken
  <1> QED
    BY <1>1, <1>2 DEF Alone

-----------------------------------------------------------------------------
(* Many processes: a row that was submitted never waits again, so no copy  *)
(* is ahead of its row.  A row is told of its job once the job is recorded *)
(* and nobody submits the task any more.                                   *)
Writers == {"poll", "import", "recover", "legacy"}
Left(status) == status \notin PENDING_STATES /\ status # "CANCELLED"
Told(t) == (\E j \in Job : Serves(j, t)) /\ \A q \in App : ~Posts(q, t)

RowsBorn   == \A t \in Task : gen[t] = 0 => ~row[t].exists /\ row[t].status = "PENDING_SUBMIT"
RowsTold   == \A t \in Task : Left(row[t].status) => Told(t)
CopiesPast == \A p \in App, t \in Task : /\ JOBS[p][t].held => gen[t] # 0
                                         /\ Left(JOBS[p][t].status) => Told(t)
LocksPast  == \A p \in App : lock[p].op # "free" =>
    /\ gen[lock[p].task] # 0
    /\ lock[p].op = "post" => lock[p].sub \in Job /\ Serves(lock[p].sub, lock[p].task)
    /\ lock[p].op \in Writers => /\ JOBS[p][lock[p].task].status \notin PENDING_STATES
                                 /\ Told(lock[p].task)
ListsPast  == \A p \in App :
    /\ \A t \in mon[p].todo : Told(t)
    /\ mon[p].pc = "gone" => /\ JOBS[p][mon[p].task].status \notin PENDING_STATES
                             /\ Told(mon[p].task)
Past == RowsBorn /\ RowsTold /\ CopiesPast /\ LocksPast /\ ListsPast /\ NothingAsked

ToldStays == \A t \in Task : /\ Told(t) => Told(t)'
                             /\ \A j \in Job : Serves(j, t) => Serves(j, t)'

LEMMA PastLate == ASSUME TypeInv, Past PROVE Late
  BY DEF Past, LocksPast, ListsPast, Writers, Late

LEMMA ToldIs ==
    ASSUME TypeInv, Once, NEW t \in Task, Told(t)
    PROVE  gen[t] # 0 /\ row[t].status \notin PENDING_STATES /\ \A q \in App : ~Hands(q, t)
  <1>1. PICK j \in Job : Serves(j, t)
    BY DEF Told
  <1>2. gen[t] # 0
    BY <1>1 DEF Once, JobsAsked, Serves, TypeInv, DbOK
  <1> QED
    BY <1>1, <1>2 DEF Told, Once, WaitsTold, HandsUnserved, Unserved

(* What is told stays told.                                                *)
LEMMA JobsStayTold ==
    ASSUME JobsKeep, \A t \in Task : gen'[t] = gen[t] \/ Unserved(t),
           \A q \in App : lock'[q].op = "post" => lock'[q] = lock[q]
    PROVE  ToldStays
  <1>1. \A t \in Task, j \in Job : Serves(j, t) => Serves(j, t)'
    BY DEF JobsKeep, Serves, Unserved
  <1>2. \A t \in Task, q \in App : Posts(q, t)' => Posts(q, t)
    BY DEF Posts
  <1> QED
    BY <1>1, <1>2 DEF Told, ToldStays

LEMMA NextTold ==
    ASSUME TypeInv, Reliable, NoRequeue, Late, Once, Tokens, [Next]_vars PROVE ToldStays
  <1>1. ASSUME NEW p \in App, NEW j \in Job, DispatchPosts(p, j) PROVE ToldStays
    <2>1. PICK t : t = mon[p].task
      OBVIOUS
    <2>2. /\ t \in Task /\ mon[p].pc = "claimed" /\ UNCHANGED gen /\ job[j].state = "none"
          /\ Accept(j, t) /\ Hold(p, "monitor", "post", t, "UNKNOWN", j)
      BY <1>1, <2>1 DEF DispatchPosts, MonitorAt, TypeInv, MonOK, Refers, Reliable, FreshJob
    <2>3. ~Told(t)
      BY <2>1, <2>2, ToldIs DEF Hands
    <2>4. \A i \in Job \ {j} : job'[i] = job[i]
      BY <2>2 DEF Accept, TypeInv, ProviderOK
    <2>5. lock'[p].task = t /\ \A q \in App \ {p} : lock'[q] = lock[q]
      BY <2>2 DEF Hold, TypeInv, LockOK
    <2>6. \A s \in Task, i \in Job : Serves(i, s) => Serves(i, s)'
      BY <2>2, <2>4 DEF Serves, Created
    <2>7. ASSUME NEW s \in Task, s # t, NEW q \in App, Posts(q, s)' PROVE Posts(q, s)
      BY <2>5, <2>7 DEF Posts
    <2> QED
      BY <2>3, <2>6, <2>7 DEF Told, ToldStays
  <1> SUFFICES ASSUME \A p \in App, j \in Job : ~DispatchPosts(p, j) PROVE ToldStays
    BY <1>1
  <1>2. JobsKeep
    BY NobodyAccepts
  <1>3. ASSUME Departing PROVE ToldStays
    BY <1>2, <1>3, JobsStayTold DEF Departing
  <1>4. ASSUME UNCHANGED <<gen, lock>> PROVE ToldStays
    BY <1>2, <1>4, JobsStayTold
  <1>5. ASSUME NEW p \in App, Monitor(p) PROVE ToldStays
    <2>1. CASE \/ DispatchFails(p)
               \/ ClaimLegacy(p) \/ ClaimActive(p) \/ ReleaseActiveClaim(p) \/ Reconcile(p)
               \/ \E t \in Task : \/ LegacyReads(p, t)
                                  \/ MonitorReads(p, t) \/ MonitorMisses(p, t) \/ MonitorFails(p, t)
      BY <1>3, <2>1, MonitorDeparts
    <2>2. CASE \/ DispatchNothing(p) \/ ReleaseReads(p) \/ ReleaseSubmission(p)
               \/ \E t \in Task : ClaimNext(p, t)
      BY <1>4, <2>2 DEF DispatchNothing, ReleaseReads, ReleaseSubmission, ClaimNext, dbVars
    <2> QED
      BY <1>5, <2>1, <2>2, NothingToRecover DEF Monitor
  <1>6. ASSUME NEW p \in App, SectionEnds(p) PROVE ToldStays
    BY <1>3, <1>6, SectionDeparts
  <1>7. ASSUME NEW p \in App, Handler(p) PROVE ToldStays
    <2>1. /\ ~ReworkWrites(p) /\ ~ReworkPublished(p) /\ ~BulkWrites(p)
          /\ \A t \in Task : ~ReworkReads(p, t)
          /\ \A S \in SUBSET Task : ~BulkReads(p, S)
      BY NobodyAsks DEF Late, NoRequeue
    <2>2. ASSUME NEW t \in Task, Create(p, t), ~(row[t].exists /\ UNCHANGED gen) PROVE ToldStays
      <3>1. gen[t] = 0 /\ gen' = [gen EXCEPT ![t] = 1] /\ UNCHANGED lock
        BY <2>2 DEF Create
      <3>2. Unserved(t)
        BY <3>1 DEF Unserved, Serves, Once, JobsAsked
      <3>3. \A s \in Task : gen'[s] = gen[s] \/ Unserved(s)
        BY <3>1, <3>2 DEF TypeInv, DbOK
      <3> QED
        BY <1>2, <3>1, <3>3, JobsStayTold
    <2>3. CASE \/ CancelEnds(p)
               \/ \E t \in Task : \/ GetStatus(p, t) \/ CancelStarts(p, t)
                                  \/ Create(p, t) /\ row[t].exists /\ UNCHANGED gen
      BY <1>3, <2>3, HandlerDeparts
    <2> QED
      BY <1>7, <2>1, <2>2, <2>3 DEF Handler
  <1>8. ASSUME NEW p \in App PROVE ~Crash(p)
    BY DEF Crash, Reliable
  <1>9. ~\E t \in Task : DraftRequeue(t)
    BY DEF DraftRequeue, NoRequeue
  <1>10. CASE Time \/ Provider \/ UNCHANGED vars
    BY <1>4, <1>10 DEF Time, ClaimAges, DeferralEnds, Provider, JobEnds, PublishManifest, Forget,
                       dbVars, vars
  <1> QED
    BY <1>5, <1>6, <1>7, <1>8, <1>9, <1>10 DEF Next

(* A process puts a copy into memory and perhaps into the database, and    *)
(* goes on.                                                                *)
LEMMA PutPast ==
    ASSUME TypeInv, Reliable, Past, Once, ToldStays, NEW p \in App, NEW t \in Task, NEW d,
           \/ Cache(p, t, d) /\ d.status \in {JOBS[p][t].status, row[t].status}
           \/ /\ Record(p, t, d) /\ d.status \notin PENDING_STATES
              /\ Left(d.status) => Told(t)',
           gen[t] # 0, UNCHANGED <<gen, ask>>,
           NEW l, lock' = [lock EXCEPT ![p] = l],
           l.op # "free" => /\ l.task = t
                            /\ l.op = "post" => l.sub \in Job /\ Serves(l.sub, t)'
                            /\ l.op \in Writers => d.status \notin PENDING_STATES /\ Told(t),
           NEW m, mon' = [mon EXCEPT ![p] = m], m.todo \subseteq mon[p].todo,
           m.pc = "gone" => \/ mon[p].pc = "gone" /\ m.task = mon[p].task
                            \/ m.task = t /\ d.status \notin PENDING_STATES /\ Told(t)
    PROVE  Past'
  <1>1. /\ JOBS'[p][t] = d
        /\ \A q \in App, s \in Task : q # p \/ s # t => JOBS'[q][s] = JOBS[q][s]
        /\ \A q \in App \ {p} : JOBS'[q] = JOBS[q]
    BY DEF Record, Cache, TypeInv, CopiesOK
  <1>2. /\ \A s \in Task \ {t} : row'[s] = row[s]
        /\ \/ row'[t] = row[t] /\ d.status \in {JOBS[p][t].status, row[t].status}
           \/ /\ row'[t].status = d.status /\ d.status \notin PENDING_STATES
              /\ Left(d.status) => Told(t)'
    <2>1. Recorded(d, row[t]).status = d.status
      BY DEF Recorded
    <2> QED
      BY <2>1 DEF Record, Cache, Reliable, TypeInv, DbOK
  <1>3. /\ lock'[p] = l /\ mon'[p] = m
        /\ \A q \in App \ {p} : lock'[q] = lock[q] /\ mon'[q] = mon[q]
    BY DEF TypeInv, LockOK, MonOK
  <1>4. RowsBorn'
    BY <1>2 DEF RowsBorn, Past
  <1>5. \A s \in Task : Told(s) => Told(s)'
    BY DEF ToldStays
  <1>6. RowsTold'
    <2> SUFFICES ASSUME NEW s \in Task, Left(row'[s].status) PROVE Told(s)'
      BY DEF RowsTold
    <2>1. CASE row'[s] = row[s]
      BY <1>5, <2>1 DEF Past, RowsTold
    <2>2. CASE row'[s] # row[s]
      BY <1>2, <2>2
    <2> QED
      BY <2>1, <2>2
  <1>7. Left(d.status) => Told(t)'
    BY <1>2, <1>5 DEF Past, RowsTold, CopiesPast
  <1>8. CopiesPast'
    BY <1>1, <1>5, <1>7 DEF CopiesPast, Past
  <1>9. LocksPast'
    <2> SUFFICES ASSUME NEW q \in App, lock'[q].op # "free",
                        NEW s, s = lock'[q].task, NEW j, j = lock'[q].sub
                 PROVE  /\ gen'[s] # 0
                        /\ lock'[q].op = "post" => j \in Job /\ Serves(j, s)'
                        /\ lock'[q].op \in Writers =>
                             JOBS'[q][s].status \notin PENDING_STATES /\ Told(s)'
      BY DEF LocksPast, Told, Serves, Posts, Created
    <2>1. CASE q = p
      BY <1>1, <1>3, <1>5, <2>1
    <2>2. CASE q # p
      <3>1. lock'[q] = lock[q] /\ JOBS'[q] = JOBS[q] /\ s \in Task
        BY <1>1, <1>3, <2>2 DEF TypeInv, LockOK
      <3>2. /\ gen[s] # 0
            /\ lock[q].op = "post" => j \in Job /\ Serves(j, s)
            /\ lock[q].op \in Writers => JOBS[q][s].status \notin PENDING_STATES /\ Told(s)
        BY <3>1 DEF Past, LocksPast
      <3>3. lock[q].op = "post" => Serves(j, s)'
        BY <3>1, <3>2 DEF ToldStays
      <3> QED
        BY <1>5, <3>1, <3>2, <3>3
    <2> QED
      BY <2>1, <2>2
  <1>10. ListsPast'
    <2> SUFFICES ASSUME NEW q \in App, NEW g, g = mon'[q].task
                 PROVE  /\ \A s \in mon'[q].todo : Told(s)'
                        /\ mon'[q].pc = "gone" => /\ JOBS'[q][g].status \notin PENDING_STATES
                                                  /\ Told(g)'
      BY DEF ListsPast, Told, Serves, Posts, Created
    <2>1. mon[q].todo \subseteq Task /\ \A s \in mon[q].todo : Told(s)
      BY DEF TypeInv, MonOK, Monitors, Past, ListsPast
    <2>2. ASSUME mon[q].pc = "gone", g = mon[q].task
          PROVE  g \in Task /\ Told(g) /\ JOBS[q][g].status \notin PENDING_STATES
                 /\ row[g].status \notin PENDING_STATES
      <3>1. g \in Task /\ Told(g) /\ JOBS[q][g].status \notin PENDING_STATES
        BY <2>2 DEF TypeInv, MonOK, Refers, Past, ListsPast
      <3> QED
        BY <3>1, ToldIs
    <2>3. CASE q # p
      BY <1>1, <1>3, <1>5, <2>1, <2>2, <2>3
    <2>4. CASE q = p
      <3>1. \A s \in m.todo : Told(s)'
        BY <1>5, <2>1, <2>4
      <3>2. ASSUME m.pc = "gone", g = m.task
            PROVE  JOBS'[p][g].status \notin PENDING_STATES /\ Told(g)'
        <4>1. CASE g = t /\ d.status \notin PENDING_STATES /\ Told(t)
          BY <1>1, <1>5, <4>1
        <4>2. CASE mon[p].pc = "gone" /\ g = mon[p].task
          <5>1. /\ g \in Task /\ Told(g) /\ JOBS[p][g].status \notin PENDING_STATES
                /\ row[g].status \notin PENDING_STATES
            BY <2>2, <2>4, <4>2
          <5>2. g = t => d.status \notin PENDING_STATES
            BY <1>2, <5>1
          <5> QED
            BY <1>1, <1>5, <5>1, <5>2
        <4> QED
          BY <3>2, <4>1, <4>2
      <3> QED
        BY <1>3, <2>4, <3>1, <3>2
    <2> QED
      BY <2>3, <2>4
  <1>11. NothingAsked'
    BY DEF Past, NothingAsked
  <1> QED
    BY <1>4, <1>6, <1>8, <1>9, <1>10, <1>11 DEF Past

(* Rows are claimed, released or left to time.                             *)
LEMMA RowsPast ==
    ASSUME TypeInv, Past, ToldStays, UNCHANGED <<gen, JOBS, lock, ask>>,
           \A t \in Task : /\ Left(row'[t].status) => row'[t].status = row[t].status
                           /\ gen[t] = 0 => /\ row'[t].exists = row[t].exists
                                            /\ row'[t].status = row[t].status,
           \A q \in App :
              \/ mon'[q].todo \subseteq mon[q].todo
                 /\ (mon'[q].pc = "gone" => mon[q].pc = "gone" /\ mon'[q].task = mon[q].task)
              \/ mon'[q].pc # "gone" /\ \A t \in mon'[q].todo : t \in Task /\ Told(t)
    PROVE  Past'
  <1>1. RowsBorn'
    BY DEF Past, RowsBorn
  <1>2. \A s \in Task : Told(s) => Told(s)'
    BY DEF ToldStays
  <1>3. RowsTold'
    BY <1>2 DEF Past, RowsTold
  <1>4. CopiesPast'
    BY <1>2 DEF Past, CopiesPast
  <1>5. LocksPast'
    <2> SUFFICES ASSUME NEW q \in App, lock[q].op # "free",
                        NEW s, s = lock[q].task, NEW j, j = lock[q].sub
                 PROVE  /\ gen'[s] # 0
                        /\ lock[q].op = "post" => j \in Job /\ Serves(j, s)'
                        /\ lock[q].op \in Writers =>
                             JOBS'[q][s].status \notin PENDING_STATES /\ Told(s)'
      BY DEF LocksPast, Told, Serves, Posts, Created
    <2>1. s \in Task
      BY DEF TypeInv, LockOK
    <2>2. /\ gen[s] # 0
          /\ lock[q].op = "post" => j \in Job /\ Serves(j, s)
          /\ lock[q].op \in Writers => JOBS[q][s].status \notin PENDING_STATES /\ Told(s)
      BY <2>1 DEF Past, LocksPast
    <2> QED
      BY <1>2, <2>1, <2>2 DEF ToldStays
  <1>6. ListsPast'
    <2> SUFFICES ASSUME NEW q \in App, NEW g, g = mon'[q].task
                 PROVE  /\ \A s \in mon'[q].todo : Told(s)'
                        /\ mon'[q].pc = "gone" => /\ JOBS'[q][g].status \notin PENDING_STATES
                                                  /\ Told(g)'
      BY DEF ListsPast, Told, Serves, Posts, Created
    <2>1. mon[q].todo \subseteq Task /\ \A s \in mon[q].todo : Told(s)
      BY DEF TypeInv, MonOK, Monitors, Past, ListsPast
    <2>2. mon[q].pc = "gone" /\ g = mon[q].task =>
             g \in Task /\ Told(g) /\ JOBS[q][g].status \notin PENDING_STATES
      BY DEF TypeInv, MonOK, Refers, Past, ListsPast
    <2> QED
      BY <1>2, <2>1, <2>2
  <1>7. NothingAsked'
    BY DEF Past, NothingAsked
  <1> QED
    BY <1>1, <1>3, <1>4, <1>5, <1>6, <1>7 DEF Past

LEMMA LoadedPast ==
    ASSUME NEW p \in App, NEW t \in Task
    PROVE  Loaded(p, t).status \in {JOBS[p][t].status, row[t].status}
  BY DEF Loaded, Restore

LEMMA FoundBorn ==
    ASSUME Past, NEW p \in App, NEW t \in Task,
           Found(p, t) \/ row[t].status # "PENDING_SUBMIT"
    PROVE  gen[t] # 0
  <1>1. JOBS[p][t].held => gen[t] # 0
    BY DEF Past, CopiesPast
  <1>2. gen[t] = 0 => ~row[t].exists /\ row[t].status = "PENDING_SUBMIT"
    BY DEF Past, RowsBorn
  <1> QED
    BY <1>1, <1>2 DEF Found

(* A section ends with a record, or goes on with an import.                *)
LEMMA EndPast ==
    ASSUME TypeInv, Reliable, Past, Once, ToldStays, NEW p \in App, NEW t \in Task, NEW d,
           Record(p, t, d), d.status \notin PENDING_STATES, Left(d.status) => Told(t)',
           gen[t] # 0, UNCHANGED <<gen, ask>>, Unlock(p) \/ (UNCHANGED lock /\ LockFree(p)),
           UNCHANGED mon
    PROVE  Past'
  <1>1. PICK l : lock' = [lock EXCEPT ![p] = l] /\ l.op = "free"
    <2>1. CASE Unlock(p)
      <3>1. lock' = [lock EXCEPT ![p] = Unlocked] /\ Unlocked.op = "free"
        BY <2>1 DEF Unlock, Unlocked
      <3> QED
        BY <3>1
    <2>2. CASE UNCHANGED lock /\ LockFree(p)
      <3>1. lock' = [lock EXCEPT ![p] = lock[p]]
        BY <2>2 DEF TypeInv, LockOK
      <3> QED
        BY <2>2, <3>1 DEF LockFree
    <2> QED
      BY <2>1, <2>2
  <1>2. mon' = [mon EXCEPT ![p] = mon[p]]
    BY DEF TypeInv, MonOK
  <1> QED
    BY <1>1, <1>2, PutPast

LEMMA RecoversPast ==
    ASSUME TypeInv, Reliable, Past, Once, ToldStays, NEW p \in App, NEW t \in Task, NEW k, RecoversFrom(p, t, k),
           JOBS[p][t].status \notin PENDING_STATES, Told(t), UNCHANGED <<gen, ask>>,
           NEW m, mon' = [mon EXCEPT ![p] = m], m.todo \subseteq mon[p].todo,
           m.pc = "gone" => mon[p].pc = "gone" /\ m.task = mon[p].task
    PROVE  Past'
  <1> DEFINE c == JOBS[p][t]
  <1>1. PICK l : l = [op |-> "recover", by |-> "monitor", task |-> t, got |-> "UNKNOWN", sub |-> NoJob]
    OBVIOUS
  <1>2. lock' = [lock EXCEPT ![p] = l] /\ l.op = "recover" /\ l.task = t
    BY <1>1 DEF RecoversFrom, Hold
  <1>3. c \in Entries /\ Told(t)'
    BY DEF TypeInv, CopiesOK, ToldStays
  <1>4. gen[t] # 0
    BY ToldIs
  <1>5. CASE c.outs = NoJob
    <2>1. PICK d : d = [c EXCEPT !.outs = k]
      OBVIOUS
    <2>2. d.status = c.status
      BY <1>3, <2>1 DEF Entries
    <2>3. Record(p, t, d)
      BY <1>5, <2>1 DEF RecoversFrom
    <2> QED
      BY <1>2, <1>3, <1>4, <2>2, <2>3, PutPast
  <1>6. CASE c.outs # NoJob
    <2>1. UNCHANGED <<JOBS, row>>
      BY <1>6 DEF RecoversFrom
    <2>2. JOBS' = [JOBS EXCEPT ![p][t] = c]
      BY <2>1 DEF TypeInv, CopiesOK
    <2>3. Cache(p, t, c) /\ c.status \in {JOBS[p][t].status, row[t].status}
      BY <2>1, <2>2 DEF Cache
    <2> HIDE DEF c
    <2>4. c.status \notin PENDING_STATES
      BY DEF c
    <2> QED
      BY <1>2, <1>4, <2>3, <2>4, PutPast
  <1> QED
    BY <1>5, <1>6

LEMMA SectionPast ==
    ASSUME TypeInv, Reliable, Past, Once, Tokens, ToldStays, NEW p \in App,
           SectionEnds(p) \/ CancelEnds(p)
    PROVE  Past'
  <1>1. PICK t : t = lock[p].task
    OBVIOUS
  <1> DEFINE c == JOBS[p][t]
  <1>2. lock[p].op # "free" /\ UNCHANGED <<gen, ask, mon>>
    BY DEF SectionEnds, DispatchEnds, PollEnds, ImportEnds, LegacyEnds, RecoverEnds, CancelEnds
  <1>3. t \in Task /\ c \in Entries /\ lock[p] \in Locks /\ gen[t] # 0
    BY <1>1, <1>2 DEF TypeInv, LockOK, CopiesOK, Past, LocksPast
  <1>4. ASSUME lock[p].op \in Writers
        PROVE  c.status \notin PENDING_STATES /\ Told(t) /\ Told(t)'
    BY <1>1, <1>2, <1>3, <1>4 DEF Past, LocksPast, ToldStays
  <1>5. CASE DispatchEnds(p)
    <2>1. PICK d : d = [c EXCEPT !.status = "QUEUED", !.job = lock[p].sub]
      OBVIOUS
    <2>2. d.status = "QUEUED"
      BY <1>3, <2>1 DEF Entries
    <2>3. Record(p, t, d) /\ Unlock(p) /\ lock[p].op = "post"
      BY <1>1, <1>5, <2>1 DEF DispatchEnds
    <2>4. PICK j \in Job : Serves(j, t)
      BY <1>1, <2>3 DEF Past, LocksPast
    <2>5. lock'[p] = Unlocked /\ \A q \in App \ {p} : lock'[q] = lock[q]
      BY <2>3 DEF Unlock, TypeInv, LockOK
    <2>6. Posts(p, t) /\ \A q \in App \ {p} : ~Posts(q, t)
      <3>1. Posts(p, t)
        BY <1>1, <2>3 DEF Posts
      <3>2. ASSUME NEW q \in App, Posts(q, t) PROVE q = p
        <4>1. Submits(p, t) /\ Submits(q, t)
          BY <1>3, <3>1, <3>2, HandsSubmits
        <4> QED
          BY <1>3, <4>1 DEF Tokens, OneHolds
      <3> QED
        BY <3>1, <3>2
    <2>7. Told(t)'
      <3>1. Serves(j, t)'
        BY <1>3, <2>4 DEF ToldStays
      <3>2. \A q \in App : ~Posts(q, t)'
        BY <2>5, <2>6 DEF Posts, Unlocked
      <3> QED
        BY <3>1, <3>2 DEF Told
    <2> QED
      BY <1>2, <1>3, <2>2, <2>3, <2>7, EndPast DEF PENDING_STATES
  <1>6. CASE PollEnds(p)
    <2>1. PICK d : d = [c EXCEPT !.status = lock[p].got, !.misses = 0, !.verdict = "none"]
      OBVIOUS
    <2>2. d.status \notin PENDING_STATES
      BY <1>3, <2>1 DEF Entries, Locks, Answer, PENDING_STATES
    <2>3. Record(p, t, d) /\ lock[p].op = "poll"
      BY <1>1, <1>6, <2>1 DEF PollEnds
    <2>4. Told(t) /\ Told(t)'
      BY <1>4, <2>3 DEF Writers
    <2>5. CASE Unlock(p)
      BY <1>2, <1>3, <2>2, <2>3, <2>4, <2>5, EndPast
    <2>6. CASE lock' = [lock EXCEPT ![p].op = "import"]
      <3>1. PICK l : l = [lock[p] EXCEPT !.op = "import"]
        OBVIOUS
      <3>2. lock' = [lock EXCEPT ![p] = l] /\ l.op = "import" /\ l.task = t
        BY <1>1, <1>3, <2>6, <3>1 DEF TypeInv, LockOK, Locks
      <3>3. PICK m : m = mon[p]
        OBVIOUS
      <3>4. mon' = [mon EXCEPT ![p] = m]
        BY <1>2, <3>3 DEF TypeInv, MonOK
      <3>5. UNCHANGED <<gen, ask>> /\ gen[t] # 0 /\ t \in Task
        BY <1>2, <1>3
      <3> QED
        BY <2>2, <2>3, <2>4, <3>2, <3>3, <3>4, <3>5, PutPast
    <2> QED
      BY <1>1, <1>6, <2>5, <2>6 DEF PollEnds
  <1>7. CASE ImportEnds(p)
    <2>1. PICK m \in Imports(t) : Record(p, t, [c EXCEPT !.outs = m])
      BY <1>1, <1>7 DEF ImportEnds
    <2>2. PICK d : d = [c EXCEPT !.outs = m]
      OBVIOUS
    <2>3. d.status = c.status /\ lock[p].op = "import" /\ Unlock(p)
      BY <1>3, <1>7, <2>2 DEF Entries, ImportEnds
    <2>4. d.status \notin PENDING_STATES /\ Told(t)'
      BY <1>4, <2>3 DEF Writers
    <2> QED
      BY <1>2, <1>3, <2>1, <2>2, <2>3, <2>4, EndPast
  <1>8. CASE RecoverEnds(p) \/ CancelEnds(p)
    <2>1. PICK status \in {"COMPLETED", "CANCELLED"} :
             /\ Record(p, t, [c EXCEPT !.status = status, !.misses = 0, !.verdict = "none"])
             /\ Unlock(p)
             /\ status # "CANCELLED" => lock[p].op = "recover"
      BY <1>1, <1>8 DEF RecoverEnds, CancelEnds
    <2>2. PICK d : d = [c EXCEPT !.status = status, !.misses = 0, !.verdict = "none"]
      OBVIOUS
    <2>3. d.status = status
      BY <1>3, <2>2 DEF Entries
    <2>4. d.status \notin PENDING_STATES
      BY <2>3 DEF PENDING_STATES
    <2>5. Left(d.status) => Told(t)'
      BY <1>4, <2>1, <2>3 DEF Left, Writers
    <2>6. Record(p, t, d) /\ Unlock(p)
      BY <2>1, <2>2
    <2> QED
      BY <1>2, <1>3, <2>4, <2>5, <2>6, EndPast
  <1>9. CASE LegacyEnds(p)
    <2>1. c.status \notin PENDING_STATES /\ Told(t) /\ Told(t)'
      BY <1>4, <1>9 DEF LegacyEnds, Writers
    <2>2. PICK m \in Outputs(p, t) :
             \/ RecoversFrom(p, t, m)
             \/ /\ Record(p, t, [c EXCEPT !.status = "FAILED", !.misses = 0, !.verdict = "final"])
                /\ Unlock(p)
      BY <1>1, <1>9 DEF LegacyEnds
    <2>3. CASE RecoversFrom(p, t, m)
      <3>1. PICK n : n = mon[p]
        OBVIOUS
      <3>2. mon' = [mon EXCEPT ![p] = n]
        BY <1>2, <3>1 DEF TypeInv, MonOK
      <3> QED
        BY <1>2, <1>3, <2>1, <2>3, <3>1, <3>2, RecoversPast
    <2>4. CASE /\ Record(p, t, [c EXCEPT !.status = "FAILED", !.misses = 0, !.verdict = "final"])
               /\ Unlock(p)
      <3>1. PICK d : d = [c EXCEPT !.status = "FAILED", !.misses = 0, !.verdict = "final"]
        OBVIOUS
      <3>2. d.status = "FAILED"
        BY <1>3, <3>1 DEF Entries
      <3> QED
        BY <1>2, <1>3, <2>1, <2>4, <3>1, <3>2, EndPast DEF PENDING_STATES
    <2> QED
      BY <2>2, <2>3, <2>4
  <1> QED
    BY <1>5, <1>6, <1>7, <1>8, <1>9 DEF SectionEnds

(* A copy or a row is looked at, and the lock taken for a call about it    *)
(* or not.                                                                 *)
LEMMA LookPast ==
    ASSUME TypeInv, Reliable, Past, Once, ToldStays, NEW p \in App, NEW t \in Task, NEW d,
           Cache(p, t, d), d.status \in {JOBS[p][t].status, row[t].status}, gen[t] # 0,
           LockFree(p), UNCHANGED <<gen, ask>>,
           \/ UNCHANGED lock
           \/ d = Loaded(p, t) /\ \E by : StatusSections(p, t, by)
           \/ \E by, op, a, j : /\ Hold(p, by, op, t, a, j)
                                /\ op = "post" => j \in Job /\ Serves(j, t)'
                                /\ op \in Writers => d.status \notin PENDING_STATES /\ Told(t),
           NEW m, mon' = [mon EXCEPT ![p] = m], m.todo \subseteq mon[p].todo,
           m.pc = "gone" => \/ mon[p].pc = "gone" /\ m.task = mon[p].task
                            \/ m.task = t /\ d.status \notin PENDING_STATES /\ Told(t)
    PROVE  Past'
  <1>1. Left(d.status) => d.status \notin PENDING_STATES /\ Told(t)
    BY DEF Left, Past, RowsTold, CopiesPast
  <1>2. ASSUME UNCHANGED lock PROVE Past'
    <2>1. PICK l : l = lock[p]
      OBVIOUS
    <2>2. lock' = [lock EXCEPT ![p] = l] /\ l.op = "free"
      BY <1>2, <2>1 DEF TypeInv, LockOK, LockFree
    <2> QED
      BY <1>1, <2>2, PutPast
  <1>3. ASSUME NEW by, NEW op, NEW a, NEW j, Hold(p, by, op, t, a, j),
               op = "post" => j \in Job /\ Serves(j, t)',
               op \in Writers => d.status \notin PENDING_STATES /\ Told(t)
        PROVE  Past'
    <2>1. PICK l : l = [op |-> op, by |-> by, task |-> t, got |-> a, sub |-> j]
      OBVIOUS
    <2>2. lock' = [lock EXCEPT ![p] = l] /\ l.op = op /\ l.task = t /\ l.sub = j
      BY <1>3, <2>1 DEF Hold
    <2> QED
      BY <1>1, <1>3, <2>2, PutPast
  <1>4. ASSUME NEW by, d = Loaded(p, t), StatusSections(p, t, by) PROVE Past'
    <2>1. \/ UNCHANGED lock
          \/ d.status = "COMPLETED" /\ Hold(p, by, "import", t, "UNKNOWN", NoJob)
          \/ /\ d.status \notin PENDING_STATES \cup TERMINAL_STATES
             /\ \E a : Hold(p, by, "poll", t, a, NoJob)
      BY <1>4 DEF StatusSections
    <2> QED
      BY <1>1, <1>2, <1>3, <2>1 DEF PENDING_STATES, TERMINAL_STATES, Left
  <1> QED
    BY <1>2, <1>3, <1>4

LEMMA HandlerPast ==
    ASSUME TypeInv, Reliable, NoRequeue, Past, Once, Tokens, ToldStays, NEW p \in App, Handler(p)
    PROVE  Past'
  <1>1. CASE CancelEnds(p)
    BY <1>1, SectionPast
  <1>2. PICK m : m = mon[p]
    OBVIOUS
  <1>3. UNCHANGED mon => mon' = [mon EXCEPT ![p] = m]
    BY <1>2 DEF TypeInv, MonOK
  <1>4. ASSUME NEW t \in Task, Create(p, t) PROVE Past'
    <2>1. LockFree(p) /\ UNCHANGED <<mon, lock, ask>>
      BY <1>4 DEF Create
    <2>2. CASE row[t].exists /\ Cache(p, t, Restore(row[t])) /\ UNCHANGED gen
      <3>1. gen[t] # 0 /\ Restore(row[t]).status \in {JOBS[p][t].status, row[t].status}
        BY <2>2, FoundBorn DEF Found, Restore
      <3> QED
        BY <1>2, <1>3, <2>1, <2>2, <3>1, LookPast
    <2>3. CASE gen[t] = 0 /\ Record(p, t, NewEntry) /\ gen' = [gen EXCEPT ![t] = 1]
      <3>1. PICK d : d = NewEntry
        OBVIOUS
      <3>2. d.status = "PENDING_SUBMIT"
        BY <3>1 DEF NewEntry, NoEntry
      <3>3. /\ row' = [row EXCEPT ![t] = Recorded(d, row[t])]
            /\ JOBS' = [JOBS EXCEPT ![p][t] = d]
        BY <2>3, <3>1 DEF Record, Reliable
      <3>4. /\ \A s \in Task \ {t} : row'[s] = row[s] /\ gen'[s] = gen[s]
            /\ row'[t].status = "PENDING_SUBMIT" /\ gen'[t] = 1
        BY <2>3, <3>2, <3>3 DEF TypeInv, DbOK, Recorded
      <3>5. /\ \A q \in App, s \in Task : q # p \/ s # t => JOBS'[q][s] = JOBS[q][s]
            /\ JOBS'[p][t].status = "PENDING_SUBMIT"
        BY <3>2, <3>3 DEF TypeInv, CopiesOK
      <3>6. ~Told(t)
        BY <2>3, ToldIs
      <3>7. \A s \in Task : Told(s) => s # t /\ Told(s)'
        BY <3>6 DEF ToldStays
      <3>8. RowsBorn'
        BY <3>4 DEF Past, RowsBorn
      <3>9. RowsTold'
        BY <3>4, <3>7 DEF Past, RowsTold, Left, PENDING_STATES
      <3>10. CopiesPast'
        <4> SUFFICES ASSUME NEW q \in App, NEW s \in Task
                     PROVE  /\ JOBS'[q][s].held => gen'[s] # 0
                            /\ Left(JOBS'[q][s].status) => Told(s)'
          BY DEF CopiesPast
        <4>1. /\ JOBS[q][s].held => gen[s] # 0
              /\ Left(JOBS[q][s].status) => Told(s)
          BY DEF Past, CopiesPast
        <4>2. CASE q = p /\ s = t
          BY <3>4, <3>5, <4>2 DEF Left, PENDING_STATES
        <4>3. CASE q # p \/ s # t
          BY <3>4, <3>5, <3>7, <4>1, <4>3
        <4> QED
          BY <4>2, <4>3
      <3>11. LocksPast'
        <4> SUFFICES ASSUME NEW q \in App, lock[q].op # "free",
                            NEW s, s = lock[q].task, NEW j, j = lock[q].sub
                     PROVE  /\ gen'[s] # 0
                            /\ lock[q].op = "post" => j \in Job /\ Serves(j, s)'
                            /\ lock[q].op \in Writers =>
                                 JOBS'[q][s].status \notin PENDING_STATES /\ Told(s)'
          BY <2>1 DEF LocksPast, Told, Serves, Posts, Created
        <4>1. s \in Task \ {t} /\ q # p
          BY <2>1, <2>3 DEF TypeInv, LockOK, Past, LocksPast, LockFree
        <4>2. /\ lock[q].op = "post" => j \in Job /\ Serves(j, s)
              /\ lock[q].op \in Writers => JOBS[q][s].status \notin PENDING_STATES /\ Told(s)
              /\ gen[s] # 0
          BY DEF Past, LocksPast
        <4> QED
          BY <3>4, <3>5, <3>7, <4>1, <4>2 DEF ToldStays
      <3>12. ListsPast'
        <4> SUFFICES ASSUME NEW q \in App, NEW g, g = mon[q].task
                     PROVE  /\ \A s \in mon[q].todo : Told(s)'
                            /\ mon[q].pc = "gone" => /\ JOBS'[q][g].status \notin PENDING_STATES
                                                     /\ Told(g)'
          BY <2>1 DEF ListsPast, Told, Serves, Posts, Created
        <4>1. mon[q].todo \subseteq Task /\ \A s \in mon[q].todo : Told(s)
          BY DEF TypeInv, MonOK, Monitors, Past, ListsPast
        <4>2. mon[q].pc = "gone" => g \in Task /\ Told(g) /\ JOBS[q][g].status \notin PENDING_STATES
          BY DEF TypeInv, MonOK, Refers, Past, ListsPast
        <4> QED
          BY <3>5, <3>7, <4>1, <4>2
      <3>13. NothingAsked'
        BY <2>1 DEF Past, NothingAsked
      <3> QED
        BY <3>8, <3>9, <3>10, <3>11, <3>12, <3>13 DEF Past
    <2> QED
      BY <1>4, <2>2, <2>3 DEF Create
  <1>5. ASSUME NEW t \in Task, GetStatus(p, t) PROVE Past'
    <2>1. PICK d : d = Loaded(p, t)
      OBVIOUS
    <2>2. /\ LockFree(p) /\ Cache(p, t, d) /\ UNCHANGED <<gen, ask, mon>>
          /\ StatusSections(p, t, "http") \/ UNCHANGED lock
      BY <1>5, <2>1 DEF GetStatus
    <2>3. gen[t] # 0 /\ d.status \in {JOBS[p][t].status, row[t].status}
      BY <1>5, <2>1, FoundBorn, LoadedPast DEF GetStatus
    <2> QED
      BY <1>2, <1>3, <2>1, <2>2, <2>3, LookPast
  <1>6. ASSUME NEW t \in Task, CancelStarts(p, t) PROVE Past'
    <2>1. PICK c : c = Loaded(p, t)
      OBVIOUS
    <2>2. LockFree(p) /\ UNCHANGED <<gen, ask, mon>> /\ c \in Entries /\ gen[t] # 0
          /\ c.status \in {JOBS[p][t].status, row[t].status}
      BY <1>6, <2>1, LoadedType, LoadedPast, FoundBorn DEF CancelStarts, TypeInv
    <2>3. \/ StatusSections(p, t, "http") /\ Cache(p, t, c)
          \/ /\ Record(p, t, [c EXCEPT !.status = "CANCELLED", !.misses = 0, !.verdict = "none"])
             /\ UNCHANGED lock
          \/ Cache(p, t, c) /\ Hold(p, "http", "cancel", t, "UNKNOWN", NoJob)
          \/ Cache(p, t, c) /\ UNCHANGED lock
      BY <1>6, <2>1 DEF CancelStarts
    <2>4. CASE /\ Record(p, t, [c EXCEPT !.status = "CANCELLED", !.misses = 0, !.verdict = "none"])
               /\ UNCHANGED lock
      <3>1. PICK d : d = [c EXCEPT !.status = "CANCELLED", !.misses = 0, !.verdict = "none"]
        OBVIOUS
      <3>2. d.status = "CANCELLED"
        BY <2>2, <3>1 DEF Entries
      <3> QED
        BY <2>2, <2>4, <3>1, <3>2, EndPast DEF PENDING_STATES, Left
    <2>5. CASE Cache(p, t, c) /\ (StatusSections(p, t, "http") \/ UNCHANGED lock)
      BY <1>2, <1>3, <2>1, <2>2, <2>5, LookPast
    <2>6. CASE Cache(p, t, c) /\ Hold(p, "http", "cancel", t, "UNKNOWN", NoJob)
      <3>1. "cancel" \notin Writers
        BY DEF Writers
      <3> QED
        BY <1>2, <1>3, <2>2, <2>6, <3>1, LookPast
    <2> QED
      BY <2>3, <2>4, <2>5, <2>6
  <1>7. /\ ~ReworkWrites(p) /\ ~ReworkPublished(p) /\ ~BulkWrites(p)
        /\ \A t \in Task : ~ReworkReads(p, t)
        /\ \A S \in SUBSET Task : ~BulkReads(p, S)
    BY NobodyAsks DEF Past, NoRequeue
  <1> QED
    BY <1>1, <1>4, <1>5, <1>6, <1>7 DEF Handler

LEMMA QueuePast ==
    ASSUME TypeInv, Reliable, Past, Once, Tokens, ToldStays, NEW p \in App,
           \/ DispatchNothing(p) \/ DispatchFails(p) \/ ReleaseReads(p) \/ ReleaseSubmission(p)
           \/ \E t \in Task : ClaimNext(p, t)
           \/ \E j \in Job : DispatchPosts(p, j)
    PROVE  Past'
  <1>1. /\ \A t \in Task : row[t] \in Rows
        /\ \A q \in App : mon[q] \in Monitors
    BY DEF TypeInv, DbOK, MonOK
  <1>2. \A t \in Task : gen[t] = 0 => ~row[t].exists /\ row[t].status = "PENDING_SUBMIT"
    BY DEF Past, RowsBorn
  <1>3. CASE DispatchNothing(p) \/ ReleaseReads(p)
    <2>1. UNCHANGED <<row, gen, JOBS, lock, ask>>
      BY <1>3 DEF DispatchNothing, ReleaseReads, dbVars
    <2>2. \A q \in App : mon'[q].todo = mon[q].todo
              /\ (mon'[q] = mon[q] \/ mon'[q].pc \in {"legacy", "releasing"})
      BY <1>1, <1>3 DEF DispatchNothing, ReleaseReads, Goto, TypeInv, MonOK, Monitors
    <2>3. \A q \in App : mon'[q].todo \subseteq mon[q].todo
              /\ (mon'[q].pc = "gone" => mon[q].pc = "gone" /\ mon'[q].task = mon[q].task)
      BY <2>2
    <2> QED
      BY <2>1, <2>3, RowsPast
  <1>4. CASE ReleaseSubmission(p)
    <2>1. PICK t : t = mon[p].task
      OBVIOUS
    <2>2. PICK m : m = [Started EXCEPT !.pc = "legacy"]
      OBVIOUS
    <2>3. mon' = [mon EXCEPT ![p] = m] /\ m.pc = "legacy" /\ m.todo = {}
      BY <1>4, <2>2 DEF ReleaseSubmission, Started
    <2>4. \A q \in App : mon'[q] = IF q = p THEN m ELSE mon[q]
      BY <2>3 DEF TypeInv, MonOK
    <2>5. t \in Task /\ mon[p].pc = "releasing" /\ UNCHANGED <<gen, JOBS, lock, ask>>
      BY <1>4, <2>1 DEF ReleaseSubmission, MonitorAt, TypeInv, MonOK, Refers
    <2>6. /\ \A s \in Task \ {t} : row'[s] = row[s]
          /\ \/ row'[t] = row[t]
             \/ row'[t].status = "PENDING_SUBMIT" /\ mon[p].seen = "DISPATCHING"
      BY <1>1, <1>4, <2>1, <2>5 DEF ReleaseSubmission, TypeInv, DbOK, Rows
    <2>7. mon[p].seen = "DISPATCHING" => gen[t] # 0
      <3>1. mon[p].seen = "DISPATCHING" => Submits(p, t)
        BY <2>1, <2>5 DEF Submits
      <3>2. mon[p].seen = "DISPATCHING" => row[t].status # "PENDING_SUBMIT"
        BY <2>5, <3>1 DEF Tokens, HeldTaken, Taken
      <3> QED
        BY <1>2, <2>5, <3>2
    <2>8. \A s \in Task : /\ Left(row'[s].status) => row'[s].status = row[s].status
                          /\ gen[s] = 0 => /\ row'[s].exists = row[s].exists
                                           /\ row'[s].status = row[s].status
      BY <2>5, <2>6, <2>7 DEF Left, PENDING_STATES
    <2>9. \A q \in App : mon'[q].todo \subseteq mon[q].todo
              /\ (mon'[q].pc = "gone" => mon[q].pc = "gone" /\ mon'[q].task = mon[q].task)
      BY <2>3, <2>4
    <2> QED
      BY <2>5, <2>8, <2>9, RowsPast
  <1>5. CASE DispatchFails(p)
    <2>1. PICK t : t = mon[p].task
      OBVIOUS
    <2>2. PICK m : m = [mon[p] EXCEPT !.pc = "release"]
      OBVIOUS
    <2>3. mon' = [mon EXCEPT ![p] = m] /\ m.pc = "release" /\ m.todo = mon[p].todo /\ m.task = t
      BY <1>1, <1>5, <2>1, <2>2 DEF DispatchFails, Goto, Monitors
    <2>4. /\ t \in Task /\ LockFree(p) /\ row[t].exists /\ UNCHANGED <<gen, lock, ask>>
          /\ Cache(p, t, Restore(row[t])) \/ UNCHANGED <<JOBS, row>>
      BY <1>5, <2>1 DEF DispatchFails, MonitorAt, TypeInv, MonOK, Refers
    <2>5. CASE Cache(p, t, Restore(row[t]))
      <3>1. gen[t] # 0 /\ Restore(row[t]).status \in {JOBS[p][t].status, row[t].status}
        BY <2>4, FoundBorn DEF Found, Restore
      <3> QED
        BY <2>3, <2>4, <2>5, <3>1, LookPast
    <2>6. CASE UNCHANGED <<JOBS, row>>
      <3>1. \A q \in App : mon'[q] = IF q = p THEN m ELSE mon[q]
        BY <2>3 DEF TypeInv, MonOK
      <3> QED
        BY <2>3, <2>4, <2>6, <3>1, RowsPast
    <2> QED
      BY <2>4, <2>5, <2>6
  <1>6. ASSUME NEW t \in Task, ClaimNext(p, t) PROVE Past'
    <2>1. \A q \in App : mon'[q].todo = mon[q].todo
              /\ (mon'[q] = mon[q] \/ mon'[q].pc = "claimed")
      BY <1>1, <1>6 DEF ClaimNext, TypeInv, MonOK, Monitors
    <2>2. row[t].exists /\ UNCHANGED <<gen, JOBS, lock, ask>>
      BY <1>6 DEF ClaimNext, Eligible
    <2>3. gen[t] # 0
      BY <1>2, <2>2
    <2>4. row'[t].status = "DISPATCHING" /\ \A s \in Task \ {t} : row'[s] = row[s]
      BY <1>1, <1>6 DEF ClaimNext, TypeInv, DbOK, Rows
    <2>5. \A s \in Task : /\ Left(row'[s].status) => row'[s].status = row[s].status
                          /\ gen[s] = 0 => /\ row'[s].exists = row[s].exists
                                           /\ row'[s].status = row[s].status
      BY <2>3, <2>4 DEF Left, PENDING_STATES
    <2>6. \A q \in App : mon'[q].todo \subseteq mon[q].todo
              /\ (mon'[q].pc = "gone" => mon[q].pc = "gone" /\ mon'[q].task = mon[q].task)
      BY <2>1
    <2> QED
      BY <2>2, <2>5, <2>6, RowsPast
  <1>7. ASSUME NEW j \in Job, DispatchPosts(p, j) PROVE Past'
    <2>1. PICK t : t = mon[p].task
      OBVIOUS
    <2>2. /\ t \in Task /\ LockFree(p) /\ row[t].exists /\ UNCHANGED <<gen, ask>>
          /\ Cache(p, t, Restore(row[t]))
          /\ Hold(p, "monitor", "post", t, "UNKNOWN", j)
          /\ mon' = [mon EXCEPT ![p].pc = "legacy", ![p].task = NoTask]
          /\ Accept(j, t)
      BY <1>7, <2>1 DEF DispatchPosts, MonitorAt, TypeInv, MonOK, Refers, Reliable
    <2>3. PICK m : m = [mon[p] EXCEPT !.pc = "legacy", !.task = NoTask]
      OBVIOUS
    <2>4. mon' = [mon EXCEPT ![p] = m] /\ m.pc = "legacy" /\ m.todo = mon[p].todo
      BY <1>1, <2>2, <2>3 DEF Monitors, TypeInv, MonOK
    <2>5. gen[t] # 0 /\ Restore(row[t]).status \in {JOBS[p][t].status, row[t].status}
      BY <2>2, FoundBorn DEF Found, Restore
    <2>6. "post" \notin Writers
      BY DEF Writers
    <2>7. Serves(j, t)'
      BY <2>2 DEF Accept, Serves, Created, TypeInv, ProviderOK
    <2> QED
      BY <2>2, <2>4, <2>5, <2>6, <2>7, LookPast
  <1> QED
    BY <1>3, <1>4, <1>5, <1>6, <1>7

LEMMA ListPast ==
    ASSUME TypeInv, Past, ToldStays, NEW p \in App, ClaimLegacy(p) \/ ClaimActive(p) \/ ReleaseActiveClaim(p)
    PROVE  Past'
  <1>1. \A t \in Task : row[t] \in Rows
    BY DEF TypeInv, DbOK
  <1>2. \A t \in Task : \/ row'[t] = row[t]
                        \/ \E claim : row'[t] = [row[t] EXCEPT !.claim = claim]
    BY DEF ClaimLegacy, ClaimActive, ReleaseActiveClaim, TypeInv, DbOK
  <1>3. \A t \in Task : row'[t].status = row[t].status /\ row'[t].exists = row[t].exists
    <2> TAKE t \in Task
    <2>1. ASSUME NEW claim PROVE /\ [row[t] EXCEPT !.claim = claim].status = row[t].status
                                 /\ [row[t] EXCEPT !.claim = claim].exists = row[t].exists
      BY <1>1 DEF Rows
    <2> QED
      BY <1>2, <2>1
  <1>4. UNCHANGED <<gen, JOBS, lock, ask>>
    BY DEF ClaimLegacy, ClaimActive, ReleaseActiveClaim
  <1>5. ASSUME NEW m, mon' = [mon EXCEPT ![p] = m], m.pc # "gone",
               \/ m.todo \subseteq mon[p].todo
               \/ \A t \in m.todo : t \in Task /\ Left(row[t].status)
        PROVE  Past'
    <2>1. \A q \in App : mon'[q] = IF q = p THEN m ELSE mon[q]
      BY <1>5 DEF TypeInv, MonOK
    <2>2. \A t \in Task : Left(row[t].status) => Told(t)
      BY DEF Past, RowsTold
    <2> QED
      BY <1>3, <1>4, <1>5, <2>1, <2>2, RowsPast
  <1>6. CASE ClaimLegacy(p)
    <2>1. PICK pc : pc = IF LegacyRows = {} THEN "active" ELSE "relegacy"
      OBVIOUS
    <2>2. PICK m : m = [mon[p] EXCEPT !.pc = pc, !.todo = LegacyRows, !.skip = LegacyRows]
      OBVIOUS
    <2>3. mon' = [mon EXCEPT ![p].pc = pc, ![p].todo = LegacyRows, ![p].skip = LegacyRows]
      BY <1>6, <2>1 DEF ClaimLegacy
    <2>4. mon' = [mon EXCEPT ![p] = m] /\ m.todo = LegacyRows /\ m.pc = pc
      BY <2>2, <2>3 DEF TypeInv, MonOK, Monitors
    <2>5. \A t \in LegacyRows : t \in Task /\ Left(row[t].status)
      BY DEF LegacyRows, Left, PENDING_STATES
    <2>6. m.pc # "gone"
      BY <2>1, <2>4
    <2> QED
      BY <1>5, <2>4, <2>5, <2>6
  <1>7. CASE ClaimActive(p)
    <2> DEFINE ids == (ActiveRows \cup ImportRows) \ mon[p].skip
    <2>1. PICK pc : pc = IF ids = {} THEN "dispatch" ELSE "poll"
      OBVIOUS
    <2>2. PICK m : m = [Started EXCEPT !.pc = pc, !.todo = ids]
      OBVIOUS
    <2>3. mon' = [mon EXCEPT ![p] = m]
      BY <1>7, <2>1, <2>2 DEF ClaimActive
    <2>4. m.pc \in {"dispatch", "poll"} /\ m.todo = ids
      BY <2>1, <2>2 DEF Started
    <2>5. \A t \in ids : t \in Task /\ Left(row[t].status)
      BY DEF ActiveRows, ImportRows, Left, PENDING_STATES, ACTIVE_STATES
    <2> HIDE DEF ids
    <2> QED
      BY <1>5, <2>3, <2>4, <2>5
  <1>8. CASE ReleaseActiveClaim(p)
    <2>1. PICK m : /\ mon' = [mon EXCEPT ![p] = m]
                   /\ m.pc \in {"dispatch", "poll"} /\ m.todo \subseteq mon[p].todo
      BY <1>8, DoneMoves DEF ReleaseActiveClaim
    <2> QED
      BY <1>5, <2>1
  <1> QED
    BY <1>6, <1>7, <1>8

LEMMA ReadPast ==
    ASSUME TypeInv, Reliable, Past, Once, ToldStays, NEW p \in App, NEW t \in Task,
           \/ LegacyReads(p, t)
           \/ MonitorReads(p, t) \/ MonitorMisses(p, t) \/ MonitorFails(p, t)
    PROVE  Past'
  <1>1. mon[p] \in Monitors /\ LockFree(p) /\ UNCHANGED <<gen, ask>> /\ t \in mon[p].todo
    BY DEF LegacyReads, MonitorReads, MonitorMisses, MonitorFails, TypeInv, MonOK
  <1>2. Told(t) /\ gen[t] # 0 /\ row[t].status \notin PENDING_STATES
    <2>1. Told(t)
      BY <1>1 DEF Past, ListsPast
    <2> QED
      BY <2>1, ToldIs
  <1>3. CASE LegacyReads(p, t)
    <2>1. PICK pc : pc = IF mon[p].todo = {t} THEN "active" ELSE "relegacy"
      OBVIOUS
    <2>2. PICK m : m = [mon[p] EXCEPT !.pc = pc, !.todo = mon[p].todo \ {t}]
      OBVIOUS
    <2>3. mon' = [mon EXCEPT ![p].pc = pc, ![p].todo = mon[p].todo \ {t}]
      BY <1>3, <2>1 DEF LegacyReads
    <2>4. mon' = [mon EXCEPT ![p] = m] /\ m.todo \subseteq mon[p].todo /\ m.pc = pc
      BY <1>1, <2>2, <2>3 DEF TypeInv, MonOK, Monitors
    <2>5. Cache(p, t, Restore(row[t])) /\ Hold(p, "monitor", "legacy", t, "UNKNOWN", NoJob)
      BY <1>3 DEF LegacyReads
    <2>6. PICK d : d = Restore(row[t])
      OBVIOUS
    <2>7. d.status = row[t].status
      BY <2>6 DEF Restore
    <2>8. m.pc # "gone" /\ d.status \notin PENDING_STATES /\ Cache(p, t, d)
      BY <1>2, <2>1, <2>4, <2>5, <2>6, <2>7
    <2> QED
      BY <1>1, <1>2, <2>4, <2>5, <2>7, <2>8, LookPast
  <1>4. PICK d : d = Loaded(p, t)
    OBVIOUS
  <1>5. d.status \in {JOBS[p][t].status, row[t].status}
    BY <1>4, LoadedPast
  <1>6. CASE MonitorReads(p, t)
    <2>1. PICK m : /\ mon' = [mon EXCEPT ![p] = m]
                   /\ m.pc \in {"dispatch", "poll"} /\ m.todo \subseteq mon[p].todo
      BY <1>6, DoneMoves DEF MonitorReads
    <2>2. Cache(p, t, d) /\ StatusSections(p, t, "monitor")
      BY <1>4, <1>6 DEF MonitorReads
    <2> QED
      BY <1>1, <1>2, <1>4, <1>5, <2>1, <2>2, LookPast
  <1>7. CASE MonitorMisses(p, t) \/ MonitorFails(p, t)
    <2>1. PICK pc \in {"gone", "failed"} : mon' = [mon EXCEPT ![p].pc = pc, ![p].task = t]
      BY <1>7 DEF MonitorMisses, MonitorFails
    <2>2. PICK m : m = [mon[p] EXCEPT !.pc = pc, !.task = t]
      OBVIOUS
    <2>3. mon' = [mon EXCEPT ![p] = m] /\ m.pc = pc /\ m.task = t /\ m.todo = mon[p].todo
      BY <1>1, <2>1, <2>2 DEF TypeInv, MonOK, Monitors
    <2>4. Cache(p, t, d) /\ UNCHANGED lock /\ d.status \notin PENDING_STATES
      BY <1>4, <1>7 DEF MonitorMisses, MonitorFails, Polls
    <2> QED
      BY <1>1, <1>2, <1>5, <2>3, <2>4, LookPast
  <1> QED
    BY <1>3, <1>6, <1>7

LEMMA ReconcilePast ==
    ASSUME TypeInv, Reliable, Past, Once, ToldStays, NEW p \in App, Reconcile(p) PROVE Past'
  <1>1. PICK t : t = mon[p].task
    OBVIOUS
  <1> DEFINE c == JOBS[p][t]
             attempts == IF c.misses < MinAttempts THEN c.misses + 1 ELSE MinAttempts
             open == IF c.status \in TERMINAL_STATES THEN "IN_PROGRESS" ELSE c.status
  <1>2. mon[p].pc = "gone" /\ LockFree(p) /\ UNCHANGED <<gen, ask>>
    BY DEF Reconcile, MonitorAt
  <1>3. t \in Task
    BY <1>1, <1>2 DEF TypeInv, MonOK, Refers
  <1>4. c \in Entries /\ c.status \notin PENDING_STATES /\ Told(t)
    BY <1>1, <1>2, <1>3 DEF TypeInv, CopiesOK, Past, ListsPast
  <1>5. gen[t] # 0 /\ Told(t)'
    BY <1>3, <1>4, ToldIs DEF ToldStays
  <1>6. PICK m : /\ mon' = [mon EXCEPT ![p] = m]
                 /\ m.pc \in {"dispatch", "poll"} /\ m.todo \subseteq mon[p].todo
    BY <1>1, DoneMoves DEF Reconcile
  <1>7. PICK k \in Outputs(p, t) :
           \/ RecoversFrom(p, t, k)
           \/ /\ Record(p, t, [c EXCEPT !.status = open, !.misses = attempts, !.verdict = "none"])
              /\ UNCHANGED lock
           \/ /\ Record(p, t, [c EXCEPT !.status = "FAILED", !.misses = 0, !.verdict = "final"])
              /\ UNCHANGED lock
    BY <1>1 DEF Reconcile
  <1>8. open \notin PENDING_STATES
    BY <1>4 DEF PENDING_STATES
  <1> HIDE DEF attempts, open
  <1>9. ASSUME NEW d, Record(p, t, d), d.status \notin PENDING_STATES, UNCHANGED lock PROVE Past'
    <2>1. PICK l : l = lock[p]
      OBVIOUS
    <2>2. lock' = [lock EXCEPT ![p] = l] /\ l.op = "free"
      BY <1>2, <1>9, <2>1 DEF TypeInv, LockOK, LockFree
    <2> QED
      BY <1>2, <1>3, <1>5, <1>6, <1>9, <2>2, PutPast
  <1>10. CASE RecoversFrom(p, t, k)
    BY <1>2, <1>3, <1>4, <1>6, <1>10, RecoversPast
  <1>11. CASE /\ Record(p, t, [c EXCEPT !.status = open, !.misses = attempts, !.verdict = "none"])
              /\ UNCHANGED lock
    <2>1. PICK d : d = [c EXCEPT !.status = open, !.misses = attempts, !.verdict = "none"]
      OBVIOUS
    <2>2. d.status = open
      BY <1>4, <2>1 DEF Entries
    <2> QED
      BY <1>8, <1>9, <1>11, <2>1, <2>2
  <1>12. CASE /\ Record(p, t, [c EXCEPT !.status = "FAILED", !.misses = 0, !.verdict = "final"])
              /\ UNCHANGED lock
    <2>1. PICK d : d = [c EXCEPT !.status = "FAILED", !.misses = 0, !.verdict = "final"]
      OBVIOUS
    <2>2. d.status = "FAILED"
      BY <1>4, <2>1 DEF Entries
    <2> QED
      BY <1>9, <1>12, <2>1, <2>2 DEF PENDING_STATES
  <1> QED
    BY <1>7, <1>10, <1>11, <1>12

LEMMA NextPast ==
    ASSUME TypeInv, Reliable, NoRequeue, Past, Once, Tokens, [Next]_vars PROVE Past'
  <1>1. ToldStays
    BY PastLate, NextTold
  <1>2. ASSUME NEW p \in App, Monitor(p) PROVE Past'
    BY <1>1, <1>2, QueuePast, ListPast, ReadPast, ReconcilePast, NothingToRecover DEF Monitor
  <1>3. ASSUME NEW p \in App, SectionEnds(p) PROVE Past'
    BY <1>1, <1>3, SectionPast
  <1>4. ASSUME NEW p \in App, Handler(p) PROVE Past'
    BY <1>1, <1>4, HandlerPast
  <1>5. ASSUME NEW p \in App PROVE ~Crash(p)
    BY DEF Crash, Reliable
  <1>6. ~(\E t \in Task : DraftRequeue(t))
    BY DEF DraftRequeue, NoRequeue
  <1>7. CASE Time \/ Provider \/ UNCHANGED vars
    <2>1. \A t \in Task : row'[t].status = row[t].status /\ row'[t].exists = row[t].exists
      <3>1. CASE Time
        BY <3>1 DEF Time, ClaimAges, DeferralEnds, TypeInv, DbOK, Rows
      <3>2. CASE Provider \/ UNCHANGED vars
        BY <3>2 DEF Provider, JobEnds, PublishManifest, Forget, dbVars, vars
      <3> QED
        BY <1>7, <3>1, <3>2
    <2>2. UNCHANGED <<gen, JOBS, lock, ask, mon>>
      BY <1>7 DEF Time, ClaimAges, DeferralEnds, Provider, JobEnds, PublishManifest, Forget,
                  dbVars, vars
    <2> QED
      BY <1>1, <2>1, <2>2, RowsPast
  <1> QED
    BY <1>2, <1>3, <1>4, <1>5, <1>6, <1>7 DEF Next

LEMMA InitPast == ASSUME Init PROVE Past
  <1>1. \A t \in Task : gen[t] = 0 => row[t] = NoRow
    BY DEF Init
  <1>2. RowsBorn
    BY <1>1 DEF RowsBorn, NoRow
  <1>3. \A p \in App : lock[p].op = "free"
    BY DEF Init, Unlocked
  <1>4. ASSUME NEW t \in Task, Left(row[t].status) PROVE Told(t)
    <2>1. LegacyJob[t] # NoJob
      BY <1>4 DEF Init, NoRow, Left, PENDING_STATES
    <2>2. PICK j \in Job : j = LegacyJob[t]
      BY <2>1, LegacyAssumption DEF Job, NoJob
    <2>3. \A s \in Task : LegacyJob[s] = j => s = t
      BY <2>1, <2>2, LegacyAssumption DEF NoJob
    <2>4. (CHOOSE s \in Task : LegacyJob[s] = j) = t
      BY <2>2, <2>3
    <2>5. job[j] = ForgottenJob(t) /\ gen[t] = 1
      BY <2>1, <2>2, <2>4 DEF Init
    <2>6. Serves(j, t)
      BY <2>5 DEF Serves, Created, ForgottenJob
    <2> QED
      BY <1>3, <2>6 DEF Told, Posts
  <1>5. CopiesPast
    BY DEF Init, CopiesPast, NoEntry, Left, PENDING_STATES
  <1>6. LocksPast /\ ListsPast /\ NothingAsked
    BY <1>3 DEF Init, LocksPast, ListsPast, NothingAsked, Started, Quiet
  <1> QED
    BY <1>2, <1>4, <1>5, <1>6 DEF Past, RowsTold

-----------------------------------------------------------------------------
(* A task stays with the one process that submits it.                      *)

LEMMA TokensStay ==
    ASSUME Tokens, Steady, Untaken, PostsByMon', NoRecovery',
           \A q \in App, t \in Task : Submits(q, t)' => Submits(q, t) /\ Taken(row'[t])
    PROVE  Tokens'
  <1>1. OneHolds'
    BY DEF Tokens, OneHolds
  <1>2. HeldTaken'
    BY DEF HeldTaken
  <1>3. RowsHeld'
    BY DEF Tokens, RowsHeld, Steady, Untaken
  <1> QED
    BY <1>1, <1>2, <1>3 DEF Tokens

(* Nobody comes to hold a task, and the rows that are held stay.           *)
LEMMA RowsTokens ==
    ASSUME Tokens, Steady, Untaken, ClaimsKeep,
           \A q \in App : lock'[q].op = "post" => lock'[q] = lock[q],
           \A q \in App, t \in Task : Submits(q, t) /\ Submits(q, t)' => Taken(row'[t])
    PROVE  Tokens'
  <1>1. PostsByMon'
    BY DEF Tokens, PostsByMon
  <1>2. NoRecovery'
    BY DEF Tokens, NoRecovery, ClaimsKeep
  <1>3. ASSUME NEW q \in App, NEW t \in Task, Submits(q, t)'
        PROVE  Submits(q, t) /\ Taken(row'[t])
    <2>1. Hands(q, t)' \/ Posts(q, t)'
      BY <1>3 DEF Submits, Hands, Posts
    <2>2. Hands(q, t) \/ Posts(q, t)
      BY <2>1 DEF ClaimsKeep, Posts
    <2> QED
      BY <1>3, <2>2, HandsSubmits
  <1> QED
    BY <1>1, <1>2, <1>3, TokensStay

LEMMA DepartingTokens ==
    ASSUME Tokens, Steady, Departing, ClaimsKeep PROVE Tokens'
  <1>1. Untaken
    BY DEF Departing, Departs, Untaken, PENDING_STATES
  <1>2. ASSUME NEW q \in App, NEW t \in Task, Submits(q, t) PROVE Taken(row'[t])
    <2>1. Taken(row[t]) /\ Departs(row[t], row'[t])
      BY <1>2 DEF Tokens, HeldTaken, Departing
    <2> QED
      BY <2>1 DEF Taken, Departs, PENDING_STATES
  <1> QED
    BY <1>1, <1>2, RowsTokens DEF Departing

LEMMA QueueTokens ==
    ASSUME TypeInv, Reliable, Tokens, Steady, NEW p \in App,
           \/ DispatchNothing(p) \/ ReleaseReads(p) \/ ReleaseSubmission(p)
           \/ \E t \in Task : ClaimNext(p, t)
           \/ \E j \in Job : DispatchPosts(p, j)
    PROVE  Tokens'
  <1>1. /\ \A t \in Task : row[t] \in Rows
        /\ mon[p] \in Monitors
    BY DEF TypeInv, DbOK, MonOK
  <1>2. ASSUME UNCHANGED <<row, lock>>, ClaimsKeep PROVE Tokens'
    BY <1>2, RowsTokens DEF Untaken, Tokens, HeldTaken
  <1>3. CASE DispatchNothing(p) \/ ReleaseReads(p)
    <2>1. UNCHANGED <<row, lock>>
      BY <1>3 DEF DispatchNothing, ReleaseReads, dbVars
    <2> QED
      BY <1>2, <1>3, <2>1, ClaimsStay
  <1>4. CASE ReleaseSubmission(p)
    <2>1. PICK t : t = mon[p].task
      OBVIOUS
    <2>2. /\ t \in Task /\ mon[p].pc = "releasing" /\ lock[p].by # "monitor" /\ UNCHANGED lock
          /\ mon' = [mon EXCEPT ![p] = [Started EXCEPT !.pc = "legacy"]]
      BY <1>4, <2>1 DEF ReleaseSubmission, MonitorAt, TypeInv, MonOK, Refers
    <2>3. ClaimsKeep
      BY <1>4, ClaimsStay
    <2>4. CASE mon[p].seen # "DISPATCHING"
      <3>1. UNCHANGED row
        BY <1>4, <2>4 DEF ReleaseSubmission
      <3> QED
        BY <1>2, <2>2, <2>3, <3>1
    <2>5. CASE mon[p].seen = "DISPATCHING"
      <3>1. Submits(p, t)
        BY <2>1, <2>2, <2>5 DEF Submits
      <3>2. \A s \in Task \ {t} : row'[s] = row[s]
        BY <1>4, <2>1, <2>2 DEF ReleaseSubmission, TypeInv, DbOK
      <3>3. row'[t].status = "PENDING_SUBMIT"
        BY <1>1, <1>4, <2>1, <2>2, <2>5 DEF ReleaseSubmission, TypeInv, DbOK, Rows
      <3>4. mon'[p].pc = "legacy"
        BY <2>2 DEF TypeInv, MonOK, Started
      <3>5. Untaken
        BY <3>2, <3>3 DEF Untaken
      <3>6. lock[p].op # "post"
        BY <2>2 DEF Tokens, PostsByMon
      <3>7. ~Submits(p, t)'
        BY <2>2, <3>4, <3>6 DEF Submits
      <3>8. ASSUME NEW q \in App, NEW s \in Task, Submits(q, s), Submits(q, s)'
            PROVE  Taken(row'[s])
        <4>1. CASE s = t
          <5>1. q = p
            BY <2>2, <3>1, <3>8, <4>1 DEF Tokens, OneHolds
          <5> QED
            BY <3>7, <3>8, <4>1, <5>1
        <4>2. CASE s # t
          BY <3>2, <3>8, <4>2 DEF Tokens, HeldTaken
        <4> QED
          BY <4>1, <4>2
      <3> QED
        BY <2>2, <2>3, <3>5, <3>8, RowsTokens
    <2> QED
      BY <2>4, <2>5
  <1>5. ASSUME NEW t \in Task, ClaimNext(p, t) PROVE Tokens'
    <2>1. /\ MonitorAt(p, "dispatch") /\ row[t].status = "PENDING_SUBMIT" /\ UNCHANGED lock
          /\ row' = [row EXCEPT ![t].status = "DISPATCHING", ![t].claim = "fresh"]
          /\ mon' = [mon EXCEPT ![p].pc = "claimed", ![p].task = t]
      BY <1>5 DEF ClaimNext, Eligible
    <2>2. ASSUME NEW q \in App PROVE ~Submits(q, t)
      BY <2>1 DEF Tokens, HeldTaken, Taken
    <2>3. /\ row'[t].status = "DISPATCHING" /\ row'[t].claim = "fresh"
          /\ \A s \in Task \ {t} : row'[s] = row[s]
      BY <1>1, <2>1 DEF TypeInv, DbOK, Rows
    <2>4. /\ mon'[p].pc = "claimed" /\ mon'[p].task = t
          /\ \A q \in App \ {p} : mon'[q] = mon[q]
      BY <1>1, <2>1 DEF TypeInv, MonOK, Monitors
    <2>5. ASSUME NEW q \in App, NEW s \in Task, Submits(q, s)'
          PROVE  (s = t /\ q = p) \/ (s # t /\ Submits(q, s))
      BY <2>1, <2>2, <2>4, <2>5 DEF Submits
    <2>6. OneHolds'
      BY <2>5 DEF Tokens, OneHolds
    <2>7. HeldTaken'
      <3> SUFFICES ASSUME NEW q \in App, NEW s \in Task, Submits(q, s)' PROVE Taken(row'[s])
        BY DEF HeldTaken
      <3>1. CASE s = t
        BY <2>3, <3>1 DEF Taken
      <3>2. CASE s # t
        BY <2>3, <2>5, <3>2 DEF Tokens, HeldTaken
      <3> QED
        BY <3>1, <3>2
    <2>8. PostsByMon' /\ NoRecovery'
      BY <2>1, <2>4 DEF Tokens, PostsByMon, NoRecovery
    <2>9. RowsHeld'
      <3> SUFFICES ASSUME NEW s \in Task, row'[s].status = "DISPATCHING"
                   PROVE  \E q \in App : Submits(q, s)'
        BY DEF RowsHeld
      <3>1. CASE s = t
        BY <2>4, <3>1 DEF Submits
      <3>2. CASE s # t
        BY <2>3, <3>2 DEF Tokens, RowsHeld, Steady
      <3> QED
        BY <3>1, <3>2
    <2> QED
      BY <2>6, <2>7, <2>8, <2>9 DEF Tokens
  <1>6. ASSUME NEW j \in Job, DispatchPosts(p, j) PROVE Tokens'
    <2>1. PICK t : t = mon[p].task
      OBVIOUS
    <2>2. /\ mon[p].pc = "claimed" /\ UNCHANGED row
          /\ Hold(p, "monitor", "post", t, "UNKNOWN", j)
          /\ mon' = [mon EXCEPT ![p].pc = "legacy", ![p].task = NoTask]
      BY <1>6, <2>1 DEF DispatchPosts, MonitorAt, Reliable, Cache
    <2>3. /\ lock'[p].op = "post" /\ lock'[p].by = "monitor" /\ lock'[p].task = t
          /\ \A q \in App \ {p} : lock'[q] = lock[q]
      BY <2>2 DEF Hold, TypeInv, LockOK
    <2>4. mon'[p].pc = "legacy" /\ \A q \in App \ {p} : mon'[q] = mon[q]
      BY <1>1, <2>2 DEF TypeInv, MonOK, Monitors
    <2>5. Untaken
      BY <2>2 DEF Untaken
    <2>6. PostsByMon' /\ NoRecovery'
      BY <2>3, <2>4 DEF Tokens, PostsByMon, NoRecovery
    <2>7. ASSUME NEW q \in App, NEW s \in Task, Submits(q, s)'
          PROVE  Submits(q, s) /\ Taken(row'[s])
      <3>1. Submits(q, s)
        BY <2>1, <2>2, <2>3, <2>4, <2>7 DEF Submits
      <3> QED
        BY <2>2, <3>1 DEF Tokens, HeldTaken
    <2> QED
      BY <2>5, <2>6, <2>7, TokensStay
  <1> QED
    BY <1>3, <1>4, <1>5, <1>6

LEMMA NextTokens ==
    ASSUME TypeInv, Reliable, Punctual, Past, Tokens, [Next]_vars PROVE Tokens'
  <1>1. Late /\ Steady
    BY PastLate, NextSteady DEF Reliable, Lasting
  <1>2. ASSUME NEW p \in App, Monitor(p) PROVE Tokens'
    <2>1. CASE \/ DispatchNothing(p) \/ ReleaseReads(p) \/ ReleaseSubmission(p)
               \/ \E t \in Task : ClaimNext(p, t)
               \/ \E j \in Job : DispatchPosts(p, j)
      BY <1>1, <2>1, QueueTokens
    <2>2. CASE \/ DispatchFails(p)
               \/ ClaimLegacy(p) \/ ClaimActive(p) \/ ReleaseActiveClaim(p) \/ Reconcile(p)
               \/ \E t \in Task : \/ LegacyReads(p, t)
                                  \/ MonitorReads(p, t) \/ MonitorMisses(p, t) \/ MonitorFails(p, t)
      BY <1>1, <2>2, MonitorDeparts, ClaimsStay, DepartingTokens
    <2> QED
      BY <1>2, <2>1, <2>2, NothingToRecover DEF Monitor
  <1>3. ASSUME UNCHANGED mon PROVE ClaimsKeep
    BY <1>3 DEF ClaimsKeep, Hands
  <1>4. ASSUME NEW p \in App, SectionEnds(p) PROVE Tokens'
    <2>1. UNCHANGED mon
      BY <1>4 DEF SectionEnds, DispatchEnds, PollEnds, ImportEnds, LegacyEnds, RecoverEnds
    <2> QED
      BY <1>1, <1>3, <1>4, <2>1, SectionDeparts, DepartingTokens
  <1>5. ASSUME NEW p \in App, Handler(p) PROVE Tokens'
    <2>1. UNCHANGED mon
      BY <1>5 DEF Handler, CancelEnds, Create, GetStatus, CancelStarts, ReworkReads, ReworkWrites,
                  ReworkPublished, BulkReads, BulkWrites
    <2>2. ASSUME NEW t \in Task, Create(p, t), ~(row[t].exists /\ UNCHANGED gen) PROVE Tokens'
      <3>1. Record(p, t, NewEntry) /\ gen[t] = 0 /\ UNCHANGED lock
        BY <2>2 DEF Create
      <3>2. row[t].status = "PENDING_SUBMIT"
        BY <3>1 DEF Past, RowsBorn
      <3>3. \A s \in Task \ {t} : row'[s] = row[s]
        BY <3>1 DEF Record, TypeInv, DbOK
      <3>4. PICK d : d = NewEntry
        OBVIOUS
      <3>5. d.status = "PENDING_SUBMIT" /\ row' = [row EXCEPT ![t] = Recorded(d, row[t])]
        BY <3>1, <3>4 DEF NewEntry, NoEntry, Record, Reliable
      <3>6. row'[t].status = "PENDING_SUBMIT"
        BY <3>5 DEF Recorded, TypeInv, DbOK
      <3>7. Untaken
        BY <3>3, <3>6 DEF Untaken
      <3>8. ASSUME NEW q \in App, NEW s \in Task, Submits(q, s) PROVE Taken(row'[s])
        <4>1. Taken(row[s])
          BY <3>8 DEF Tokens, HeldTaken
        <4>2. s # t
          BY <3>2, <4>1 DEF Taken
        <4> QED
          BY <3>3, <4>1, <4>2
      <3> QED
        BY <1>1, <1>3, <2>1, <3>1, <3>7, <3>8, RowsTokens
    <2>3. /\ ~ReworkWrites(p) /\ ~ReworkPublished(p) /\ ~BulkWrites(p)
          /\ \A t \in Task : ~ReworkReads(p, t)
          /\ \A S \in SUBSET Task : ~BulkReads(p, S)
      BY NobodyAsks DEF Past, Punctual, NoRequeue
    <2>4. CASE \/ CancelEnds(p)
               \/ \E t \in Task : \/ GetStatus(p, t) \/ CancelStarts(p, t)
                                  \/ Create(p, t) /\ row[t].exists /\ UNCHANGED gen
      BY <1>1, <1>3, <2>1, <2>4, HandlerDeparts, DepartingTokens
    <2> QED
      BY <1>5, <2>2, <2>3, <2>4 DEF Handler
  <1>6. ASSUME NEW p \in App PROVE ~Crash(p)
    BY DEF Crash, Reliable
  <1>7. ~(\E t \in Task : DraftRequeue(t))
    BY DEF DraftRequeue, Punctual, NoRequeue
  <1>8. CASE Time
    <2>1. UNCHANGED <<mon, lock>>
      BY <1>8 DEF Time, ClaimAges, DeferralEnds
    <2>2. PICK t \in Task : ClaimAges(t) \/ DeferralEnds(t)
      BY <1>8 DEF Time
    <2>3. \A s \in Task \ {t} : row'[s] = row[s]
      BY <2>2 DEF ClaimAges, DeferralEnds, TypeInv, DbOK
    <2>4. /\ row'[t].status = row[t].status
          /\ \/ \A q \in App : ~Submits(q, t)
             \/ row'[t].claim = row[t].claim
      <3>1. row[t] \in Rows
        BY DEF TypeInv, DbOK
      <3>2. CASE ClaimAges(t)
        <4>1. /\ row' = [row EXCEPT ![t].claim = "stale"]
              /\ \A q \in App : ~WorksOn(q, t)
          BY <3>2 DEF ClaimAges, Punctual
        <4>2. row'[t].status = row[t].status
          BY <3>1, <4>1 DEF TypeInv, DbOK, Rows
        <4>3. \A q \in App : ~Submits(q, t)
          BY <4>1 DEF WorksOn, Submits
        <4> QED
          BY <4>2, <4>3
      <3>3. CASE DeferralEnds(t)
        BY <3>1, <3>3 DEF DeferralEnds, TypeInv, DbOK, Rows
      <3> QED
        BY <2>2, <3>2, <3>3
    <2>5. ASSUME NEW q \in App, NEW s \in Task, Submits(q, s) PROVE Taken(row'[s])
      BY <2>3, <2>4, <2>5 DEF Tokens, HeldTaken, Taken
    <2>6. Untaken
      BY <2>3, <2>4 DEF Untaken
    <2> QED
      BY <1>1, <1>3, <2>1, <2>5, <2>6, RowsTokens
  <1>9. CASE Provider \/ UNCHANGED vars
    <2>1. UNCHANGED <<mon, lock, row>>
      BY <1>9 DEF Provider, JobEnds, PublishManifest, Forget, dbVars, vars
    <2>2. ASSUME NEW q \in App, NEW s \in Task, Submits(q, s) PROVE Taken(row'[s])
      BY <2>1, <2>2 DEF Tokens, HeldTaken
    <2>3. Untaken
      BY <2>1 DEF Untaken
    <2> QED
      BY <1>1, <1>3, <2>1, <2>2, <2>3, RowsTokens
  <1> QED
    BY <1>2, <1>4, <1>5, <1>6, <1>7, <1>8, <1>9 DEF Next

LEMMA InitTokens == ASSUME Init PROVE Tokens
  <1>1. \A p \in App : mon[p] = Started /\ lock[p] = Unlocked
    BY DEF Init
  <1>2. \A p \in App, t \in Task : ~Submits(p, t)
    BY <1>1 DEF Submits, Started, Unlocked
  <1>3. \A t \in Task : row[t].status # "DISPATCHING"
    BY DEF Init, NoRow, LegacyRow
  <1> QED
    BY <1>1, <1>2, <1>3 DEF Tokens, OneHolds, HeldTaken, PostsByMon, RowsHeld, NoRecovery, Started,
                            Unlocked

(* One process is never met by another one.                                *)
LEMMA OneAlone ==
    ASSUME OneProcess, TypeInv, InStep PROVE Alone
  <1>1. \A p, q \in App : p = q
    BY DEF OneProcess
  <1>2. ASSUME NEW p \in App, MonitorAt(p, "dispatch"), NEW t \in Task PROVE ~Posts(p, t)
    BY <1>2 DEF MonitorAt, Posts, InStep, LocksAwait, Awaits
  <1> QED
    BY <1>1, <1>2 DEF Alone

(* Once every POST /run is answered and recorded, a task is submitted at   *)
(* most as often as it was asked to run (SubmittedOnce): in one process    *)
(* without old rows, whatever the users ask for but a rework or a bulk     *)
(* rework, and in any number of processes as long as no task is asked for  *)
(* again and no claim outlives its 300 s under a live process.             *)
THEOREM SubmitsOnce ==
    ASSUME Reliable, Faulty \/ Punctual PROVE Spec => []SubmittedOnce
  <1>1. Init => Once
    BY InitOnce
  <1>2. TypeInv /\ Once => SubmittedOnce
    BY OnceCounts
  <1>3. CASE Faulty
    <2>1. TypeInv /\ TypeInv' /\ InStep /\ Once /\ [Next]_vars => Once'
      <3> SUFFICES ASSUME TypeInv, TypeInv', InStep, Once, [Next]_vars PROVE Once'
        OBVIOUS
      <3>1. Alone /\ Late
        BY <1>3, OneAlone, InStepLate DEF Faulty
      <3>2. \A t \in Task : gen[t] = 0 => ~row[t].exists
        BY DEF InStep, RowsSound, Sound
      <3>3. Requests \cap {"rework", "bulk"} = {}
        BY <1>3 DEF Faulty
      <3> QED
        BY <3>1, <3>2, <3>3, NextOnce
    <2>2. Spec => []InStep
      BY <1>3, InStepInvariant
    <2> QED
      BY <1>1, <1>2, <2>1, <2>2, TypesInvariant, PTL DEF Spec
  <1>4. CASE Punctual
    <2>1. Init => Past /\ Tokens
      BY InitPast, InitTokens
    <2>2. TypeInv /\ TypeInv' /\ Past /\ Tokens /\ Once /\ [Next]_vars => Past' /\ Tokens' /\ Once'
      <3> SUFFICES ASSUME TypeInv, TypeInv', Past, Tokens, Once, [Next]_vars
                   PROVE  Past' /\ Tokens' /\ Once'
        OBVIOUS
      <3>1. NoRequeue /\ Requests \cap {"rework", "bulk"} = {}
        BY <1>4 DEF Punctual, NoRequeue
      <3>2. Past'
        BY <3>1, NextPast
      <3>3. Tokens'
        BY <1>4, NextTokens
      <3>4. Late /\ Alone /\ \A t \in Task : gen[t] = 0 => ~row[t].exists
        BY PastLate, TokensAlone DEF Past, RowsBorn
      <3>5. Once'
        BY <3>1, <3>4, NextOnce
      <3> QED
        BY <3>2, <3>3, <3>5
    <2> QED
      BY <1>1, <1>2, <2>1, <2>2, TypesInvariant, PTL DEF Spec
  <1> QED
    BY <1>3, <1>4
=============================================================================
