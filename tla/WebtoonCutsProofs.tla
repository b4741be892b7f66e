-------------------------- MODULE WebtoonCutsProofs --------------------------
(***************************************************************************)
(* Proofs about WebtoonCuts, for any number of jobs, users and processes   *)
(* and for any sources: type correctness, one active job per user, one     *)
(* worker per job, jobs that stay over, and completed jobs that are whole. *)
(***************************************************************************)
EXTENDS WebtoonCuts, TLAPS

(* The paths of the cuts of the units before n, and of the first cuts of   *)
(* unit n.                                                                 *)
PathsBefore(s, n) == UNION { {s[i][k] : k \in DOMAIN s[i]} : i \in 1 .. (n - 1) }
PathsOf(s, n, m)  == { s[n][k] : k \in 1 .. (m - 1) }

WholeOf(r, o) == r.done = Len(r.source) /\ o = AllPaths(r.source)

(* What the cuts o that are stored of the job r have to do with the place  *)
(* that its worker w is at.                                                *)
CutSoFar(r, w, o) ==
    /\ w.unit >= 1 /\ w.cut >= 1 /\ r.done = w.unit - 1
    /\ w.pc \in {"open", "begin"} => w.unit <= Len(r.source) + 1
    /\ w.pc \in {"cut", "store"} => w.unit <= Len(r.source)
    /\ w.pc # "store" => w.cut = 1 /\ o = PathsBefore(r.source, w.unit)
    /\ w.pc = "store" => /\ w.cut <= Len(r.source[w.unit]) + 1
                         /\ o = PathsBefore(r.source, w.unit) \cup PathsOf(r.source, w.unit, w.cut)

WorkHolds(r, w, o) ==
    /\ r.status \notin {"none", "pending", "completed"}
    /\ w.pc \in {"open", "begin", "cut", "store"} => CutSoFar(r, w, o)
    /\ w.pc = "finish" => WholeOf(r, o) \/ r.status \in {"failed", "cancelled"}
    /\ w.pc = "end" /\ w.completes => WholeOf(r, o)

JobHolds(r, o) ==
    /\ r.deleted => r.status \in Terminal
    /\ r.status \in {"none", "pending"} => r.done = 0 /\ o = {}
    /\ r.status = "completed" => WholeOf(r, o)

WorkersHold == \A a \in App :
    /\ worker[a].pc = "idle" => worker[a] = IdleWorker
    /\ worker[a].pc # "idle" => Mine(a) \in Job /\ WorkHolds(job[Mine(a)], worker[a], output[Mine(a)])
JobsHold == \A j \in Job : JobHolds(job[j], output[j])

(* What a request looked past is over, while it is handled and afterwards. *)
OverFor(S) == \A j \in S : job[j].status \in Terminal
Creating   == \A q \in Request : OverFor(request[q].seen)
Created    == \A k \in Job : OverFor(looked[k])

IInv == TypeOK /\ WorkersHold /\ ClaimedOnce /\ JobsHold /\ Creating /\ Created

-----------------------------------------------------------------------------
(* Sources                                                                 *)

LEMMA Lengths ==
    ASSUME NEW s \in Source
    PROVE  /\ Len(s) \in Nat /\ DOMAIN s = 1 .. Len(s)
           /\ \A n \in 1 .. Len(s) : /\ s[n] \in Seq(Path) /\ Len(s[n]) \in Nat /\ DOMAIN s[n] = 1 .. Len(s[n])
                                     /\ \A k \in 1 .. Len(s[n]) : s[n][k] \in Path
  BY SourceAssumption

LEMMA NoPaths ==
    ASSUME NEW s \in Source
    PROVE  PathsBefore(s, 1) = {}
  BY DEF PathsBefore

LEMMA NextPath ==
    ASSUME NEW s \in Source, NEW n \in 1 .. Len(s), NEW m \in 1 .. Len(s[n])
    PROVE  PathsOf(s, n, m + 1) = PathsOf(s, n, m) \cup {s[n][m]}
  BY Lengths DEF PathsOf

LEMMA NoPathsOf ==
    ASSUME NEW s \in Source, NEW n \in 1 .. Len(s)
    PROVE  PathsOf(s, n, 1) = {}
  BY DEF PathsOf

LEMMA NextPaths ==
    ASSUME NEW s \in Source, NEW n \in 1 .. Len(s)
    PROVE  PathsBefore(s, n + 1) = PathsBefore(s, n) \cup PathsOf(s, n, Len(s[n]) + 1)
<1>1. PathsOf(s, n, Len(s[n]) + 1) = {s[n][k] : k \in DOMAIN s[n]}
  BY Lengths DEF PathsOf
<1>2. 1 .. ((n + 1) - 1) = 1 .. (n - 1) \cup {n}
  BY Lengths
<1>3. PathsBefore(s, n + 1) = UNION { {s[i][k] : k \in DOMAIN s[i]} : i \in 1 .. (n - 1) \cup {n} }
  BY <1>2 DEF PathsBefore
<1> QED
  BY <1>1, <1>3 DEF PathsBefore

LEMMA LastPaths ==
    ASSUME NEW s \in Source
    PROVE  PathsBefore(s, Len(s) + 1) = AllPaths(s)
<1>1. 1 .. ((Len(s) + 1) - 1) = DOMAIN s
  BY Lengths
<1> QED
  BY <1>1 DEF PathsBefore, AllPaths

-----------------------------------------------------------------------------
(* Steps                                                                   *)

(* The values that rows, workers and requests start from.                 *)
LEMMA Constants ==
    /\ NoRow \in Jobs /\ IdleWorker \in Workers /\ IdleRequest \in Requests /\ NoJob \notin Job
  BY UserAssumption, SourceAssumption, JobAssumption
     DEF SomeUser, NoRow, Jobs, IdleWorker, Workers, IdleRequest, Requests, NoJob

LEMMA StaysOverFor ==
    ASSUME IInv, \A k \in Job : job[k].status \in Terminal => job'[k].status \in Terminal,
           UNCHANGED <<request, looked>>
    PROVE  Creating' /\ Created'
  BY DEF IInv, TypeOK, Requests, Creating, Created, OverFor

(* A worker changes its job's row, its cuts and itself.                    *)
LEMMA WorkerStep ==
    ASSUME IInv, NEW a \in App, NEW j \in Job, NEW r \in Jobs, NEW w \in Workers, NEW o \in SUBSET Path,
           job' = [job EXCEPT ![j] = r], worker' = [worker EXCEPT ![a] = w], output' = [output EXCEPT ![j] = o],
           UNCHANGED <<request, looked, crashes>>,
           \A b \in App : Mine(b) = j => b = a,
           job[j].status \in Terminal => r.status \in Terminal, JobHolds(r, o),
           w = IdleWorker \/ (w.pc # "idle" /\ w.job = j /\ WorkHolds(r, w, o))
    PROVE  IInv'
<1>1. TypeOK'
  BY DEF IInv, TypeOK
<1>2. WorkersHold'
  <2> SUFFICES ASSUME NEW b \in App
               PROVE  /\ worker'[b].pc = "idle" => worker'[b] = IdleWorker
                      /\ worker'[b].pc # "idle" => worker'[b].job \in Job
                            /\ WorkHolds(job'[worker'[b].job], worker'[b], output'[worker'[b].job])
    BY DEF WorkersHold, Mine
  <2>1. CASE b = a
    BY <2>1 DEF IInv, TypeOK, IdleWorker
  <2>2. CASE b # a
    <3>1. worker'[b] = worker[b] /\ worker[b].job # j
      BY <2>2 DEF IInv, TypeOK, Mine
    <3> QED
      BY <3>1 DEF IInv, TypeOK, WorkersHold, Mine
  <2> QED
    BY <2>1, <2>2
<1>3. ClaimedOnce'
  <2>1. \A b \in App : worker'[b].job = IF b = a THEN w.job ELSE worker[b].job
    BY DEF IInv, TypeOK
  <2>2. w.job \in {NoJob, j}
    BY DEF IdleWorker
  <2> QED
    BY <2>1, <2>2 DEF IInv, ClaimedOnce, Mine
<1>4. JobsHold'
  BY DEF IInv, TypeOK, JobsHold
<1>5. \A k \in Job : job[k].status \in Terminal => job'[k].status \in Terminal
  BY DEF IInv, TypeOK
<1>6. Creating' /\ Created'
  BY <1>5, StaysOverFor DEF IInv
<1> QED
  BY <1>1, <1>2, <1>3, <1>4, <1>6 DEF IInv

(* A request changes a row that its worker, if any, can live with.         *)
LEMMA RowStep ==
    ASSUME IInv, NEW j \in Job, NEW r \in Jobs, job' = [job EXCEPT ![j] = r], UNCHANGED <<output, worker>>,
           JobHolds(r, output[j]),
           \A a \in App : worker[a].pc # "idle" /\ Mine(a) = j => WorkHolds(r, worker[a], output[j])
    PROVE  job' \in [Job -> Jobs] /\ WorkersHold' /\ ClaimedOnce' /\ JobsHold'
<1>1. WorkersHold'
  <2> SUFFICES ASSUME NEW a \in App
               PROVE  /\ worker[a].pc = "idle" => worker[a] = IdleWorker
                      /\ worker[a].pc # "idle" => Mine(a) \in Job /\ WorkHolds(job'[Mine(a)], worker[a], output[Mine(a)])
    BY DEF WorkersHold, Mine
  <2>1. CASE Mine(a) = j
    BY <2>1 DEF IInv, TypeOK, WorkersHold
  <2>2. CASE Mine(a) # j
    BY <2>2 DEF IInv, TypeOK, WorkersHold
  <2> QED
    BY <2>1, <2>2
<1>2. ClaimedOnce'
  BY DEF IInv, ClaimedOnce, Mine
<1>3. job' \in [Job -> Jobs] /\ JobsHold'
  BY DEF IInv, TypeOK, JobsHold
<1> QED
  BY <1>1, <1>2, <1>3

(* What a busy worker has and an idle one has not.                         *)
LEMMA Busy ==
    ASSUME IInv, NEW a \in App, worker[a].pc # "idle"
    PROVE  /\ Mine(a) \in Job /\ job[Mine(a)] \in Jobs /\ worker[a] \in Workers /\ output[Mine(a)] \in SUBSET Path
           /\ WorkHolds(job[Mine(a)], worker[a], output[Mine(a)]) /\ JobHolds(job[Mine(a)], output[Mine(a)])
           /\ \A b \in App : Mine(b) = Mine(a) => b = a
  BY Constants DEF IInv, TypeOK, WorkersHold, JobsHold, ClaimedOnce, Mine

(* The steps of a worker that leave its job's row and cuts alone.          *)
LEMMA GoesStep ==
    ASSUME IInv, NEW a \in App, worker[a].pc # "idle", NEW w \in Workers, worker' = [worker EXCEPT ![a] = w],
           w = IdleWorker \/ (w.pc # "idle" /\ w.job = Mine(a) /\ WorkHolds(job[Mine(a)], w, output[Mine(a)])),
           UNCHANGED <<job, output, request, looked, crashes>>
    PROVE  IInv'
<1>1. job' = [job EXCEPT ![Mine(a)] = job[Mine(a)]] /\ output' = [output EXCEPT ![Mine(a)] = output[Mine(a)]]
  BY DEF IInv, TypeOK
<1> QED
  BY <1>1, Busy, WorkerStep

LEMMA ClaimsKeeps ==
    ASSUME IInv, NEW a \in App, Claims(a)
    PROVE  IInv'
<1> DEFINE j == NextOf(Pending)
           r == [job[j] EXCEPT !.status = "running"]
           w == [IdleWorker EXCEPT !.pc = "open", !.job = j]
<1>1. j \in Job /\ job[j].status = "pending" /\ ~job[j].deleted /\ worker[a].pc = "idle" /\ job[j] \in Jobs
  BY DEF Claims, Pending, IInv, TypeOK
<1>2. /\ job' = [job EXCEPT ![j] = r] /\ worker' = [worker EXCEPT ![a] = w]
      /\ output' = [output EXCEPT ![j] = output[j]] /\ UNCHANGED <<request, looked, crashes>>
  BY DEF Claims, IInv, TypeOK
<1> HIDE DEF j
<1>3. r \in Jobs /\ w \in Workers /\ output[j] \in SUBSET Path
  BY <1>1 DEF Jobs, Active, Terminal, Workers, IdleWorker, IInv, TypeOK
<1>4. \A b \in App : Mine(b) = j => b = a
  BY <1>1, Constants DEF IInv, WorkersHold, WorkHolds, Mine, IdleWorker
<1>5. JobHolds(r, output[j]) /\ job[j].status \notin Terminal
  BY <1>1 DEF JobHolds, Jobs, Active, Terminal, IInv, JobsHold
<1>6. job[j].source \in Source /\ job[j].done = 0 /\ output[j] = {}
  BY <1>1 DEF IInv, JobsHold, JobHolds, Jobs
<1>7. w.pc = "open" /\ w.job = j /\ WorkHolds(r, w, output[j])
  BY <1>1, <1>6, NoPaths, Lengths DEF WorkHolds, CutSoFar, IdleWorker, Jobs
<1> QED
  BY <1>1, <1>2, <1>3, <1>4, <1>5, <1>7, WorkerStep

LEMMA OpensKeeps ==
    ASSUME IInv, NEW a \in App, Opens(a)
    PROVE  IInv'
<1> DEFINE j == Mine(a)
<1>1. worker[a].pc = "open"
  BY DEF Opens
<1>2. j \in Job /\ job[j] \in Jobs /\ worker[a] \in Workers /\ output[j] \in SUBSET Path
      /\ WorkHolds(job[j], worker[a], output[j]) /\ JobHolds(job[j], output[j]) /\ \A b \in App : Mine(b) = j => b = a
  BY <1>1, Busy
<1> HIDE DEF j
<1>3. output' = [output EXCEPT ![j] = output[j]] /\ UNCHANGED <<request, looked, crashes>>
  BY DEF Opens, IInv, TypeOK
<1>4. CASE job' = [job EXCEPT ![j] = Opened(@)] /\ Goes(a, "begin")
  <2> DEFINE r == Opened(job[j])
             w == [worker[a] EXCEPT !.pc = "begin"]
  <2>1. r \in Jobs /\ r.status = job[j].status /\ r.source = job[j].source /\ r.done = job[j].done
        /\ r.deleted = job[j].deleted
    BY <1>2, Lengths DEF Opened, Units, Jobs
  <2>2. w \in Workers /\ w.pc = "begin" /\ w.job = j /\ w.unit = worker[a].unit /\ w.cut = worker[a].cut
    BY <1>2 DEF Workers, j, Mine
  <2>3. job' = [job EXCEPT ![j] = r] /\ worker' = [worker EXCEPT ![a] = w]
    BY <1>4 DEF Goes
  <2> HIDE DEF r, w
  <2>4. JobHolds(r, output[j]) /\ WorkHolds(r, w, output[j])
    BY <1>1, <1>2, <2>1, <2>2 DEF JobHolds, WorkHolds, CutSoFar, WholeOf
  <2> QED
    BY <1>2, <1>3, <2>1, <2>2, <2>3, <2>4, WorkerStep
<1>5. CASE job' = [job EXCEPT ![j].status = "failed"] /\ Ends(a)
  <2> DEFINE r == [job[j] EXCEPT !.status = "failed"]
  <2>1. r \in Jobs /\ r.status \in Terminal /\ JobHolds(r, output[j])
    BY <1>2 DEF Jobs, Active, Terminal, JobHolds
  <2>2. job' = [job EXCEPT ![j] = r] /\ worker' = [worker EXCEPT ![a] = IdleWorker]
    BY <1>5 DEF Ends
  <2> HIDE DEF r
  <2> QED
    BY <1>2, <1>3, <2>1, <2>2, Constants, WorkerStep
<1>6. CASE UNCHANGED job /\ Ends(a)
  BY <1>1, <1>6, Constants, GoesStep DEF Opens, Ends
<1> QED
  BY <1>4, <1>5, <1>6 DEF Opens, j

LEMMA BeginsKeeps ==
    ASSUME IInv, NEW a \in App, Begins(a)
    PROVE  IInv'
<1> DEFINE s == job[Mine(a)].source
<1>1. worker[a].pc = "begin" /\ UNCHANGED <<job, output, request, looked, crashes>>
  BY DEF Begins
<1>2. /\ job[Mine(a)] \in Jobs /\ worker[a] \in Workers /\ WorkHolds(job[Mine(a)], worker[a], output[Mine(a)])
      /\ s \in Source
  BY <1>1, Busy DEF Jobs
<1>3. CASE worker[a].unit > Len(s) \/ IsStopped(a)
  <2> DEFINE w == [worker[a] EXCEPT !.pc = "finish"]
  <2>1. worker' = [worker EXCEPT ![a] = w]
    BY <1>3 DEF Begins, Goes
  <2>2. w \in Workers /\ w.pc = "finish" /\ w.job = Mine(a)
    BY <1>2 DEF Workers, Mine
  <2>3. IsStopped(a) => job[Mine(a)].status \in {"failed", "cancelled"}
    BY <1>2 DEF IsStopped, Stopped, Jobs, Active, Terminal
  <2>4. worker[a].unit > Len(s) => WholeOf(job[Mine(a)], output[Mine(a)])
    <3> SUFFICES ASSUME worker[a].unit > Len(s)
                 PROVE  WholeOf(job[Mine(a)], output[Mine(a)])
      OBVIOUS
    <3>1. worker[a].unit = Len(s) + 1
      BY <1>1, <1>2, Lengths DEF WorkHolds, CutSoFar, Workers
    <3> QED
      BY <1>1, <1>2, <3>1, LastPaths, Lengths DEF WorkHolds, CutSoFar, WholeOf
  <2>5. WorkHolds(job[Mine(a)], w, output[Mine(a)])
    BY <1>2, <1>3, <2>2, <2>3, <2>4 DEF WorkHolds
  <2> QED
    BY <1>1, <2>1, <2>2, <2>5, GoesStep
<1>4. CASE ~(worker[a].unit > Len(s) \/ IsStopped(a))
  <2> DEFINE w == [worker[a] EXCEPT !.pc = "cut"]
  <2>1. worker' = [worker EXCEPT ![a] = w]
    BY <1>4 DEF Begins, Goes
  <2>2. w \in Workers /\ w.pc = "cut" /\ w.job = Mine(a) /\ w.unit = worker[a].unit /\ w.cut = worker[a].cut
    BY <1>2 DEF Workers, Mine
  <2> HIDE DEF w
  <2>3. WorkHolds(job[Mine(a)], w, output[Mine(a)])
    BY <1>1, <1>2, <1>4, <2>2, Lengths DEF WorkHolds, CutSoFar, Workers
  <2> QED
    BY <1>1, <2>1, <2>2, <2>3, GoesStep
<1> QED
  BY <1>3, <1>4

LEMMA CutsUnitKeeps ==
    ASSUME IInv, NEW a \in App, CutsUnit(a)
    PROVE  IInv'
<1> DEFINE w(pc) == [worker[a] EXCEPT !.pc = pc]
<1>1. worker[a].pc = "cut" /\ UNCHANGED <<job, output, request, looked, crashes>>
  BY DEF CutsUnit
<1>2. /\ job[Mine(a)] \in Jobs /\ worker[a] \in Workers /\ WorkHolds(job[Mine(a)], worker[a], output[Mine(a)])
      /\ job[Mine(a)].source \in Source
  BY <1>1, Busy DEF Jobs
<1>3. \A pc \in {"finish", "store", "except"} :
         /\ w(pc) \in Workers /\ w(pc).pc = pc /\ w(pc).job = Mine(a)
         /\ w(pc).unit = worker[a].unit /\ w(pc).cut = worker[a].cut
  BY <1>2 DEF Workers, Mine
<1>4. CASE IsStopped(a) /\ Goes(a, "finish")
  <2>1. job[Mine(a)].status \in {"failed", "cancelled"}
    BY <1>2, <1>4 DEF IsStopped, Stopped, Jobs, Active, Terminal
  <2>2. WorkHolds(job[Mine(a)], w("finish"), output[Mine(a)])
    BY <1>2, <1>3, <2>1 DEF WorkHolds
  <2> QED
    BY <1>1, <1>3, <1>4, <2>2, GoesStep DEF Goes
<1>5. CASE Goes(a, "store")
  <2>1. worker[a].unit \in 1 .. Len(job[Mine(a)].source) /\ worker[a].cut = 1
    BY <1>1, <1>2, Lengths DEF WorkHolds, CutSoFar, Workers
  <2>2. WorkHolds(job[Mine(a)], w("store"), output[Mine(a)])
    <3> DEFINE v == w("store")
    <3>1. v.pc = "store" /\ v.unit = worker[a].unit /\ v.cut = 1
      BY <1>3, <2>1
    <3> HIDE DEF v
    <3> DEFINE s == job[Mine(a)].source
    <3>3. PathsOf(s, worker[a].unit, 1) = {} /\ Len(s[worker[a].unit]) \in Nat
      BY <1>2, <2>1, NoPathsOf, Lengths
    <3>4. CutSoFar(job[Mine(a)], worker[a], output[Mine(a)]) /\ worker[a].unit <= Len(s)
      BY <1>1, <1>2, <2>1, Lengths DEF WorkHolds
    <3>5. CutSoFar(job[Mine(a)], v, output[Mine(a)])
      BY <1>1, <3>1, <3>3, <3>4 DEF CutSoFar
    <3>2. WorkHolds(job[Mine(a)], v, output[Mine(a)])
      BY <1>2, <3>1, <3>5 DEF WorkHolds
    <3> QED
      BY <3>2 DEF v
  <2> QED
    BY <1>1, <1>3, <1>5, <2>2, GoesStep DEF Goes
<1>6. CASE Goes(a, "except")
  <2>1. WorkHolds(job[Mine(a)], w("except"), output[Mine(a)])
    BY <1>2, <1>3 DEF WorkHolds
  <2> QED
    BY <1>1, <1>3, <1>6, <2>1, GoesStep DEF Goes
<1> QED
  BY <1>4, <1>5, <1>6 DEF CutsUnit

LEMMA StoresCutKeeps ==
    ASSUME IInv, NEW a \in App, StoresCut(a)
    PROVE  IInv'
<1> DEFINE j == Mine(a)
           s == job[j].source
           n == worker[a].unit
           m == worker[a].cut
           path == Cuts(a)[m]
<1>1. worker[a].pc = "store" /\ m <= Len(s[n]) /\ UNCHANGED <<request, looked, crashes>>
  BY DEF StoresCut, Cuts
<1>2. /\ j \in Job /\ job[j] \in Jobs /\ worker[a] \in Workers /\ output[j] \in SUBSET Path
      /\ WorkHolds(job[j], worker[a], output[j]) /\ JobHolds(job[j], output[j]) /\ \A b \in App : Mine(b) = j => b = a
      /\ s \in Source
  BY <1>1, Busy DEF Jobs
<1>3. n \in 1 .. Len(s) /\ m \in 1 .. Len(s[n]) /\ m \in Nat
  BY <1>1, <1>2, Lengths DEF WorkHolds, CutSoFar, Workers
<1>4. CASE /\ job' = [job EXCEPT ![j] = Registered(@, output[j], path)]
           /\ output' = [output EXCEPT ![j] = @ \cup {path}]
           /\ worker' = [worker EXCEPT ![a].cut = @ + 1]
  <2> DEFINE r == Registered(job[j], output[j], path)
             o == output[j] \cup {path}
             w == [worker[a] EXCEPT !.cut = @ + 1]
  <2>1. r \in Jobs /\ r.status = job[j].status /\ r.source = s /\ r.done = job[j].done
        /\ r.deleted = job[j].deleted
    BY <1>2 DEF Registered, Jobs
  <2>2. w \in Workers /\ w.pc = "store" /\ w.job = j /\ w.unit = n /\ w.cut = m + 1
    BY <1>1, <1>2 DEF Workers, Mine
  <2>3. path = s[n][m] /\ o \in SUBSET Path
    BY <1>2, <1>3, Lengths DEF Cuts
  <2>4. job' = [job EXCEPT ![j] = r] /\ worker' = [worker EXCEPT ![a] = w] /\ output' = [output EXCEPT ![j] = o]
    BY <1>4
  <2>5. o = PathsBefore(s, n) \cup PathsOf(s, n, m + 1)
    <3>1. output[j] = PathsBefore(s, n) \cup PathsOf(s, n, m)
      BY <1>1, <1>2 DEF WorkHolds, CutSoFar
    <3>2. PathsOf(s, n, m + 1) = PathsOf(s, n, m) \cup {s[n][m]}
      <4> HIDE DEF s, n, m
      <4> QED
        BY <1>2, <1>3, NextPath
    <3> QED
      BY <2>3, <3>1, <3>2
  <2>6. job[j].status \notin {"none", "pending", "completed"}
    BY <1>2 DEF WorkHolds
  <2> HIDE DEF r, o, w, path
  <2>7. WorkHolds(r, w, o)
    <3>1. job[j].done = n - 1 /\ n \in Nat /\ n >= 1 /\ n <= Len(s) /\ m + 1 >= 1 /\ m + 1 <= Len(s[n]) + 1
      <4>1. job[j].done = n - 1
        BY <1>1, <1>2 DEF WorkHolds, CutSoFar
      <4>2. Len(s) \in Nat /\ Len(s[n]) \in Nat
        BY <1>2, <1>3, Lengths
      <4> HIDE DEF j, s, n, m
      <4> QED
        BY <1>3, <4>1, <4>2
    <3> HIDE DEF j, n, m
    <3>2. CutSoFar(r, w, o)
      BY <2>1, <2>2, <2>5, <3>1 DEF CutSoFar
    <3> QED
      BY <2>1, <2>2, <2>6, <3>2 DEF WorkHolds
  <2>8. JobHolds(r, o)
    BY <1>2, <2>1, <2>6 DEF JobHolds
  <2> HIDE DEF j
  <2> QED
    BY <1>1, <1>2, <2>1, <2>2, <2>3, <2>4, <2>7, <2>8, WorkerStep
<1>5. CASE Goes(a, "except") /\ UNCHANGED <<job, output>>
  <2> DEFINE w == [worker[a] EXCEPT !.pc = "except"]
  <2>1. w \in Workers /\ w.pc = "except" /\ w.job = j
    BY <1>2 DEF Workers, Mine
  <2>2. WorkHolds(job[j], w, output[j])
    BY <1>2, <2>1 DEF WorkHolds
  <2> QED
    BY <1>1, <1>5, <2>1, <2>2, GoesStep DEF Goes
<1> QED
  BY <1>4, <1>5 DEF StoresCut

LEMMA StoresUnitKeeps ==
    ASSUME IInv, NEW a \in App, StoresUnit(a)
    PROVE  IInv'
<1> DEFINE j == Mine(a)
           s == job[j].source
           n == worker[a].unit
           r == [job[j] EXCEPT !.done = @ + 1]
           w == [worker[a] EXCEPT !.pc = "begin", !.unit = n + 1, !.cut = 1]
<1>1. worker[a].pc = "store" /\ worker[a].cut > Len(s[n]) /\ UNCHANGED <<output, request, looked, crashes>>
  BY DEF StoresUnit, Cuts
<1>2. /\ j \in Job /\ job[j] \in Jobs /\ worker[a] \in Workers /\ output[j] \in SUBSET Path
      /\ WorkHolds(job[j], worker[a], output[j]) /\ JobHolds(job[j], output[j]) /\ \A b \in App : Mine(b) = j => b = a
      /\ s \in Source
  BY <1>1, Busy DEF Jobs
<1>3. n \in 1 .. Len(s) /\ worker[a].cut = Len(s[n]) + 1
  BY <1>1, <1>2, Lengths DEF WorkHolds, CutSoFar, Workers
<1>4. output[j] = PathsBefore(s, n + 1)
  BY <1>1, <1>2, <1>3, NextPaths DEF WorkHolds, CutSoFar
<1>5. r \in Jobs /\ r.status = job[j].status /\ r.source = s /\ r.done = n
      /\ r.deleted = job[j].deleted
  <2>1. job[j].done = n - 1 /\ n \in Nat
    BY <1>1, <1>2, <1>3 DEF WorkHolds, CutSoFar
  <2> HIDE DEF n
  <2> QED
    BY <1>2, <2>1 DEF Jobs
<1>6. w \in Workers /\ w.pc = "begin" /\ w.job = j /\ w.unit = n + 1 /\ w.cut = 1
  <2>1. n + 1 \in Nat
    BY <1>3
  <2> HIDE DEF n
  <2> QED
    BY <1>2, <2>1 DEF Workers, Mine
<1>7. job' = [job EXCEPT ![j] = r] /\ worker' = [worker EXCEPT ![a] = w] /\ output' = [output EXCEPT ![j] = output[j]]
  BY <1>1 DEF StoresUnit, IInv, TypeOK
<1>8. job[j].status \notin {"none", "pending", "completed"}
  BY <1>2 DEF WorkHolds
<1> HIDE DEF r, w
<1>9. WorkHolds(r, w, output[j]) /\ JobHolds(r, output[j])
  BY <1>2, <1>3, <1>4, <1>5, <1>6, <1>8, Lengths DEF WorkHolds, CutSoFar, JobHolds
<1> HIDE DEF j
<1> QED
  BY <1>1, <1>2, <1>5, <1>6, <1>7, <1>9, WorkerStep

LEMMA ExceptsKeeps ==
    ASSUME IInv, NEW a \in App, Excepts(a)
    PROVE  IInv'
<1> DEFINE j == Mine(a)
           r == [job[j] EXCEPT !.status = "failed"]
<1>1. worker[a].pc = "except"
  BY DEF Excepts
<1>2. j \in Job /\ job[j] \in Jobs /\ output[j] \in SUBSET Path /\ JobHolds(job[j], output[j])
      /\ \A b \in App : Mine(b) = j => b = a
  BY <1>1, Busy
<1>3. r \in Jobs /\ r.status \in Terminal /\ JobHolds(r, output[j])
  BY <1>2 DEF Jobs, Active, Terminal, JobHolds
<1>4. /\ job' = [job EXCEPT ![j] = r] /\ worker' = [worker EXCEPT ![a] = IdleWorker]
      /\ output' = [output EXCEPT ![j] = output[j]] /\ UNCHANGED <<request, looked, crashes>>
  BY DEF Excepts, Ends, IInv, TypeOK
<1> HIDE DEF j, r
<1> QED
  BY <1>2, <1>3, <1>4, Constants, WorkerStep

LEMMA FinishReadsKeeps ==
    ASSUME IInv, NEW a \in App, FinishReads(a)
    PROVE  IInv'
<1> DEFINE c == Completes(job[Mine(a)])
           w == [worker[a] EXCEPT !.pc = "end", !.completes = c]
<1>1. worker[a].pc = "finish" /\ worker' = [worker EXCEPT ![a] = w] /\ UNCHANGED <<job, output, request, looked, crashes>>
  BY DEF FinishReads
<1>2. worker[a] \in Workers /\ WorkHolds(job[Mine(a)], worker[a], output[Mine(a)])
  BY <1>1, Busy
<1>3. c \in BOOLEAN
  BY DEF Completes
<1>4. c => job[Mine(a)].status \notin {"failed", "cancelled"}
  BY DEF Completes
<1> HIDE DEF c
<1>5. w \in Workers /\ w.pc = "end" /\ w.job = Mine(a) /\ w.completes = c
  BY <1>2, <1>3 DEF Workers, Mine
<1> HIDE DEF w
<1>6. WorkHolds(job[Mine(a)], w, output[Mine(a)])
  BY <1>1, <1>2, <1>4, <1>5 DEF WorkHolds
<1> QED
  BY <1>1, <1>5, <1>6, GoesStep

LEMMA FinishCommitsKeeps ==
    ASSUME IInv, NEW a \in App, FinishCommits(a)
    PROVE  IInv'
<1> DEFINE j == Mine(a)
<1>1. worker[a].pc = "end" /\ worker' = [worker EXCEPT ![a] = IdleWorker] /\ UNCHANGED <<output, request, looked, crashes>>
  BY DEF FinishCommits, Ends
<1>2. j \in Job /\ job[j] \in Jobs /\ output[j] \in SUBSET Path /\ JobHolds(job[j], output[j])
      /\ WorkHolds(job[j], worker[a], output[j]) /\ \A b \in App : Mine(b) = j => b = a
  BY <1>1, Busy
<1>3. CASE worker[a].completes
  <2> DEFINE r == [job[j] EXCEPT !.status = "completed"]
  <2>1. r \in Jobs /\ r.status \in Terminal /\ JobHolds(r, output[j])
    BY <1>1, <1>2, <1>3 DEF Jobs, Active, Terminal, JobHolds, WorkHolds, WholeOf
  <2>2. job' = [job EXCEPT ![j] = r] /\ output' = [output EXCEPT ![j] = output[j]]
    BY <1>3 DEF FinishCommits, IInv, TypeOK
  <2> HIDE DEF j, r
  <2> QED
    BY <1>1, <1>2, <2>1, <2>2, Constants, WorkerStep
<1>4. CASE ~worker[a].completes
  BY <1>1, <1>4, Constants, GoesStep DEF FinishCommits
<1> QED
  BY <1>3, <1>4

-----------------------------------------------------------------------------
(* Requests                                                                *)

LEMMA CreateReadsKeeps ==
    ASSUME IInv, NEW q \in Request, NEW u \in User, CreateReads(q, u)
    PROVE  IInv'
<1> DEFINE r == [IdleRequest EXCEPT !.pc = "create", !.by = u, !.seen = JobsOf(u)]
<1>1. /\ request' = [request EXCEPT ![q] = r] /\ ActiveOf(u) = {}
      /\ UNCHANGED <<job, output, worker, looked, crashes>>
  BY DEF CreateReads
<1>2. r \in Requests /\ r.seen = JobsOf(u)
  BY Constants DEF IdleRequest, Requests, JobsOf
<1>3. TypeOK'
  BY <1>1, <1>2 DEF IInv, TypeOK
<1>4. OverFor(JobsOf(u))
  BY <1>1 DEF OverFor, JobsOf, ActiveOf, Visible, IInv, TypeOK, Jobs, JobsHold, JobHolds, Active, Terminal
<1> HIDE DEF r
<1>5. Creating'
  BY <1>1, <1>2, <1>4 DEF IInv, TypeOK, Creating, OverFor
<1> QED
  BY <1>1, <1>3, <1>5 DEF IInv, WorkersHold, ClaimedOnce, JobsHold, Created, OverFor, Mine

LEMMA CreateCommitsKeeps ==
    ASSUME IInv, NEW q \in Request, CreateCommits(q)
    PROVE  IInv'
<1> DEFINE j == Oldest(Free)
           u == request[q].by
<1>1. /\ request[q].pc = "create" /\ j \in Job /\ job[j].status = "none" /\ u \in User
      /\ request' = [request EXCEPT ![q] = IdleRequest] /\ UNCHANGED <<output, worker, crashes>>
      /\ looked' = [looked EXCEPT ![j] = request[q].seen]
  BY DEF CreateCommits, Free, Answered, IInv, TypeOK, Requests
<1>2. PICK s \in Source : job' = [job EXCEPT ![j] = [NoRow EXCEPT !.status = "pending", !.by = u, !.source = s]]
  BY DEF CreateCommits
<1> DEFINE r == [NoRow EXCEPT !.status = "pending", !.by = u, !.source = s]
<1> HIDE DEF j, u
<1>3. /\ r \in Jobs /\ r.status = "pending" /\ ~r.deleted /\ r.done = 0
  BY <1>1, <1>2, Constants DEF Jobs, Active, NoRow
<1>4. job' = [job EXCEPT ![j] = r]
  BY <1>2
<1> HIDE DEF r
<1>5. JobHolds(r, output[j])
  BY <1>1, <1>3 DEF IInv, JobsHold, JobHolds
<1>6. \A a \in App : worker[a].pc # "idle" /\ Mine(a) = j => WorkHolds(r, worker[a], output[j])
  BY <1>1 DEF IInv, WorkersHold, WorkHolds
<1>7. job' \in [Job -> Jobs] /\ WorkersHold' /\ ClaimedOnce' /\ JobsHold'
  BY <1>1, <1>3, <1>4, <1>5, <1>6, RowStep
<1>8. TypeOK'
  BY <1>1, <1>7, Constants DEF IInv, TypeOK, Requests
<1>9. \A k \in Job : job[k].status \in Terminal => job'[k].status \in Terminal
  BY <1>1, <1>4 DEF IInv, TypeOK, Terminal
<1>10. Creating' /\ Created'
  <2>1. \A o \in Request : request'[o].seen \in {{}, request[o].seen}
    BY <1>1 DEF IdleRequest, IInv, TypeOK
  <2>2. \A k \in Job : looked'[k] \in {looked[k], request[q].seen}
    BY <1>1 DEF IInv, TypeOK
  <2> QED
    BY <1>9, <2>1, <2>2 DEF IInv, TypeOK, Requests, Creating, Created, OverFor
<1> QED
  BY <1>7, <1>8, <1>10 DEF IInv

LEMMA CancelReadsKeeps ==
    ASSUME IInv, NEW q \in Request, NEW u \in User, CancelReads(q, u)
    PROVE  IInv'
<1>1. PICK j \in Job : request' = [request EXCEPT ![q] = [IdleRequest EXCEPT !.pc = "cancel", !.by = u, !.job = j]]
  BY DEF CancelReads, ActiveOf
<1> DEFINE r == [IdleRequest EXCEPT !.pc = "cancel", !.by = u, !.job = j]
<1>2. UNCHANGED <<job, output, worker, looked, crashes>>
  BY DEF CancelReads
<1>3. r \in Requests /\ r.seen = {}
  BY Constants DEF IdleRequest, Requests
<1>4. TypeOK' /\ Creating'
  BY <1>1, <1>2, <1>3 DEF IInv, TypeOK, Creating, OverFor
<1> QED
  BY <1>2, <1>4 DEF IInv, WorkersHold, ClaimedOnce, JobsHold, Created, OverFor, Mine

(* A row that is over, whatever it was, and a request that is answered.    *)
LEMMA OverStep ==
    ASSUME IInv, NEW j \in Job, NEW r \in Jobs, job' = [job EXCEPT ![j] = r], UNCHANGED <<output, worker, looked, crashes>>,
           request' \in [Request -> Requests], \A q \in Request : request'[q].seen \subseteq request[q].seen,
           r.status \in Terminal, r.status = "completed" => job[j].status = "completed",
           r.source = job[j].source, r.done = job[j].done,
           job[j].status = r.status \/ r.status = "cancelled"
    PROVE  IInv'
<1>1. JobHolds(r, output[j])
  BY DEF IInv, JobsHold, JobHolds, Terminal, WholeOf
<1>2. \A a \in App : worker[a].pc # "idle" /\ Mine(a) = j => WorkHolds(r, worker[a], output[j])
  <2> SUFFICES ASSUME NEW a \in App, worker[a].pc # "idle", Mine(a) = j
               PROVE  WorkHolds(r, worker[a], output[j])
    OBVIOUS
  <2>1. WorkHolds(job[j], worker[a], output[j])
    BY DEF IInv, WorkersHold
  <2> QED
    BY <2>1 DEF WorkHolds, CutSoFar, WholeOf, Terminal
<1>3. job' \in [Job -> Jobs] /\ WorkersHold' /\ ClaimedOnce' /\ JobsHold'
  BY <1>1, <1>2, RowStep
<1>4. TypeOK'
  BY <1>3 DEF IInv, TypeOK
<1>5. \A k \in Job : job[k].status \in Terminal => job'[k].status \in Terminal
  BY DEF IInv, TypeOK
<1>6. Creating' /\ Created'
  BY <1>5 DEF IInv, TypeOK, Requests, Creating, Created, OverFor
<1> QED
  BY <1>3, <1>4, <1>6 DEF IInv

LEMMA CancelCommitsKeeps ==
    ASSUME IInv, NEW q \in Request, CancelCommits(q)
    PROVE  IInv'
<1> DEFINE j == request[q].job
           r == [job[j] EXCEPT !.status = "cancelled"]
<1>1. /\ job' = [job EXCEPT ![j] = r] /\ request' = [request EXCEPT ![q] = IdleRequest]
      /\ UNCHANGED <<output, worker, looked, crashes>>
  BY DEF CancelCommits, Cancelled, Answered
<1>2. request' \in [Request -> Requests] /\ \A o \in Request : request'[o].seen \subseteq request[o].seen
  BY <1>1, Constants DEF IInv, TypeOK, IdleRequest
<1>3. CASE j \in Job
  <2>1. /\ r \in Jobs /\ r.status = "cancelled" /\ r.source = job[j].source /\ r.done = job[j].done
        /\ "cancelled" \in Terminal
    BY <1>3 DEF IInv, TypeOK, Jobs, Terminal
  <2> HIDE DEF j, r
  <2> QED
    BY <1>1, <1>2, <1>3, <2>1, OverStep
<1>4. CASE j \notin Job
  <2>1. job' = job
    BY <1>1, <1>4 DEF IInv, TypeOK
  <2> QED
    BY <1>1, <1>2, <2>1 DEF IInv, TypeOK, WorkersHold, ClaimedOnce, JobsHold, Creating, Created, OverFor, Mine
<1> QED
  BY <1>3, <1>4

LEMMA DeletesKeeps ==
    ASSUME IInv, NEW u \in User, Deletes(u)
    PROVE  IInv'
<1>1. PICK j \in Job : job[j].status \in Terminal /\ job' = [job EXCEPT ![j].deleted = TRUE]
  BY DEF Deletes, Deletable
<1> DEFINE r == [job[j] EXCEPT !.deleted = TRUE]
<1>2. /\ r \in Jobs /\ r.status = job[j].status /\ r.source = job[j].source /\ r.done = job[j].done
      /\ job' = [job EXCEPT ![j] = r]
  BY <1>1 DEF IInv, TypeOK, Jobs
<1>3. UNCHANGED <<output, worker, looked, crashes>> /\ request' = request /\ request \in [Request -> Requests]
  BY DEF Deletes, IInv, TypeOK
<1> HIDE DEF r
<1> QED
  BY <1>1, <1>2, <1>3, OverStep

LEMMA CrashKeeps ==
    ASSUME IInv, NEW a \in App, Crash(a)
    PROVE  IInv'
<1>1. PICK lost \in SUBSET Request : request' = [q \in Request |-> IF q \in lost THEN IdleRequest ELSE request[q]]
  BY DEF Crash
<1>2. worker' = [worker EXCEPT ![a] = IdleWorker] /\ crashes' = crashes + 1 /\ crashes < MaxCrashes /\ UNCHANGED <<job, output, looked>>
  BY DEF Crash, Ends
<1>3. TypeOK'
  BY <1>1, <1>2, Constants, BoundsAssumption DEF IInv, TypeOK
<1>4. WorkersHold' /\ ClaimedOnce'
  BY <1>2, Constants DEF IInv, TypeOK, WorkersHold, ClaimedOnce, Mine, IdleWorker
<1>5. Creating' /\ Created'
  BY <1>1, <1>2 DEF IInv, Creating, Created, OverFor, IdleRequest
<1> QED
  BY <1>2, <1>3, <1>4, <1>5 DEF IInv, JobsHold

-----------------------------------------------------------------------------
LEMMA InitHolds == Init => IInv
<1> SUFFICES ASSUME Init PROVE IInv
  OBVIOUS
<1>1. TypeOK
  BY Constants, BoundsAssumption DEF Init, TypeOK
<1>2. WorkersHold /\ ClaimedOnce
  BY DEF Init, WorkersHold, ClaimedOnce, Mine, IdleWorker
<1>3. JobsHold /\ Creating /\ Created
  BY DEF Init, JobsHold, JobHolds, Creating, Created, OverFor, NoRow, IdleRequest
<1> QED
  BY <1>1, <1>2, <1>3 DEF IInv

LEMMA NextHolds == IInv /\ [Next]_vars => IInv'
<1> SUFFICES ASSUME IInv, [Next]_vars PROVE IInv'
  OBVIOUS
<1>1. ASSUME NEW q \in Request, NEW u \in User, Reads(q, u)
      PROVE  IInv'
  BY <1>1, CreateReadsKeeps, CancelReadsKeeps DEF Reads
<1>6. ASSUME NEW u \in User, Deletes(u)
      PROVE  IInv'
  BY <1>6, DeletesKeeps
<1>2. ASSUME NEW q \in Request, Commits(q)
      PROVE  IInv'
  BY <1>2, CreateCommitsKeeps, CancelCommitsKeeps DEF Commits
<1>3. ASSUME NEW a \in App, Works(a)
      PROVE  IInv'
  BY <1>3, ClaimsKeeps, OpensKeeps, BeginsKeeps, CutsUnitKeeps, StoresCutKeeps, StoresUnitKeeps, ExceptsKeeps,
     FinishReadsKeeps, FinishCommitsKeeps DEF Works
<1>4. ASSUME NEW a \in App, Crash(a)
      PROVE  IInv'
  BY <1>4, CrashKeeps
<1>5. CASE UNCHANGED vars
  BY <1>5 DEF vars, IInv, TypeOK, WorkersHold, ClaimedOnce, JobsHold, Creating, Created, OverFor, Mine
<1> QED
  BY <1>1, <1>2, <1>3, <1>4, <1>5, <1>6 DEF Next

LEMMA IInvHolds == Spec => []IInv
  BY InitHolds, NextHolds, PTL DEF Spec

(* Type correctness, whatever is created, cancelled, deleted and cut.      *)
THEOREM TypeCorrect == Spec => []TypeOK
<1>1. IInv => TypeOK
  BY DEF IInv
<1> QED
  BY <1>1, IInvHolds, PTL

(* A user's job that a request has looked past is over, and is not active  *)
(* beside the one the request stores: so that two active jobs of his were  *)
(* asked for at once, for any number of users, requests, jobs and workers  *)
(* and whatever a process that dies leaves behind (create_job).            *)
THEOREM OneActive == Spec => []OneActivePerUser
<1>1. IInv => OneActivePerUser
  <2>1. \A s \in Terminal : s \notin Active
    BY DEF Terminal, Active
  <2> QED
    BY <2>1 DEF IInv, Created, OverFor, OneActivePerUser
<1> QED
  BY <1>1, IInvHolds, PTL

(* No two workers ever work on one job (_pending_job_claim_statement).     *)
THEOREM OneWorker == Spec => []ClaimedOnce
<1>1. IInv => ClaimedOnce
  BY DEF IInv
<1> QED
  BY <1>1, IInvHolds, PTL

(* A completed job has all units and all cuts of its source, for sources   *)
(* of any length (process_job).                                            *)
THEOREM CompletedWhole == Spec => []CompletedIsWhole
<1>1. IInv => CompletedIsWhole
  BY DEF IInv, JobsHold, JobHolds, WholeOf, CompletedIsWhole
<1> QED
  BY <1>1, IInvHolds, PTL

(* A job that is over stays over, whatever its worker still writes.        *)
THEOREM StaysOver == Spec => StoppedForGood
<1>1. IInv /\ [Next]_vars => [\A j \in Job : job[j].status \in Terminal => job'[j].status \in Terminal]_vars
  <2> SUFFICES ASSUME IInv, [Next]_vars, NEW j \in Job, job[j].status \in Terminal
               PROVE  job'[j].status \in Terminal
    OBVIOUS
  <2>1. job[j].status \notin {"none", "pending"} /\ job \in [Job -> Jobs]
    BY DEF Terminal, IInv, TypeOK
  <2>2. ASSUME NEW q \in Request, NEW u \in User, Reads(q, u) \/ Commits(q)
        PROVE  job'[j].status \in Terminal
    <3>1. CASE Reads(q, u)
      BY <3>1 DEF Reads, CreateReads, CancelReads
    <3>3. CASE CreateCommits(q)
      <4>1. PICK r : job' = [job EXCEPT ![Oldest(Free)] = r]
        BY <3>3 DEF CreateCommits
      <4>2. Oldest(Free) # j
        BY <2>1, <3>3 DEF CreateCommits, Free
      <4> QED
        BY <2>1, <4>1, <4>2
    <3>4. CASE CancelCommits(q)
      BY <2>1, <3>4 DEF CancelCommits, Cancelled, Jobs, Terminal
    <3> QED
      BY <2>2, <3>1, <3>3, <3>4 DEF Commits
  <2>3. ASSUME NEW a \in App, Claims(a)
        PROVE  job'[j].status \in Terminal
    BY <2>1, <2>3 DEF Claims, Pending
  <2>4. ASSUME NEW a \in App, Opens(a)
        PROVE  job'[j].status \in Terminal
    BY <2>1, <2>4 DEF Opens, Opened, Jobs, Terminal
  <2>5. ASSUME NEW a \in App, StoresCut(a) \/ StoresUnit(a)
        PROVE  job'[j].status \in Terminal
    <3>1. CASE StoresUnit(a)
      BY <2>1, <3>1 DEF StoresUnit, Jobs
    <3>2. CASE StoresCut(a)
      <4> DEFINE r == Registered(job[Mine(a)], output[Mine(a)], Cuts(a)[worker[a].cut])
      <4>1. r.status = job[Mine(a)].status
        BY Busy, <3>2 DEF Registered, Jobs, StoresCut
      <4>2. job' = [job EXCEPT ![Mine(a)] = r] \/ job' = job
        BY <3>2 DEF StoresCut
      <4> HIDE DEF r
      <4> QED
        BY <2>1, <4>1, <4>2
    <3> QED
      BY <2>5, <3>1, <3>2
  <2>6. ASSUME NEW a \in App, Begins(a) \/ CutsUnit(a) \/ FinishReads(a) \/ Crash(a)
        PROVE  job'[j].status \in Terminal
    BY <2>6 DEF Begins, CutsUnit, FinishReads, Crash
  <2>7. ASSUME NEW a \in App, Excepts(a) \/ FinishCommits(a)
        PROVE  job'[j].status \in Terminal
    BY <2>1, <2>7 DEF Excepts, FinishCommits, Jobs, Terminal
  <2>8. CASE UNCHANGED vars
    BY <2>8 DEF vars
  <2> QED
    <3>1. ASSUME NEW q \in Request, Commits(q)
          PROVE  job'[j].status \in Terminal
      BY <2>2, <3>1, UserAssumption
    <3>2. ASSUME NEW u \in User, Deletes(u)
          PROVE  job'[j].status \in Terminal
      BY <2>1, <3>2 DEF Deletes, Jobs
    <3> QED
      BY <2>2, <2>3, <2>4, <2>5, <2>6, <2>7, <2>8, <3>1, <3>2 DEF Next, Works
<1> QED
  BY <1>1, IInvHolds, PTL DEF Spec, StoppedForGood
=============================================================================
