-------------------------- MODULE StudioPartsProofs ---------------------------
(***************************************************************************)
(* Proofs about the parts of the studio, for any number of tasks, admins,  *)
(* prompts, processes and requests at once.  One section per part gives    *)
(* its inductive invariant, what its initial states and its steps do to    *)
(* it, and what follows from it.  The images that jobs read come first,    *)
(* with the theorems of MediaAssets; what the others promise is stated in  *)
(* StudioProofs.                                                           *)
(***************************************************************************)
EXTENDS StudioParts, FiniteSetTheorems, WellFoundedInduction, TLAPS

-----------------------------------------------------------------------------
(* The images that jobs read: rows and running jobs find them, provided    *)
(* that no process dies within a move (between the deletion of a staging   *)
(* object and the commit) and that migrations keep their sources.          *)

(* Keys whose objects nothing deletes while a row points to them.          *)
Lasting == {"local", "legacy"} \cup Task

RowsKept    == \A a \in Asset : row[a] \in Lasting => <<a, row[a]>> \in objects
RowsStaged  == \A a \in Asset : row[a] = "staging" =>
                  <<a, "staging">> \in objects \/ \E t \in Task : disp[t].pc = "commit" /\ input[t] = a
MovesSafe   == \A t \in Task : /\ disp[t].pc \in {"delete", "commit"} => Target(t) \in objects
                               /\ disp[t].pc = "delete" => disp[t].from = "staging"
NoInput     == \A t \in Task : input[t] = None => disp[t] = NoDispatch /\ reads[t] = None
InputsExist == \A t \in Task : input[t] # None => row[input[t]] \notin NoRow
Unlinks     == \A a \in Asset : web[a] = "unlink" => row[a] = "deleted"
Stored      == \A a \in Asset : web[a] = "stored" => row[a] = None /\ <<a, "staging">> \in objects
MigTargets  == \A a \in Asset : mig.to[a] # None =>
                  /\ mig.to[a] \in Task \cup {"staging"} /\ row[a] # None
                  /\ a \notin mig.todo => <<a, mig.to[a]>> \in objects

(* An image that is local, or becomes staged by the migration under way,   *)
(* has never been staged before: no dispatch holds its staging key.        *)
Unstaged(a) == \A t \in Task : input[t] = a => disp[t].from # "staging"
LocalFresh  == \A a \in Asset : row[a] = "local" => Unstaged(a)
StagedFresh == \A a \in Asset : mig.to[a] = "staging" => row[a] # "staging" /\ Unstaged(a)
Planned     == \A a \in mig.todo : mig.to[a] # None
KeepsSource == mig.pc # "delete"
HandedOut   == \A t \in Task : reads[t] # "local"

(* What a row or a job points to is deleted only as a source in staging,   *)
(* by a dispatch whose copy is there and that commits its row next, or as  *)
(* a local file whose row is gone.                                         *)
IInv ==
    /\ TypeOK
    /\ RowsKept /\ RowsStaged /\ MovesSafe /\ NoInput /\ InputsExist
    /\ Unlinks /\ Stored /\ MigTargets /\ LocalFresh /\ StagedFresh /\ Planned
    /\ KeepsSource /\ HandedOut /\ InputsReadable

(* Migrations keep their sources, and no process dies between a deletion   *)
(* and its commit.                                                         *)
Assumed == ~DeleteSource /\ "diesMoving" \notin Faults

-----------------------------------------------------------------------------
(* A task is none of the keys with a name.                                 *)
LEMMA TaskNames ==
    ASSUME NEW t \in Task
    PROVE  t # "local" /\ t # "staging" /\ t # "legacy" /\ t # "none" /\ t # "deleted"
  BY TasksAreNamed DEF Stale, NoRow, None

LEMMA UploadsKeeps ==
    ASSUME Assumed, IInv, NEW a \in Asset, Uploads(a)
    PROVE  IInv'
<1> USE DEF Assumed, IInv
<1>0. \A x \in Task : x # "local" /\ x # "staging" /\ x # "legacy" /\ x # "none" /\ x # "deleted"
  BY TaskNames
<1>1. TypeOK'
  BY <1>0 DEF Uploads, TypeOK, Rows, Objects, Inputs, Key, Stale, None
<1>2. RowsKept'
  BY <1>0 DEF Uploads, TypeOK, RowsKept, Lasting, None
<1>3. RowsStaged'
  BY <1>0 DEF Uploads, TypeOK, RowsStaged, None
<1>4. MovesSafe'
  BY <1>0 DEF Uploads, TypeOK, MovesSafe, Target, None
<1>5. Unlinks'
  BY <1>0 DEF Uploads, TypeOK, Unlinks, None
<1>6. Stored'
  BY <1>0 DEF Uploads, TypeOK, Stored, None
<1>7. MigTargets'
  BY <1>0 DEF Uploads, TypeOK, MigTargets, None
<1>8. InputsReadable'
  BY <1>0 DEF Uploads, TypeOK, InputsReadable, None
<1>9. /\ NoInput' /\ InputsExist' /\ LocalFresh' /\ StagedFresh' /\ Planned'
      /\ KeepsSource' /\ HandedOut'
  BY DEF Uploads, NoInput, InputsExist, LocalFresh, StagedFresh, Planned,
      KeepsSource, HandedOut, NoDispatch, Unstaged
<1> QED
  BY <1>1, <1>2, <1>3, <1>4, <1>5, <1>6, <1>7, <1>8, <1>9

LEMMA UploadCommitsKeeps ==
    ASSUME Assumed, IInv, NEW a \in Asset, UploadCommits(a)
    PROVE  IInv'
<1> USE DEF Assumed, IInv
<1>0. \A x \in Task : x # "local" /\ x # "staging" /\ x # "legacy" /\ x # "none" /\ x # "deleted"
  BY TaskNames
<1>a. mig.to[a] = None
  BY <1>0 DEF UploadCommits, Stored, MigTargets
<1>1. TypeOK'
  BY <1>0, <1>a DEF UploadCommits, TypeOK, Rows, Key, Stale, None
<1>2. RowsKept'
  BY <1>0, <1>a DEF UploadCommits, TypeOK, RowsKept, Lasting, None
<1>3. RowsStaged'
  BY <1>0, <1>a DEF UploadCommits, TypeOK, RowsStaged, Unlinks, Stored, None
<1>4. InputsExist'
  BY <1>0, <1>a DEF UploadCommits, TypeOK, Rows, Objects, Inputs, InputsExist,
      Key, Stale, NoRow, None
<1>5. Unlinks'
  BY <1>0, <1>a DEF UploadCommits, TypeOK, Unlinks, None
<1>6. Stored'
  BY <1>0, <1>a DEF UploadCommits, TypeOK, Stored, None
<1>7. MigTargets'
  BY <1>0, <1>a DEF UploadCommits, TypeOK, MigTargets, None
<1>8. LocalFresh'
  BY <1>0, <1>a DEF UploadCommits, TypeOK, LocalFresh, Unstaged, None
<1>9. StagedFresh'
  BY <1>0, <1>a DEF UploadCommits, TypeOK, StagedFresh, Unstaged, MigTargets,
      Stored, None
<1>10. /\ MovesSafe' /\ NoInput' /\ Planned' /\ KeepsSource' /\ HandedOut'
       /\ InputsReadable'
  BY DEF UploadCommits, MovesSafe, NoInput, Planned, KeepsSource, HandedOut,
      InputsReadable, Target, NoDispatch
<1> QED
  BY <1>1, <1>2, <1>3, <1>4, <1>5, <1>6, <1>7, <1>8, <1>9, <1>10

LEMMA ClientPutsKeeps ==
    ASSUME Assumed, IInv, NEW a \in Asset, NEW t \in Task, ClientPuts(a, t)
    PROVE  IInv'
<1> USE DEF Assumed, IInv
<1>0. \A x \in Task : x # "local" /\ x # "staging" /\ x # "legacy" /\ x # "none" /\ x # "deleted"
  BY TaskNames
<1>1. TypeOK'
  BY <1>0 DEF ClientPuts, TypeOK, Objects, Inputs, Key, None
<1>2. RowsKept'
  BY <1>0 DEF ClientPuts, TypeOK, RowsKept, Lasting, None
<1>3. RowsStaged'
  BY <1>0 DEF ClientPuts, TypeOK, RowsStaged, None
<1>4. MovesSafe'
  BY <1>0 DEF ClientPuts, TypeOK, MovesSafe, Target, None
<1>5. Stored'
  BY <1>0 DEF ClientPuts, TypeOK, Stored, None
<1>6. MigTargets'
  BY <1>0 DEF ClientPuts, TypeOK, MigTargets, None
<1>7. InputsReadable'
  BY <1>0 DEF ClientPuts, TypeOK, InputsReadable, None
<1>8. /\ NoInput' /\ InputsExist' /\ Unlinks' /\ LocalFresh' /\ StagedFresh'
      /\ Planned' /\ KeepsSource' /\ HandedOut'
  BY DEF ClientPuts, NoInput, InputsExist, Unlinks, LocalFresh, StagedFresh,
      Planned, KeepsSource, HandedOut, NoDispatch, Unstaged
<1> QED
  BY <1>1, <1>2, <1>3, <1>4, <1>5, <1>6, <1>7, <1>8

LEMMA CompletesUploadKeeps ==
    ASSUME Assumed, IInv, NEW a \in Asset, NEW t \in Task, CompletesUpload(a, t)
    PROVE  IInv'
<1> USE DEF Assumed, IInv
<1>0. \A x \in Task : x # "local" /\ x # "staging" /\ x # "legacy" /\ x # "none" /\ x # "deleted"
  BY TaskNames
<1>1. TypeOK'
  BY <1>0 DEF CompletesUpload, TypeOK, Rows, Key, Stale, None
<1>2. RowsKept'
  BY <1>0 DEF CompletesUpload, TypeOK, RowsKept, Lasting, None
<1>3. RowsStaged'
  BY <1>0 DEF CompletesUpload, TypeOK, RowsStaged, None
<1>4. InputsExist'
  BY <1>0 DEF CompletesUpload, TypeOK, Rows, Objects, Inputs, InputsExist,
      Key, Stale, NoRow, None
<1>5. Unlinks'
  BY <1>0 DEF CompletesUpload, TypeOK, Unlinks, None
<1>6. Stored'
  BY <1>0 DEF CompletesUpload, TypeOK, Stored, None
<1>7. MigTargets'
  BY <1>0 DEF CompletesUpload, TypeOK, MigTargets, None
<1>8. LocalFresh'
  BY <1>0 DEF CompletesUpload, TypeOK, LocalFresh, Unstaged, None
<1>9. StagedFresh'
  BY <1>0 DEF CompletesUpload, TypeOK, StagedFresh, Unstaged, None
<1>10. /\ MovesSafe' /\ NoInput' /\ Planned' /\ KeepsSource' /\ HandedOut'
       /\ InputsReadable'
  BY DEF CompletesUpload, MovesSafe, NoInput, Planned, KeepsSource, HandedOut,
      InputsReadable, Target, NoDispatch
<1> QED
  BY <1>1, <1>2, <1>3, <1>4, <1>5, <1>6, <1>7, <1>8, <1>9, <1>10

LEMMA MakesDraftKeeps ==
    ASSUME Assumed, IInv, NEW a \in Asset, MakesDraft(a)
    PROVE  IInv'
<1> USE DEF Assumed, IInv
<1>0. \A x \in Task : x # "local" /\ x # "staging" /\ x # "legacy" /\ x # "none" /\ x # "deleted"
  BY TaskNames
<1>1. TypeOK'
  BY <1>0 DEF MakesDraft, TypeOK, None
<1>2. /\ RowsKept' /\ RowsStaged' /\ MovesSafe' /\ NoInput' /\ InputsExist'
      /\ Unlinks' /\ Stored' /\ MigTargets' /\ LocalFresh' /\ StagedFresh'
      /\ Planned' /\ KeepsSource' /\ HandedOut' /\ InputsReadable'
  BY DEF MakesDraft, RowsKept, RowsStaged, MovesSafe, NoInput, InputsExist,
      Unlinks, Stored, MigTargets, LocalFresh, StagedFresh, Planned,
      KeepsSource, HandedOut, InputsReadable, Lasting, Target, NoDispatch,
      Unstaged
<1> QED
  BY <1>1, <1>2

LEMMA MakesTaskKeeps ==
    ASSUME Assumed, IInv, NEW t \in Task, NEW a \in Asset, MakesTask(t, a)
    PROVE  IInv'
<1> USE DEF Assumed, IInv
<1>0. \A x \in Task : x # "local" /\ x # "staging" /\ x # "legacy" /\ x # "none" /\ x # "deleted"
  BY TaskNames
<1>1. TypeOK'
  BY <1>0 DEF MakesTask, DispatchAt, DispatchGoes, NoDispatch, TypeOK,
      Objects, Inputs, None
<1>2. RowsStaged'
  BY <1>0 DEF MakesTask, DispatchAt, DispatchGoes, NoDispatch, TypeOK,
      RowsStaged, NoInput, None
<1>3. MovesSafe'
  BY <1>0 DEF MakesTask, DispatchAt, DispatchGoes, NoDispatch, TypeOK,
      MovesSafe, Target, NoInput, None
<1>4. NoInput'
  BY <1>0 DEF MakesTask, DispatchAt, DispatchGoes, NoDispatch, TypeOK,
      NoInput, None
<1>5. InputsExist'
  BY <1>0 DEF MakesTask, DispatchAt, DispatchGoes, NoDispatch, TypeOK,
      InputsExist, None
<1>6. LocalFresh'
  BY <1>0 DEF MakesTask, DispatchAt, DispatchGoes, NoDispatch, TypeOK,
      LocalFresh, Unstaged, NoInput, None
<1>7. StagedFresh'
  BY <1>0 DEF MakesTask, DispatchAt, DispatchGoes, NoDispatch, TypeOK,
      StagedFresh, Unstaged, NoInput, None
<1>8. InputsReadable'
  BY <1>0 DEF MakesTask, DispatchAt, DispatchGoes, NoDispatch, TypeOK,
      InputsReadable, NoInput, Key, None
<1>9. /\ RowsKept' /\ Unlinks' /\ Stored' /\ MigTargets' /\ Planned'
      /\ KeepsSource' /\ HandedOut'
  BY DEF MakesTask, DispatchAt, DispatchGoes, NoDispatch, RowsKept, Unlinks,
      Stored, MigTargets, Planned, KeepsSource, HandedOut, Lasting
<1> QED
  BY <1>1, <1>2, <1>3, <1>4, <1>5, <1>6, <1>7, <1>8, <1>9

LEMMA CleanupLooksKeeps ==
    ASSUME Assumed, IInv, NEW a \in Asset, CleanupLooks(a)
    PROVE  IInv'
<1> USE DEF Assumed, IInv
<1>0. \A x \in Task : x # "local" /\ x # "staging" /\ x # "legacy" /\ x # "none" /\ x # "deleted"
  BY TaskNames
<1>1. TypeOK'
  BY <1>0 DEF CleanupLooks, TypeOK, None
<1>2. Unlinks'
  BY <1>0 DEF CleanupLooks, TypeOK, Unlinks, None
<1>3. Stored'
  BY <1>0 DEF CleanupLooks, TypeOK, Stored, None
<1>4. /\ RowsKept' /\ RowsStaged' /\ MovesSafe' /\ NoInput' /\ InputsExist'
      /\ MigTargets' /\ LocalFresh' /\ StagedFresh' /\ Planned' /\ KeepsSource'
      /\ HandedOut' /\ InputsReadable'
  BY DEF CleanupLooks, RowsKept, RowsStaged, MovesSafe, NoInput, InputsExist,
      MigTargets, LocalFresh, StagedFresh, Planned, KeepsSource, HandedOut,
      InputsReadable, Lasting, Target, NoDispatch, Unstaged
<1> QED
  BY <1>1, <1>2, <1>3, <1>4

LEMMA CleanupDeletesKeeps ==
    ASSUME Assumed, IInv, NEW a \in Asset, CleanupDeletes(a)
    PROVE  IInv'
<1> USE DEF Assumed, IInv
<1>0. \A x \in Task : x # "local" /\ x # "staging" /\ x # "legacy" /\ x # "none" /\ x # "deleted"
  BY TaskNames
<1>1. TypeOK'
  BY <1>0 DEF CleanupDeletes, Deleted, Tasks, TypeOK, Rows, Objects, Inputs,
      Key, Stale, NoRow, None
<1>2. RowsKept'
  BY <1>0 DEF CleanupDeletes, Deleted, Tasks, TypeOK, Rows, RowsKept, Lasting,
      Stale, None
<1>3. RowsStaged'
  BY <1>0, SMTT(30) DEF CleanupDeletes, Deleted, Tasks, TypeOK, Rows,
      RowsStaged, Stale, None
<1>4. InputsExist'
  BY <1>0 DEF CleanupDeletes, Deleted, Tasks, TypeOK, Rows, Objects, Inputs,
      InputsExist, Stale, None
<1>5. Unlinks'
  BY <1>0 DEF CleanupDeletes, Deleted, Tasks, TypeOK, Rows, Unlinks, Stale,
      None
<1>6. Stored'
  BY <1>0 DEF CleanupDeletes, Deleted, Tasks, TypeOK, Rows, Stored, Stale,
      None
<1>7. MigTargets'
  BY <1>0 DEF CleanupDeletes, Deleted, Tasks, TypeOK, Rows, MigTargets, Stale,
      None
<1>8. LocalFresh'
  BY <1>0 DEF CleanupDeletes, Deleted, Tasks, TypeOK, Rows, LocalFresh,
      Unstaged, Stale, None
<1>9. StagedFresh'
  BY <1>0 DEF CleanupDeletes, Deleted, Tasks, TypeOK, Rows, StagedFresh,
      Unstaged, Stale, None
<1>10. /\ MovesSafe' /\ NoInput' /\ Planned' /\ KeepsSource' /\ HandedOut'
       /\ InputsReadable'
  BY DEF CleanupDeletes, Deleted, Tasks, MovesSafe, NoInput, Planned,
      KeepsSource, HandedOut, InputsReadable, Target, NoDispatch
<1> QED
  BY <1>1, <1>2, <1>3, <1>4, <1>5, <1>6, <1>7, <1>8, <1>9, <1>10

LEMMA CleanupUnlinksKeeps ==
    ASSUME Assumed, IInv, NEW a \in Asset, CleanupUnlinks(a)
    PROVE  IInv'
<1> USE DEF Assumed, IInv
<1>0. \A x \in Task : x # "local" /\ x # "staging" /\ x # "legacy" /\ x # "none" /\ x # "deleted"
  BY TaskNames
<1>1. TypeOK'
  BY <1>0 DEF CleanupUnlinks, TypeOK, None
<1>2. RowsKept'
  BY <1>0 DEF CleanupUnlinks, TypeOK, RowsKept, Lasting, Unlinks, Stored, None
<1>3. RowsStaged'
  BY <1>0 DEF CleanupUnlinks, TypeOK, RowsStaged, None
<1>4. MovesSafe'
  BY <1>0 DEF CleanupUnlinks, TypeOK, MovesSafe, Target, None
<1>5. Unlinks'
  BY <1>0 DEF CleanupUnlinks, TypeOK, Unlinks, None
<1>6. Stored'
  BY <1>0 DEF CleanupUnlinks, TypeOK, Stored, None
<1>7. MigTargets'
  BY <1>0 DEF CleanupUnlinks, TypeOK, MigTargets, None
<1>8. InputsReadable'
  BY <1>0 DEF CleanupUnlinks, TypeOK, InputsReadable, HandedOut, None
<1>9. /\ NoInput' /\ InputsExist' /\ LocalFresh' /\ StagedFresh' /\ Planned'
      /\ KeepsSource' /\ HandedOut'
  BY DEF CleanupUnlinks, NoInput, InputsExist, LocalFresh, StagedFresh,
      Planned, KeepsSource, HandedOut, NoDispatch, Unstaged
<1> QED
  BY <1>1, <1>2, <1>3, <1>4, <1>5, <1>6, <1>7, <1>8, <1>9

LEMMA DispatchReadsKeeps ==
    ASSUME Assumed, IInv, NEW t \in Task, DispatchReads(t)
    PROVE  IInv'
<1> USE DEF Assumed, IInv
<1>0. \A x \in Task : x # "local" /\ x # "staging" /\ x # "legacy" /\ x # "none" /\ x # "deleted"
  BY TaskNames
<1>1. TypeOK'
  BY <1>0 DEF DispatchReads, DispatchAt, DispatchGoes, NoDispatch, TypeOK,
      Rows, Objects, Inputs, Stale, None
<1>2. RowsStaged'
  BY <1>0 DEF DispatchReads, DispatchAt, DispatchGoes, NoDispatch, TypeOK,
      RowsStaged, None
<1>3. MovesSafe'
  BY <1>0 DEF DispatchReads, DispatchAt, DispatchGoes, NoDispatch, TypeOK,
      MovesSafe, Target, None
<1>4. NoInput'
  BY <1>0 DEF DispatchReads, DispatchAt, DispatchGoes, NoDispatch, TypeOK,
      NoInput, None
<1>5. LocalFresh'
  BY <1>0 DEF DispatchReads, DispatchAt, DispatchGoes, NoDispatch, TypeOK,
      LocalFresh, Unstaged, None
<1>6. StagedFresh'
  BY <1>0 DEF DispatchReads, DispatchAt, DispatchGoes, NoDispatch, TypeOK,
      StagedFresh, Unstaged, None
<1>7. /\ RowsKept' /\ InputsExist' /\ Unlinks' /\ Stored' /\ MigTargets'
      /\ Planned' /\ KeepsSource' /\ HandedOut' /\ InputsReadable'
  BY DEF DispatchReads, DispatchAt, DispatchGoes, NoDispatch, RowsKept,
      InputsExist, Unlinks, Stored, MigTargets, Planned, KeepsSource,
      HandedOut, InputsReadable, Lasting
<1> QED
  BY <1>1, <1>2, <1>3, <1>4, <1>5, <1>6, <1>7

LEMMA DispatchCopiesKeeps ==
    ASSUME Assumed, IInv, NEW t \in Task, DispatchCopies(t)
    PROVE  IInv'
<1> USE DEF Assumed, IInv
<1>0. \A x \in Task : x # "local" /\ x # "staging" /\ x # "legacy" /\ x # "none" /\ x # "deleted"
  BY TaskNames
<1>1. TypeOK'
  BY <1>0 DEF DispatchCopies, DispatchAt, DispatchGoes, NoDispatch, Copied,
      DeletesSource, Source, Target, TypeOK, Objects, Inputs, Key, None
<1>2. RowsKept'
  BY <1>0 DEF DispatchCopies, DispatchAt, DispatchGoes, NoDispatch, Copied,
      DeletesSource, Source, Target, TypeOK, RowsKept, Lasting, None
<1>3. RowsStaged'
  BY <1>0 DEF DispatchCopies, DispatchAt, DispatchGoes, NoDispatch, Copied,
      DeletesSource, Source, Target, TypeOK, RowsStaged, None
<1>4. MovesSafe'
  BY <1>0 DEF DispatchCopies, DispatchAt, DispatchGoes, NoDispatch, Copied,
      DeletesSource, Source, Target, TypeOK, MovesSafe, None
<1>5. NoInput'
  BY <1>0 DEF DispatchCopies, DispatchAt, DispatchGoes, NoDispatch, Copied,
      DeletesSource, Source, Target, TypeOK, NoInput, None
<1>6. Stored'
  BY <1>0 DEF DispatchCopies, DispatchAt, DispatchGoes, NoDispatch, Copied,
      DeletesSource, Source, Target, TypeOK, Stored, None
<1>7. MigTargets'
  BY <1>0 DEF DispatchCopies, DispatchAt, DispatchGoes, NoDispatch, Copied,
      DeletesSource, Source, Target, TypeOK, MigTargets, None
<1>8. LocalFresh'
  BY <1>0 DEF DispatchCopies, DispatchAt, DispatchGoes, NoDispatch, Copied,
      DeletesSource, Source, Target, TypeOK, LocalFresh, Unstaged, None
<1>9. StagedFresh'
  BY <1>0 DEF DispatchCopies, DispatchAt, DispatchGoes, NoDispatch, Copied,
      DeletesSource, Source, Target, TypeOK, StagedFresh, Unstaged, None
<1>10. InputsReadable'
  BY <1>0 DEF DispatchCopies, DispatchAt, DispatchGoes, NoDispatch, Copied,
      DeletesSource, Source, Target, TypeOK, InputsReadable, None
<1>11. InputsExist' /\ Unlinks' /\ Planned' /\ KeepsSource' /\ HandedOut'
  BY DEF DispatchCopies, DispatchAt, DispatchGoes, NoDispatch, Copied,
      DeletesSource, Source, Target, InputsExist, Unlinks, Planned,
      KeepsSource, HandedOut
<1> QED
  BY <1>1, <1>2, <1>3, <1>4, <1>5, <1>6, <1>7, <1>8, <1>9, <1>10, <1>11

LEMMA DispatchDeletesKeeps ==
    ASSUME Assumed, IInv, NEW t \in Task, DispatchDeletes(t)
    PROVE  IInv'
<1> USE DEF Assumed, IInv
<1>0. \A x \in Task : x # "local" /\ x # "staging" /\ x # "legacy" /\ x # "none" /\ x # "deleted"
  BY TaskNames
<1>a. /\ input[t] \in Asset /\ disp[t].pc = "delete"
      /\ objects' = objects \ {<<input[t], "staging">>}
  BY <1>0 DEF DispatchDeletes, DispatchAt, MovesSafe, NoInput, NoDispatch, Source, TypeOK, Inputs, None
<1>1. TypeOK'
  BY <1>0, <1>a DEF DispatchDeletes, DispatchAt, DispatchGoes, NoDispatch,
      Source, Target, TypeOK, NoInput, MovesSafe, InputsExist, StagedFresh,
      Unstaged, None
<1>2. RowsKept'
  BY <1>0, <1>a DEF DispatchDeletes, DispatchAt, DispatchGoes, NoDispatch,
      Source, Target, TypeOK, RowsKept, Lasting, NoInput, MovesSafe,
      InputsExist, StagedFresh, Unstaged, None
<1>3. RowsStaged'
  BY <1>0, <1>a DEF DispatchDeletes, DispatchAt, DispatchGoes, NoDispatch,
      Source, Target, TypeOK, RowsStaged, NoInput, MovesSafe, InputsExist,
      StagedFresh, Unstaged, None
<1>4. MovesSafe'
  BY <1>0, <1>a DEF DispatchDeletes, DispatchAt, DispatchGoes, NoDispatch,
      Source, Target, TypeOK, MovesSafe, NoInput, InputsExist, StagedFresh,
      Unstaged, None
<1>5. NoInput'
  BY <1>0, <1>a DEF DispatchDeletes, DispatchAt, DispatchGoes, NoDispatch,
      Source, Target, TypeOK, NoInput, MovesSafe, InputsExist, StagedFresh,
      Unstaged, None
<1>6. Stored'
  BY <1>0, <1>a DEF DispatchDeletes, DispatchAt, DispatchGoes, NoDispatch,
      Source, Target, TypeOK, Rows, Objects, Inputs, Stored, NoInput,
      MovesSafe, InputsExist, StagedFresh, Unstaged, Key, Stale, NoRow, None
<1>7. MigTargets'
  BY <1>0, <1>a DEF DispatchDeletes, DispatchAt, DispatchGoes, NoDispatch,
      Source, Target, TypeOK, MigTargets, NoInput, MovesSafe, InputsExist,
      StagedFresh, Unstaged, None
<1>8. LocalFresh'
  BY <1>0, <1>a DEF DispatchDeletes, DispatchAt, DispatchGoes, NoDispatch,
      Source, Target, TypeOK, LocalFresh, Unstaged, NoInput, MovesSafe,
      InputsExist, StagedFresh, None
<1>9. StagedFresh'
  BY <1>0, <1>a DEF DispatchDeletes, DispatchAt, DispatchGoes, NoDispatch,
      Source, Target, TypeOK, StagedFresh, Unstaged, NoInput, MovesSafe,
      InputsExist, None
<1>10. InputsReadable'
  BY <1>0, <1>a DEF DispatchDeletes, DispatchAt, DispatchGoes, NoDispatch,
      Source, Target, TypeOK, InputsReadable, NoInput, MovesSafe, InputsExist,
      StagedFresh, Unstaged, None
<1>11. InputsExist' /\ Unlinks' /\ Planned' /\ KeepsSource' /\ HandedOut'
  BY DEF DispatchDeletes, DispatchAt, DispatchGoes, NoDispatch, Source,
      Target, InputsExist, Unlinks, Planned, KeepsSource, HandedOut
<1> QED
  BY <1>1, <1>2, <1>3, <1>4, <1>5, <1>6, <1>7, <1>8, <1>9, <1>10, <1>11

LEMMA DispatchCommitsKeeps ==
    ASSUME Assumed, IInv, NEW t \in Task, DispatchCommits(t)
    PROVE  IInv'
<1> USE DEF Assumed, IInv
<1>0. \A x \in Task : x # "local" /\ x # "staging" /\ x # "legacy" /\ x # "none" /\ x # "deleted"
  BY TaskNames
<1>1. TypeOK'
  BY <1>0 DEF DispatchCommits, DispatchAt, DispatchGoes, NoDispatch, Target,
      TypeOK, Rows, Objects, Inputs, NoInput, MovesSafe, InputsExist,
      StagedFresh, Unstaged, Key, Stale, None
<1>2. RowsKept'
  BY <1>0 DEF DispatchCommits, DispatchAt, DispatchGoes, NoDispatch, Target,
      TypeOK, RowsKept, Lasting, NoInput, MovesSafe, InputsExist, StagedFresh,
      Unstaged, None
<1>3. RowsStaged'
  BY <1>0 DEF DispatchCommits, DispatchAt, DispatchGoes, NoDispatch, Target,
      TypeOK, Rows, RowsStaged, NoInput, MovesSafe, InputsExist, StagedFresh,
      Unstaged, Stale, None
<1>4. MovesSafe'
  BY <1>0 DEF DispatchCommits, DispatchAt, DispatchGoes, NoDispatch, Target,
      TypeOK, MovesSafe, NoInput, InputsExist, StagedFresh, Unstaged, None
<1>5. NoInput'
  BY <1>0 DEF DispatchCommits, DispatchAt, DispatchGoes, NoDispatch, Target,
      TypeOK, NoInput, MovesSafe, InputsExist, StagedFresh, Unstaged, None
<1>6. InputsExist'
  BY <1>0 DEF DispatchCommits, DispatchAt, DispatchGoes, NoDispatch, Target,
      TypeOK, Rows, Objects, Inputs, InputsExist, NoInput, MovesSafe,
      StagedFresh, Unstaged, Key, Stale, NoRow, None
<1>7. Unlinks'
  BY <1>0 DEF DispatchCommits, DispatchAt, DispatchGoes, NoDispatch, Target,
      TypeOK, Rows, Objects, Inputs, Unlinks, NoInput, MovesSafe, InputsExist,
      StagedFresh, Unstaged, Key, Stale, NoRow, None
<1>8. Stored'
  BY <1>0 DEF DispatchCommits, DispatchAt, DispatchGoes, NoDispatch, Target,
      TypeOK, Rows, Objects, Inputs, Stored, NoInput, MovesSafe, InputsExist,
      StagedFresh, Unstaged, Key, Stale, NoRow, None
<1>9. MigTargets'
  BY <1>0 DEF DispatchCommits, DispatchAt, DispatchGoes, NoDispatch, Target,
      TypeOK, MigTargets, NoInput, MovesSafe, InputsExist, StagedFresh,
      Unstaged, None
<1>10. LocalFresh'
  BY <1>0 DEF DispatchCommits, DispatchAt, DispatchGoes, NoDispatch, Target,
      TypeOK, LocalFresh, Unstaged, NoInput, MovesSafe, InputsExist,
      StagedFresh, None
<1>11. StagedFresh'
  BY <1>0 DEF DispatchCommits, DispatchAt, DispatchGoes, NoDispatch, Target,
      TypeOK, StagedFresh, Unstaged, NoInput, MovesSafe, InputsExist, None
<1>12. Planned' /\ KeepsSource' /\ HandedOut' /\ InputsReadable'
  BY DEF DispatchCommits, DispatchAt, DispatchGoes, NoDispatch, Target,
      Planned, KeepsSource, HandedOut, InputsReadable
<1> QED
  BY <1>1, <1>2, <1>3, <1>4, <1>5, <1>6, <1>7, <1>8, <1>9, <1>10, <1>11, <1>12

LEMMA DispatchHandsKeeps ==
    ASSUME Assumed, IInv, NEW t \in Task, DispatchHands(t)
    PROVE  IInv'
<1> USE DEF Assumed, IInv
<1>0. \A x \in Task : x # "local" /\ x # "staging" /\ x # "legacy" /\ x # "none" /\ x # "deleted"
  BY TaskNames
<1>1. TypeOK'
  BY <1>0 DEF DispatchHands, DispatchAt, DispatchGoes, NoDispatch, TypeOK,
      Rows, Objects, Inputs, NoInput, InputsExist, RowsKept, Lasting, Stale,
      None
<1>2. RowsStaged'
  BY <1>0 DEF DispatchHands, DispatchAt, DispatchGoes, NoDispatch, TypeOK,
      RowsStaged, NoInput, InputsExist, RowsKept, Lasting, None
<1>3. MovesSafe'
  BY <1>0 DEF DispatchHands, DispatchAt, DispatchGoes, NoDispatch, TypeOK,
      MovesSafe, Target, NoInput, InputsExist, RowsKept, Lasting, None
<1>4. NoInput'
  BY <1>0 DEF DispatchHands, DispatchAt, DispatchGoes, NoDispatch, TypeOK,
      NoInput, InputsExist, RowsKept, Lasting, None
<1>5. LocalFresh'
  BY <1>0 DEF DispatchHands, DispatchAt, DispatchGoes, NoDispatch, TypeOK,
      LocalFresh, Unstaged, NoInput, InputsExist, RowsKept, Lasting, None
<1>6. StagedFresh'
  BY <1>0 DEF DispatchHands, DispatchAt, DispatchGoes, NoDispatch, TypeOK,
      StagedFresh, Unstaged, NoInput, InputsExist, RowsKept, Lasting, None
<1>7. HandedOut'
  BY <1>0 DEF DispatchHands, DispatchAt, DispatchGoes, NoDispatch, TypeOK,
      HandedOut, NoInput, InputsExist, RowsKept, Lasting, None
<1>8. InputsReadable'
  BY <1>0 DEF DispatchHands, DispatchAt, DispatchGoes, NoDispatch, TypeOK,
      Rows, Objects, Inputs, InputsReadable, NoInput, InputsExist, RowsKept,
      Lasting, Key, Stale, None
<1>9. /\ RowsKept' /\ InputsExist' /\ Unlinks' /\ Stored' /\ MigTargets'
      /\ Planned' /\ KeepsSource'
  BY DEF DispatchHands, DispatchAt, DispatchGoes, NoDispatch, RowsKept,
      InputsExist, Unlinks, Stored, MigTargets, Planned, KeepsSource, Lasting
<1> QED
  BY <1>1, <1>2, <1>3, <1>4, <1>5, <1>6, <1>7, <1>8, <1>9

LEMMA JobEndsKeeps ==
    ASSUME Assumed, IInv, NEW t \in Task, JobEnds(t)
    PROVE  IInv'
<1> USE DEF Assumed, IInv
<1>0. \A x \in Task : x # "local" /\ x # "staging" /\ x # "legacy" /\ x # "none" /\ x # "deleted"
  BY TaskNames
<1>1. TypeOK'
  BY <1>0 DEF JobEnds, TypeOK, None
<1>2. NoInput'
  BY <1>0 DEF JobEnds, TypeOK, NoInput, NoDispatch, None
<1>3. HandedOut'
  BY <1>0 DEF JobEnds, TypeOK, HandedOut, None
<1>4. InputsReadable'
  BY <1>0 DEF JobEnds, TypeOK, InputsReadable, None
<1>5. /\ RowsKept' /\ RowsStaged' /\ MovesSafe' /\ InputsExist' /\ Unlinks'
      /\ Stored' /\ MigTargets' /\ LocalFresh' /\ StagedFresh' /\ Planned'
      /\ KeepsSource'
  BY DEF JobEnds, RowsKept, RowsStaged, MovesSafe, InputsExist, Unlinks,
      Stored, MigTargets, LocalFresh, StagedFresh, Planned, KeepsSource,
      Lasting, Target, Unstaged
<1> QED
  BY <1>1, <1>2, <1>3, <1>4, <1>5

LEMMA PlansToS3Keeps ==
    ASSUME Assumed, IInv, PlansToS3
    PROVE  IInv'
<1> USE DEF Assumed, IInv
<1>0. \A x \in Task : x # "local" /\ x # "staging" /\ x # "legacy" /\ x # "none" /\ x # "deleted"
  BY TaskNames
<1>1. TypeOK'
  BY <1>0 DEF PlansToS3, Plans, KeysFor, Tasks, TypeOK, Rows, Objects, Inputs,
      Key, Stale, NoRow, None
<1>2. MigTargets'
  BY <1>0 DEF PlansToS3, Plans, KeysFor, Tasks, TypeOK, MigTargets, None
<1>3. StagedFresh'
  BY <1>0 DEF PlansToS3, Plans, KeysFor, Tasks, TypeOK, StagedFresh, Unstaged,
      LocalFresh, None
<1>4. Planned'
  BY <1>0 DEF PlansToS3, Plans, KeysFor, Tasks, TypeOK, Planned, None
<1>5. KeepsSource'
  BY <1>0 DEF PlansToS3, Plans, KeysFor, Tasks, TypeOK, KeepsSource, None
<1>6. /\ RowsKept' /\ RowsStaged' /\ MovesSafe' /\ NoInput' /\ InputsExist'
      /\ Unlinks' /\ Stored' /\ LocalFresh' /\ HandedOut' /\ InputsReadable'
  BY DEF PlansToS3, Plans, KeysFor, Tasks, RowsKept, RowsStaged, MovesSafe,
      NoInput, InputsExist, Unlinks, Stored, LocalFresh, HandedOut,
      InputsReadable, Lasting, Target, NoDispatch, Unstaged
<1> QED
  BY <1>1, <1>2, <1>3, <1>4, <1>5, <1>6

LEMMA PlansLayoutKeeps ==
    ASSUME Assumed, IInv, PlansLayout
    PROVE  IInv'
<1> USE DEF Assumed, IInv
<1>0. \A x \in Task : x # "local" /\ x # "staging" /\ x # "legacy" /\ x # "none" /\ x # "deleted"
  BY TaskNames
<1>1. TypeOK'
  BY <1>0 DEF PlansLayout, Plans, KeysFor, Tasks, TypeOK, Rows, Objects,
      Inputs, Key, Stale, NoRow, None
<1>2. MigTargets'
  BY <1>0 DEF PlansLayout, Plans, KeysFor, Tasks, TypeOK, Rows, MigTargets,
      Stale, None
<1>3. StagedFresh'
  BY <1>0 DEF PlansLayout, Plans, KeysFor, Tasks, TypeOK, StagedFresh,
      Unstaged, None
<1>4. Planned'
  BY <1>0 DEF PlansLayout, Plans, KeysFor, Tasks, TypeOK, Planned, None
<1>5. KeepsSource'
  BY <1>0 DEF PlansLayout, Plans, KeysFor, Tasks, TypeOK, KeepsSource, None
<1>6. /\ RowsKept' /\ RowsStaged' /\ MovesSafe' /\ NoInput' /\ InputsExist'
      /\ Unlinks' /\ Stored' /\ LocalFresh' /\ HandedOut' /\ InputsReadable'
  BY DEF PlansLayout, Plans, KeysFor, Tasks, RowsKept, RowsStaged, MovesSafe,
      NoInput, InputsExist, Unlinks, Stored, LocalFresh, HandedOut,
      InputsReadable, Lasting, Target, NoDispatch, Unstaged
<1> QED
  BY <1>1, <1>2, <1>3, <1>4, <1>5, <1>6

LEMMA MigrationCopiesKeeps ==
    ASSUME Assumed, IInv, NEW a \in Asset, MigrationCopies(a)
    PROVE  IInv'
<1> USE DEF Assumed, IInv
<1>0. \A x \in Task : x # "local" /\ x # "staging" /\ x # "legacy" /\ x # "none" /\ x # "deleted"
  BY TaskNames
<1>a. \/ mig' = [mig EXCEPT !.todo = @ \ {a}]
      \/ mig' = [mig EXCEPT !.todo = @ \ {a}, !.to[a] = None]
  BY <1>0 DEF MigrationCopies
<1>b. /\ mig'.pc = "copy" /\ mig'.from = mig.from /\ mig'.todo = mig.todo \ {a}
      /\ mig'.to \in {mig.to, [mig.to EXCEPT ![a] = None]}
      /\ mig' = [pc |-> "copy", from |-> mig.from, to |-> mig'.to, todo |-> mig.todo \ {a}]
  BY <1>a, <1>0 DEF MigrationCopies, TypeOK
<1>c. \/ objects' = objects \cup {<<a, mig.to[a]>>} /\ mig'.to = mig.to
      \/ objects' = objects /\ mig'.to = [mig.to EXCEPT ![a] = None]
  BY <1>0 DEF MigrationCopies, TypeOK
<1>d. a \in Asset /\ mig.to[a] \in Task \cup {"staging"}
  BY <1>0 DEF MigrationCopies, TypeOK, Planned, MigTargets
<1>1. TypeOK'
  BY <1>0, <1>a, <1>b, <1>c, <1>d DEF MigrationCopies, TypeOK, Objects,
      Inputs, None
<1>2. RowsKept'
  BY <1>0, <1>a, <1>b, <1>c, <1>d DEF MigrationCopies, TypeOK, RowsKept,
      Lasting, None
<1>3. RowsStaged'
  BY <1>0, <1>a, <1>b, <1>c, <1>d DEF MigrationCopies, TypeOK, RowsStaged,
      None
<1>4. MovesSafe'
  BY <1>0, <1>a, <1>b, <1>c, <1>d DEF MigrationCopies, TypeOK, MovesSafe,
      Target, None
<1>5. Stored'
  BY <1>0, <1>a, <1>b, <1>c, <1>d DEF MigrationCopies, TypeOK, Stored, None
<1>6. MigTargets'
  BY <1>0, <1>a, <1>b, <1>c, <1>d DEF MigrationCopies, TypeOK, MigTargets,
      None
<1>7. StagedFresh'
  BY <1>0, <1>a, <1>b, <1>c, <1>d DEF MigrationCopies, TypeOK, StagedFresh,
      Unstaged, None
<1>8. Planned'
  BY <1>0, <1>a, <1>b, <1>c, <1>d DEF MigrationCopies, TypeOK, Planned, None
<1>9. KeepsSource'
  BY <1>0, <1>a, <1>b, <1>c, <1>d DEF MigrationCopies, TypeOK, KeepsSource,
      None
<1>10. InputsReadable'
  BY <1>0, <1>a, <1>b, <1>c, <1>d DEF MigrationCopies, TypeOK, InputsReadable,
      None
<1>11. NoInput' /\ InputsExist' /\ Unlinks' /\ LocalFresh' /\ HandedOut'
  BY DEF MigrationCopies, NoInput, InputsExist, Unlinks, LocalFresh,
      HandedOut, NoDispatch, Unstaged
<1> QED
  BY <1>1, <1>2, <1>3, <1>4, <1>5, <1>6, <1>7, <1>8, <1>9, <1>10, <1>11

LEMMA MigrationCommitsKeeps ==
    ASSUME Assumed, IInv, MigrationCommits
    PROVE  IInv'
<1> USE DEF Assumed, IInv
<1>0. \A x \in Task : x # "local" /\ x # "staging" /\ x # "legacy" /\ x # "none" /\ x # "deleted"
  BY TaskNames
<1>a. \A x \in Asset : row'[x] = row[x] \/ (mig.to[x] # None /\ row'[x] = mig.to[x])
  BY <1>0 DEF MigrationCommits, TypeOK, Rows
<1>1. TypeOK'
  BY <1>0, <1>a, SMTT(30) DEF MigrationCommits, NoMigration, TypeOK, Rows,
      Objects, Inputs, MigTargets, Unlinks, Stored, StagedFresh, Key, Stale,
      NoRow, None
<1>2. RowsKept'
  BY <1>0, <1>a DEF MigrationCommits, NoMigration, TypeOK, RowsKept, Lasting,
      MigTargets, Unlinks, Stored, StagedFresh, None
<1>3. RowsStaged'
  BY <1>0, <1>a DEF MigrationCommits, NoMigration, TypeOK, RowsStaged,
      MigTargets, Unlinks, Stored, StagedFresh, None
<1>4. InputsExist'
  BY <1>0, <1>a DEF MigrationCommits, NoMigration, TypeOK, Rows, Objects,
      Inputs, InputsExist, MigTargets, Unlinks, Stored, StagedFresh, Key,
      Stale, NoRow, None
<1>5. Unlinks'
  BY <1>0, <1>a DEF MigrationCommits, NoMigration, TypeOK, Rows, Objects,
      Inputs, Unlinks, MigTargets, Stored, StagedFresh, Key, Stale, NoRow,
      None
<1>6. Stored'
  BY <1>0, <1>a DEF MigrationCommits, NoMigration, TypeOK, Stored, MigTargets,
      Unlinks, StagedFresh, None
<1>7. MigTargets'
  BY <1>0, <1>a DEF MigrationCommits, NoMigration, TypeOK, MigTargets,
      Unlinks, Stored, StagedFresh, None
<1>8. LocalFresh'
  BY <1>0, <1>a DEF MigrationCommits, LocalFresh, Unstaged, MigTargets, None
<1>9. StagedFresh'
  BY <1>0, <1>a DEF MigrationCommits, NoMigration, TypeOK, StagedFresh,
      Unstaged, MigTargets, Unlinks, Stored, None
<1>10. Planned'
  BY <1>0, <1>a DEF MigrationCommits, NoMigration, TypeOK, Planned,
      MigTargets, Unlinks, Stored, StagedFresh, None
<1>11. KeepsSource'
  BY <1>0, <1>a DEF MigrationCommits, NoMigration, TypeOK, KeepsSource,
      MigTargets, Unlinks, Stored, StagedFresh, None
<1>12. MovesSafe' /\ NoInput' /\ HandedOut' /\ InputsReadable'
  BY DEF MigrationCommits, NoMigration, MovesSafe, NoInput, HandedOut,
      InputsReadable, Target, NoDispatch
<1> QED
  BY <1>1, <1>2, <1>3, <1>4, <1>5, <1>6, <1>7, <1>8, <1>9, <1>10, <1>11, <1>12

LEMMA DiesKeeps ==
    ASSUME Assumed, IInv, Dies
    PROVE  IInv'
<1> USE DEF Assumed, IInv
<1>0. \A x \in Task : x # "local" /\ x # "staging" /\ x # "legacy" /\ x # "none" /\ x # "deleted"
  BY TaskNames
<1>1. TypeOK'
  BY <1>0, SMTT(30) DEF Dies, DispatchAt, DispatchGoes, NoDispatch,
      NoMigration, TypeOK, Rows, Objects, Inputs, Key, Stale, NoRow, None
<1>2. RowsStaged'
  BY <1>0 DEF Dies, DispatchAt, DispatchGoes, NoDispatch, NoMigration, TypeOK,
      Rows, RowsStaged, Stale, None
<1>3. MovesSafe'
  BY <1>0 DEF Dies, DispatchAt, DispatchGoes, NoDispatch, NoMigration, TypeOK,
      MovesSafe, Target, None
<1>4. NoInput'
  BY <1>0 DEF Dies, DispatchAt, DispatchGoes, NoDispatch, NoMigration, TypeOK,
      NoInput, None
<1>5. Unlinks'
  BY <1>0 DEF Dies, DispatchAt, DispatchGoes, NoDispatch, NoMigration, TypeOK,
      Unlinks, None
<1>6. Stored'
  BY <1>0 DEF Dies, DispatchAt, DispatchGoes, NoDispatch, NoMigration, TypeOK,
      Stored, None
<1>7. MigTargets'
  BY <1>0 DEF Dies, DispatchAt, DispatchGoes, NoDispatch, NoMigration, TypeOK,
      MigTargets, None
<1>8. LocalFresh'
  BY <1>0 DEF Dies, DispatchAt, DispatchGoes, NoDispatch, NoMigration, TypeOK,
      LocalFresh, Unstaged, None
<1>9. StagedFresh'
  BY <1>0 DEF Dies, DispatchAt, DispatchGoes, NoDispatch, NoMigration, TypeOK,
      StagedFresh, Unstaged, None
<1>10. Planned'
  BY <1>0 DEF Dies, DispatchAt, DispatchGoes, NoDispatch, NoMigration, TypeOK,
      Planned, None
<1>11. KeepsSource'
  BY <1>0 DEF Dies, DispatchAt, DispatchGoes, NoDispatch, NoMigration, TypeOK,
      KeepsSource, None
<1>12. RowsKept' /\ InputsExist' /\ HandedOut' /\ InputsReadable'
  BY DEF Dies, DispatchAt, DispatchGoes, NoDispatch, NoMigration, RowsKept,
      InputsExist, HandedOut, InputsReadable, Lasting
<1> QED
  BY <1>1, <1>2, <1>3, <1>4, <1>5, <1>6, <1>7, <1>8, <1>9, <1>10, <1>11, <1>12

-----------------------------------------------------------------------------
LEMMA InitHolds ==
    ASSUME Assumed, Init
    PROVE  IInv
<1> USE DEF Assumed, Init
<1>0. \A x \in Task : x # "local" /\ x # "staging" /\ x # "legacy" /\ x # "none" /\ x # "deleted"
  BY TaskNames
<1>1. TypeOK
  BY DEF TypeOK, Rows, Objects, Inputs, Key, Stale, NoRow, None, NoDispatch, NoMigration
<1>2. RowsKept /\ RowsStaged
  BY <1>0 DEF RowsKept, RowsStaged, Lasting, Objects, Key, Stale, None
<1>3. /\ MovesSafe /\ NoInput /\ InputsExist /\ Unlinks /\ Stored
      /\ LocalFresh /\ HandedOut /\ InputsReadable
  BY DEF MovesSafe, NoInput, InputsExist, Unlinks, Stored, LocalFresh, Unstaged, HandedOut, InputsReadable,
      NoDispatch, None
<1>4. MigTargets /\ StagedFresh /\ Planned /\ KeepsSource
  BY DEF MigTargets, StagedFresh, Planned, KeepsSource, NoMigration, None
<1> QED
  BY <1>1, <1>2, <1>3, <1>4 DEF IInv

LEMMA NextHolds ==
    ASSUME Assumed, IInv, [Next]_vars
    PROVE  IInv'
<1>1. ASSUME NEW a \in Asset, NEW t \in Task, ClientPuts(a, t) \/ CompletesUpload(a, t) \/ MakesTask(t, a)
      PROVE  IInv'
  BY <1>1, ClientPutsKeeps, CompletesUploadKeeps, MakesTaskKeeps
<1>2. ASSUME NEW a \in Asset, Uploads(a) \/ UploadCommits(a) \/ MakesDraft(a)
      PROVE  IInv'
  BY <1>2, UploadsKeeps, UploadCommitsKeeps, MakesDraftKeeps
<1>3. ASSUME NEW a \in Asset, CleanupLooks(a) \/ CleanupDeletes(a) \/ CleanupUnlinks(a)
      PROVE  IInv'
  BY <1>3, CleanupLooksKeeps, CleanupDeletesKeeps, CleanupUnlinksKeeps
<1>4. ASSUME NEW t \in Task, DispatchReads(t) \/ DispatchCopies(t) \/ DispatchDeletes(t)
      PROVE  IInv'
  BY <1>4, DispatchReadsKeeps, DispatchCopiesKeeps, DispatchDeletesKeeps
<1>5. ASSUME NEW t \in Task, DispatchCommits(t) \/ DispatchHands(t) \/ JobEnds(t)
      PROVE  IInv'
  BY <1>5, DispatchCommitsKeeps, DispatchHandsKeeps, JobEndsKeeps
<1>6. ASSUME NEW a \in Asset, MigrationCopies(a)
      PROVE  IInv'
  BY <1>6, MigrationCopiesKeeps
<1>7. CASE PlansToS3 \/ PlansLayout \/ MigrationCommits
  BY <1>7, PlansToS3Keeps, PlansLayoutKeeps, MigrationCommitsKeeps
<1>8. CASE MigrationDeletes
  BY <1>8 DEF MigrationDeletes, IInv, KeepsSource
<1>9. CASE Dies
  BY <1>9, DiesKeeps
<1>10. CASE UNCHANGED vars
  BY <1>10 DEF IInv, vars, TypeOK, RowsKept, RowsStaged, MovesSafe, Target, NoInput, InputsExist,
     Unlinks, Stored,
      MigTargets, LocalFresh, StagedFresh, Unstaged, Planned, KeepsSource, HandedOut, InputsReadable
<1> QED
  BY <1>1, <1>2, <1>3, <1>4, <1>5, <1>6, <1>7, <1>8, <1>9, <1>10 DEF Next

LEMMA IInvHolds ==
    ASSUME Assumed
    PROVE  Spec => []IInv
<1>1. Init => IInv
  BY InitHolds
<1>2. IInv /\ [Next]_vars => IInv'
  BY NextHolds
<1> QED
  BY <1>1, <1>2, PTL DEF Spec

-----------------------------------------------------------------------------
(* Type correctness needs none of the assumptions, but that rows of inputs *)
(* stay, that only tasks with an input are dispatched, and that what a     *)
(* migration has yet to copy has a key to go to.                           *)
Dispatched == \A t \in Task : disp[t].pc # "idle" => input[t] # None
TInv == TypeOK /\ InputsExist /\ Dispatched /\ Planned

LEMMA TypedInit == Init => TInv
  <1> SUFFICES ASSUME Init PROVE TInv
    OBVIOUS
  <1>1. row \in Rows /\ objects \subseteq Objects
    BY DEF Init, Rows, Key, Stale, NoRow, None, Objects
  <1>2. NoMigration \in [pc: {"idle", "copy", "delete"}, todo: SUBSET Asset, from: [Asset -> Key \cup NoRow], to: [Asset -> Key \cup {None}]]
    BY DEF NoMigration, NoRow
  <1> QED
    BY <1>1, <1>2 DEF Init, TInv, TypeOK, Inputs, NoDispatch, NoMigration, InputsExist, Dispatched,
       Planned, None

(* Names that differ.                                                      *)
LEMMA KeysNamed == \A k \in Key : k \notin NoRow
  BY TasksAreNamed DEF Key, Stale, NoRow, None

LEMMA TypedWeb ==
    ASSUME TInv, NEW a \in Asset,
           Uploads(a) \/ UploadCommits(a) \/ MakesDraft(a) \/ CleanupLooks(a) \/ CleanupDeletes(a) \/ CleanupUnlinks(a)
    PROVE  TInv'
  <1> USE DEF TInv, TypeOK, Rows, Objects, Inputs
  <1>1. CASE Uploads(a)
    BY <1>1 DEF Uploads, Key, Stale, InputsExist, Dispatched, Planned
  <1>2. CASE UploadCommits(a)
    <2>1. row' \in Rows /\ \A b \in Asset : row[b] \notin NoRow => row'[b] \notin NoRow
      BY <1>2, KeysNamed DEF UploadCommits, Key, Stale
    <2> QED
      BY <1>2, <2>1 DEF UploadCommits, InputsExist, Dispatched, Planned, None
  <1>3. CASE MakesDraft(a)
    BY <1>3 DEF MakesDraft, InputsExist, Dispatched, Planned
  <1>4. CASE CleanupLooks(a)
    BY <1>4 DEF CleanupLooks, InputsExist, Dispatched, Planned
  <1>5. CASE CleanupDeletes(a)
    <2>1. row' \in Rows /\ web' \in [Asset -> {"idle", "stored", "delete", "deleteLocal", "unlink"}] /\ drafts' \subseteq Asset
      BY <1>5 DEF CleanupDeletes, NoRow
    <2>2. InputsExist'
      <3> SUFFICES ASSUME NEW t \in Task, input[t] # None PROVE row'[input[t]] \notin NoRow
        BY <1>5 DEF CleanupDeletes, InputsExist
      <3>1. input[t] \in Asset /\ row[input[t]] \notin NoRow
        BY DEF InputsExist
      <3>2. Deleted(a) => input[t] # a
        BY DEF Deleted, Tasks
      <3> QED
        BY <1>5, <3>1, <3>2 DEF CleanupDeletes
    <2> QED
      BY <1>5, <2>1, <2>2 DEF CleanupDeletes, Dispatched, Planned
  <1>6. CASE CleanupUnlinks(a)
    BY <1>6 DEF CleanupUnlinks, InputsExist, Dispatched, Planned
  <1> QED
    BY <1>1, <1>2, <1>3, <1>4, <1>5, <1>6

LEMMA TypedTasks ==
    ASSUME TInv, NEW a \in Asset, NEW t \in Task, ClientPuts(a, t) \/ CompletesUpload(a, t) \/ MakesTask(t, a)
    PROVE  TInv'
  <1> USE DEF TInv, TypeOK, Rows, Objects, Inputs
  <1>1. t \in Key
    BY DEF Key
  <1>2. CASE ClientPuts(a, t)
    BY <1>1, <1>2 DEF ClientPuts, InputsExist, Dispatched, Planned
  <1>3. CASE CompletesUpload(a, t)
    <2>1. row' \in Rows /\ \A b \in Asset : row[b] \notin NoRow => row'[b] \notin NoRow
      BY <1>1, <1>3, KeysNamed DEF CompletesUpload
    <2> QED
      BY <1>3, <2>1 DEF CompletesUpload, InputsExist, Dispatched, Planned, None
  <1>4. CASE MakesTask(t, a)
    <2>1. input' \in [Task -> Asset \cup {None}] /\ input'[t] = a /\ \A s \in Task : s # t => input'[s] = input[s]
      BY <1>4 DEF MakesTask
    <2>2. Dispatched'
      BY <1>4, <2>1 DEF MakesTask, Dispatched
    <2>3. InputsExist'
      BY <1>4, <2>1 DEF MakesTask, InputsExist
    <2> QED
      BY <1>4, <2>1, <2>2, <2>3 DEF MakesTask, Planned
  <1> QED
    BY <1>2, <1>3, <1>4

LEMMA TypedDispatch ==
    ASSUME TInv, NEW t \in Task,
           DispatchReads(t) \/ DispatchCopies(t) \/ DispatchDeletes(t) \/ DispatchCommits(t) \/ DispatchHands(t) \/ JobEnds(t)
    PROVE  TInv'
  <1> USE DEF TInv, TypeOK, Rows, Objects, Inputs
  <1> DEFINE DispT == [pc: {"idle", "copy", "delete", "commit", "hand"}, from: Key \cup {None}]
  <1>1. t \in Key /\ NoDispatch \in DispT /\ NoDispatch.pc = "idle"
    BY DEF Key, NoDispatch
  <1>2. ASSUME NEW pc \in {"idle", "copy", "delete", "commit", "hand"}, DispatchGoes(t, pc), disp[t].pc # "idle", UNCHANGED input
        PROVE  disp' \in [Task -> DispT] /\ Dispatched'
    <2>1. PICK d : d = IF pc = "idle" THEN NoDispatch ELSE [disp[t] EXCEPT !.pc = pc]
      OBVIOUS
    <2>2. disp[t] \in DispT
      OBVIOUS
    <2>3. d \in DispT
      BY <1>1, <2>1, <2>2
    <2>4. disp' = [disp EXCEPT ![t] = d]
      BY <1>2, <2>1 DEF DispatchGoes
    <2>5. input[t] # None
      BY <1>2 DEF Dispatched
    <2> QED
      BY <1>2, <2>3, <2>4, <2>5 DEF Dispatched
  <1>3. CASE DispatchReads(t)
    <2>1. PICK d : d = [pc |-> IF row[input[t]] \in {"local", t} THEN "hand" ELSE "copy", from |-> row[input[t]]]
      OBVIOUS
    <2>2. input[t] # None /\ input[t] \in Asset /\ row[input[t]] \in Key
      BY <1>3 DEF DispatchReads
    <2>3. d \in DispT
      BY <2>1, <2>2
    <2>4. disp' = [disp EXCEPT ![t] = d]
      BY <1>3, <2>1 DEF DispatchReads
    <2>5. disp' \in [Task -> DispT] /\ Dispatched'
      BY <1>3, <2>2, <2>3, <2>4 DEF DispatchReads, Dispatched
    <2> QED
      BY <1>3, <2>5 DEF DispatchReads, InputsExist, Planned
  <1>4. CASE DispatchCopies(t)
    <2>1. Source(t) \in objects => Target(t) \in Asset \X Key
      BY <1>1 DEF Source, Target
    <2>2. disp' \in [Task -> DispT] /\ Dispatched'
      BY <1>2, <1>4 DEF DispatchCopies, DispatchAt
    <2> QED
      BY <1>4, <2>1, <2>2 DEF DispatchCopies, InputsExist, Planned
  <1>5. CASE DispatchDeletes(t)
    <2>1. disp' \in [Task -> DispT] /\ Dispatched'
      BY <1>2, <1>5 DEF DispatchDeletes, DispatchAt
    <2> QED
      BY <1>5, <2>1 DEF DispatchDeletes, InputsExist, Planned
  <1>6. CASE DispatchCommits(t)
    <2>1. disp' \in [Task -> DispT] /\ Dispatched'
      BY <1>2, <1>6 DEF DispatchCommits, DispatchAt
    <2>2. row' \in Rows /\ \A b \in Asset : row[b] \notin NoRow => row'[b] \notin NoRow
      BY <1>1, <1>6, KeysNamed DEF DispatchCommits
    <2> QED
      BY <1>6, <2>1, <2>2 DEF DispatchCommits, InputsExist, Planned, None
  <1>7. CASE DispatchHands(t)
    <2>1. disp' \in [Task -> DispT] /\ Dispatched'
      BY <1>2, <1>7 DEF DispatchHands, DispatchAt
    <2>2. input[t] # None /\ input[t] \in Asset /\ row[input[t]] \notin NoRow
      BY <1>7 DEF DispatchHands, DispatchAt, Dispatched, InputsExist
    <2>3. row[input[t]] \in Key \cup NoRow
      BY <2>2
    <2>4. reads' \in [Task -> Key \cup {None}]
      BY <1>7, <2>2, <2>3 DEF DispatchHands
    <2> QED
      BY <1>7, <2>1, <2>4 DEF DispatchHands, InputsExist, Planned
  <1>8. CASE JobEnds(t)
    BY <1>8 DEF JobEnds, InputsExist, Dispatched, Planned
  <1> QED
    BY <1>3, <1>4, <1>5, <1>6, <1>7, <1>8

LEMMA TypedMigration ==
    ASSUME TInv, (\E a \in Asset : MigrationCopies(a)) \/ MigrationDeletes \/ MigrationCommits
    PROVE  TInv'
  <1> USE DEF TInv, TypeOK, Rows, Objects, Inputs
  <1> DEFINE MigT == [pc: {"idle", "copy", "delete"}, todo: SUBSET Asset, from: [Asset -> Key \cup NoRow], to: [Asset -> Key \cup {None}]]
  <1>1. ASSUME NEW a \in Asset, MigrationCopies(a) PROVE TInv'
    <2>1. mig \in MigT /\ mig.to[a] \in Key
      <3>1. mig \in MigT /\ mig.to[a] # None
        BY <1>1 DEF MigrationCopies, Planned
      <3> QED
        BY <3>1
    <2>2. objects' \subseteq Asset \X Key
      <3>1. PICK k \in Key : k = mig.to[a]
        BY <2>1
      <3>2. objects' \in {objects, objects \cup {<<a, k>>}}
        BY <1>1, <3>1 DEF MigrationCopies
      <3> QED
        BY <3>2
    <2>3. PICK to : to = [mig.to EXCEPT ![a] = None]
      OBVIOUS
    <2>4. to \in [Asset -> Key \cup {None}] /\ (\A b \in Asset : b # a => to[b] = mig.to[b]) /\ mig.todo \ {a} \subseteq Asset
      BY <2>1, <2>3
    <2>5. \/ mig' = [mig EXCEPT !.pc = "delete", !.todo = mig.todo \ {a}]
          \/ mig' = [mig EXCEPT !.todo = mig.todo \ {a}]
          \/ mig' = [mig EXCEPT !.todo = mig.todo \ {a}, !.to = to]
      BY <1>1, <2>1, <2>3 DEF MigrationCopies
    <2>6. mig' \in MigT /\ mig'.todo = mig.todo \ {a} /\ \A b \in Asset : b # a => mig'.to[b] = mig.to[b]
      BY <2>1, <2>4, <2>5
    <2>7. Planned'
      BY <2>1, <2>6 DEF Planned
    <2> QED
      BY <1>1, <2>2, <2>6, <2>7 DEF MigrationCopies, InputsExist, Dispatched
  <1>2. CASE MigrationDeletes
    <2>1. mig' \in MigT /\ mig'.todo = mig.todo /\ mig'.to = mig.to
      BY <1>2 DEF MigrationDeletes
    <2> QED
      BY <1>2, <2>1 DEF MigrationDeletes, InputsExist, Dispatched, Planned
  <1>3. CASE MigrationCommits
    <2>1. NoMigration \in MigT /\ NoMigration.todo = {}
      BY DEF NoMigration, NoRow
    <2>2. row' \in Rows /\ \A b \in Asset : row[b] \notin NoRow => row'[b] \notin NoRow
      BY <1>3, KeysNamed DEF MigrationCommits
    <2> QED
      BY <1>3, <2>1, <2>2 DEF MigrationCommits, InputsExist, Dispatched, Planned, None
  <1> QED
    BY <1>1, <1>2, <1>3

LEMMA TypedPlans ==
    ASSUME TInv, NEW chosen \in SUBSET Asset, NEW others \in SUBSET Key, Plans(chosen, others)
    PROVE  TInv'
  <1> USE DEF TInv, TypeOK, Rows, Objects, Inputs
  <1>1. PICK to \in [Asset -> Key \cup {None}] :
          /\ \A a \in Asset : IF a \in chosen THEN to[a] \in KeysFor(a, others) ELSE to[a] = None
          /\ mig' = [pc |-> "copy", todo |-> chosen, from |-> [a \in Asset |-> IF a \in chosen THEN row[a] ELSE None],
                     to |-> to]
    BY DEF Plans
  <1>2. PICK from : from = [a \in Asset |-> IF a \in chosen THEN row[a] ELSE None]
    OBVIOUS
  <1>3. from \in [Asset -> Key \cup NoRow]
    BY <1>2 DEF NoRow
  <1>4. mig' = [pc |-> "copy", todo |-> chosen, from |-> from, to |-> to]
    BY <1>1, <1>2
  <1>5. \A a \in chosen : to[a] \in Key
    BY <1>1 DEF KeysFor, Tasks, Key
  <1>6. Planned'
    BY <1>4, <1>5, KeysNamed DEF Planned, NoRow
  <1> QED
    BY <1>3, <1>4, <1>6 DEF Plans, InputsExist, Dispatched

LEMMA TypedDies == ASSUME TInv, Dies PROVE TInv'
  <1> USE DEF TInv, TypeOK, Rows, Objects, Inputs
  <1>1. CASE \E a \in Asset : web[a] # "idle" /\ web' = [web EXCEPT ![a] = "idle"] /\ UNCHANGED <<disp, mig>>
    BY <1>1 DEF Dies, InputsExist, Dispatched, Planned
  <1>2. CASE \E t \in Task : DispatchGoes(t, "idle") /\ UNCHANGED <<web, mig>>
    <2>1. PICK t \in Task : disp' = [disp EXCEPT ![t] = NoDispatch] /\ UNCHANGED <<web, mig>>
      BY <1>2 DEF DispatchGoes
    <2>2. NoDispatch \in [pc: {"idle", "copy", "delete", "commit", "hand"}, from: Key \cup {None}] /\ NoDispatch.pc = "idle"
      BY DEF NoDispatch
    <2> QED
      BY <2>1, <2>2 DEF Dies, InputsExist, Dispatched, Planned
  <1>3. CASE mig' = NoMigration /\ UNCHANGED <<web, disp>>
    <2>1. /\ NoMigration \in [pc: {"idle", "copy", "delete"}, todo: SUBSET Asset, from: [Asset -> Key \cup NoRow], to: [Asset -> Key \cup {None}]]
          /\ NoMigration.todo = {}
      BY DEF NoMigration, NoRow
    <2> QED
      BY <1>3, <2>1 DEF Dies, InputsExist, Dispatched, Planned
  <1> QED
    BY <1>1, <1>2, <1>3 DEF Dies

LEMMA TypedStep == ASSUME TInv, [Next]_vars PROVE TInv'
  <1>1. CASE PlansToS3
    <2>1. {"staging"} \subseteq Key
      BY DEF Key, Stale
    <2> QED
      BY <1>1, <2>1, TypedPlans DEF PlansToS3
  <1>2. CASE PlansLayout
    <2>1. PICK chosen \in SUBSET Asset : Plans(chosen, {})
      BY <1>2 DEF PlansLayout
    <2> QED
      BY <2>1, TypedPlans
  <1>3. CASE UNCHANGED vars
    BY <1>3 DEF TInv, vars, TypeOK, InputsExist, Dispatched, Planned
  <1> QED
    BY <1>1, <1>2, <1>3, TypedWeb, TypedTasks, TypedDispatch, TypedMigration, TypedDies DEF Next

(* Type correctness, of uploads, cleanups, dispatches and migrations in    *)
(* any order, whatever dies between their steps.                           *)
THEOREM TypeCorrect == Spec => []TypeOK
<1>1. Init => TInv
  BY TypedInit
<1>2. TInv /\ [Next]_vars => TInv'
  BY TypedStep
<1>3. TInv => TypeOK
  BY DEF TInv
<1> QED
  BY <1>1, <1>2, <1>3, PTL DEF Spec

(* Every row points to an image that is there, however the dispatches of   *)
(* tasks that share images, cleanups and migrations overlap, for any       *)
(* number of them (ensure_s3_input_asset_scoped).                          *)
THEOREM AssetsReadable ==
    ASSUME Assumed
    PROVE  Spec => []EveryAssetReadable
<1>1. IInv => EveryAssetReadable
  <2> SUFFICES ASSUME IInv, NEW a \in Asset, row[a] \notin NoRow
               PROVE  <<a, row[a]>> \in objects
                      \/ \E t \in Task : disp[t].pc = "commit" /\ input[t] = a /\ Target(t) \in objects
    BY DEF EveryAssetReadable
  <2>1. CASE row[a] = "staging"
    BY <2>1 DEF IInv, RowsStaged, MovesSafe
  <2>2. CASE row[a] # "staging"
    BY <2>2 DEF IInv, TypeOK, Rows, RowsKept, Lasting, Key, Stale
  <2> QED
    BY <2>1, <2>2
<1> QED
  BY <1>1, IInvHolds, PTL

(* A job that was given a key past staging finds its input there: nothing  *)
(* that the tasks and migrations beside it move deletes that key.          *)
THEOREM InputsStay ==
    ASSUME Assumed
    PROVE  Spec => []InputsReadable
<1>1. IInv => InputsReadable
  BY DEF IInv
<1> QED
  BY <1>1, IInvHolds, PTL

-----------------------------------------------------------------------------
(* The store of a workflow: a workflow that users can select has its files.*)
(* A registration lies under the next number until it commits, as long as  *)
(* no two overlap.                                                         *)

(* Requests that register, or import, a version, and those that activate   *)
(* a revision.                                                             *)
Registering(r) == r.pc \in {"write", "write2", "commit"}
Inserts(r)     == Registering(r) /\ r.loaded.status = "none"
Activating(r)  == r.pc \in {"promote", "promote2", "sync", "activate"}

(* What a request has read is not taken back under it.                     *)
Reading(r) ==
    /\ r.loaded.status # "none" => definition.status # "none"
    /\ r.loaded.current > 0 => definition.current > 0
    /\ Registering(r) =>
          /\ r.content \in Workflow!Content
          /\ r.number = 0 => r.pc = "commit" /\ Workflow!HasContent(r.content)
          /\ r.imports => runtime.workflow # Workflow!Missing
    /\ Inserts(r) => definition.status = "none"
    /\ Activating(r) => r.number \in DOMAIN revision /\ r.number \in DOMAIN release
    /\ Activating(r) \/ r.pc = "decide" => r.loaded.status # "none"
    /\ r.pc = "decide" => r.status # "none"
    /\ r.pc \in {"promote2", "sync", "activate"} => runtime.workflow # Workflow!Missing

DefinitionMeans ==
    /\ definition.status = "none" => definition.current = 0
    /\ Workflow!SelectablePromoted

StoreInv ==
    /\ Workflow!TypeOK /\ DefinitionMeans
    /\ \A a \in Admin : Reading(admin[a])
    /\ \A a, b \in Admin : Inserts(admin[a]) /\ Inserts(admin[b]) => a = b

(* The files of a registration lie under the next number.                  *)
OneRegisters == \A a, b \in Admin : Registering(admin[a]) /\ Registering(admin[b]) => a = b

Pending(r) ==
    Registering(r) /\ r.number # 0 =>
        /\ r.number = Workflow!NextRevision
        /\ r.pc \in {"write2", "commit"} =>
              r.number \in DOMAIN release /\ release[r.number].workflow = Workflow!Canonical(r.content.workflow)
        /\ r.pc = "commit" => release[r.number].param = Workflow!Canonical(r.content.param)

IntactInv == Workflow!ReleaseIntact /\ \A a \in Admin : Pending(admin[a])

-----------------------------------------------------------------------------
FilesThere == \A n \in DOMAIN release : n \in Nat \ {0} /\ release[n] \in Workflow!Files

LEMMA BundledVersion ==
    ASSUME NEW i \in DOMAIN Bundled, Bundled[i] # Nothing
    PROVE  Bundled[i] \in Workflow!Version
  BY DEF Workflow!Version

LEMMA FileFacts ==
    /\ Nothing \notin Workflow!Version
    /\ \A v \in Workflow!Version : Workflow!Canonical(v) \in Workflow!File /\ Workflow!Raw(v) \in Workflow!File /\ ~Workflow!Canonical(v).bundled /\ Workflow!Raw(v).bundled
    /\ Workflow!Missing \notin Workflow!File /\ Workflow!CutOff \notin Workflow!File /\ Workflow!CutOff # Workflow!Missing
    /\ \A v : Workflow!Raw(v) # Workflow!Missing
    /\ \A f \in Workflow!File \cup {Workflow!Missing, Workflow!CutOff} : f.of \in Workflow!Version \cup {Nothing}
  <1>1. Nothing \notin Workflow!Version
    BY DEF Workflow!Version
  <1> QED
    BY <1>1 DEF Workflow!Canonical, Workflow!Raw, Workflow!Missing, Workflow!CutOff, Workflow!File

LEMMA FilesEdit ==
    ASSUME NEW fs \in Workflow!Files
    PROVE  /\ \A f \in Workflow!File \cup {Workflow!Missing, Workflow!CutOff} : [fs EXCEPT !.workflow = f] \in Workflow!Files
           /\ \A f \in Workflow!File \cup {Workflow!Missing} : [fs EXCEPT !.param = f] \in Workflow!Files
           /\ \A f : [fs EXCEPT !.workflow = f].workflow = f /\ [fs EXCEPT !.workflow = f].param = fs.param
           /\ \A f : [fs EXCEPT !.param = f].param = f /\ [fs EXCEPT !.param = f].workflow = fs.workflow
  BY DEF Workflow!Files

LEMMA NoFilesType == Workflow!NoFiles \in Workflow!Files
  BY DEF Workflow!NoFiles, Workflow!Files

LEMMA StoreWrittenType ==
    ASSUME FilesThere, NEW n \in Nat \ {0}, NEW fs \in Workflow!Files, release' = Workflow!Written(n, fs)
    PROVE  /\ FilesThere' /\ DOMAIN release' = DOMAIN release \cup {n}
           /\ release'[n] = fs /\ \A m \in DOMAIN release : m # n => release'[m] = release[m]
  BY DEF FilesThere, Workflow!Written

LEMMA FilesOfType == ASSUME FilesThere, NEW n PROVE Workflow!FilesOf(n) \in Workflow!Files
  BY NoFilesType DEF FilesThere, Workflow!FilesOf

(* What a request may be at, with what it has read and means to write.     *)
LEMMA StoreTypes ==
    ASSUME Workflow!TypeOK
    PROVE  /\ Len(revision) \in Nat /\ DOMAIN revision = 1..Len(revision)
           /\ \A n \in DOMAIN revision : revision[n] \in Workflow!Content
           /\ definition \in Workflow!Definitions
           /\ \A a \in Admin : admin[a] \in Workflow!Requests
  BY DEF Workflow!TypeOK

LEMMA IdleType == Workflow!Idle \in Workflow!Requests
  <1>1. Workflow!NoDefinition \in Workflow!Definitions
    BY DEF Workflow!NoDefinition, Workflow!Definitions
  <1> QED
    BY <1>1 DEF Workflow!Idle, Workflow!Requests

LEMMA InitStore == Workflow!Init => StoreInv /\ IntactInv
  <1> SUFFICES ASSUME Workflow!Init PROVE StoreInv /\ IntactInv
    OBVIOUS
  <1> USE DEF Workflow!Init
  <1>1. Workflow!TypeOK
    <2>1. 1 \in DOMAIN Bundled
      BY BundledAssumption
    <2>2. \A n \in DOMAIN release : FALSE
      OBVIOUS
    <2>3. definition \in Workflow!Definitions /\ definition.current <= Len(revision) /\ revision \in Seq(Workflow!Content)
      BY DEF Workflow!NoDefinition, Workflow!Definitions
    <2>4. admin \in [Admin -> Workflow!Requests]
      BY IdleType
    <2>5. image \in DOMAIN Bundled /\ up \in BOOLEAN
      BY <2>1
    <2>6. stops \in 0..MaxStops
      BY BoundsAssumption
    <2> QED
      BY <2>2, <2>3, <2>4, <2>5, <2>6, NoFilesType DEF Workflow!TypeOK
  <1>2. \A a \in Admin : admin[a] = Workflow!Idle
    OBVIOUS
  <1>3. Workflow!ReleaseIntact
    BY DEF Workflow!ReleaseIntact
  <1> QED
    BY <1>1, <1>2, <1>3
       DEF StoreInv, IntactInv, Reading, Pending, Registering, Activating, Inserts, DefinitionMeans, Workflow!Idle, Workflow!NoDefinition,
           Workflow!SelectablePromoted

-----------------------------------------------------------------------------
(* What every step of the store keeps, once written.                       *)
Grows ==
    /\ definition.status # "none" => definition'.status # "none"
    /\ definition.current > 0 => definition'.current > 0
    /\ runtime.workflow # Workflow!Missing => runtime'.workflow # Workflow!Missing
    /\ DOMAIN revision \subseteq DOMAIN revision'
    /\ \A n \in DOMAIN revision : revision'[n] = revision[n]
    /\ DOMAIN release \subseteq DOMAIN release'

StoreTyped ==
    /\ definition \in Workflow!Definitions /\ definition.current <= Len(revision)
    /\ revision \in Seq(Workflow!Content)
    /\ FilesThere
    /\ runtime \in Workflow!Files
    /\ defaults \in Workflow!Version \cup {Nothing}
    /\ recorded \in Workflow!Version \cup {Nothing}
    /\ image \in DOMAIN Bundled /\ up \in BOOLEAN /\ stops \in 0..MaxStops

LEMMA TypedStore == Workflow!TypeOK <=> StoreTyped /\ admin \in [Admin -> Workflow!Requests]
  BY Zenon DEF Workflow!TypeOK, StoreTyped, FilesThere

LEMMA OtherKept ==
    ASSUME NEW r, Reading(r), Grows, definition'.status = "none" \/ ~Inserts(r)
    PROVE  Reading(r)'
  BY DEF Reading, Grows, Registering, Inserts, Activating, Workflow!HasContent

LEMMA OneStep ==
    ASSUME StoreInv, NEW a \in Admin, NEW r \in Workflow!Requests, admin' = [admin EXCEPT ![a] = r],
           Grows, StoreTyped', DefinitionMeans', Reading(r)',
           Inserts(r) => Inserts(admin[a]) \/ \A b \in Admin : ~Inserts(admin[b]),
           UNCHANGED definition \/ \A b \in Admin : Inserts(admin[b]) => b = a
    PROVE  StoreInv'
  <1>1. admin' \in [Admin -> Workflow!Requests] /\ admin'[a] = r /\ \A b \in Admin : b # a => admin'[b] = admin[b]
    BY TypedStore DEF StoreInv
  <1>2. Workflow!TypeOK'
    BY <1>1, Zenon DEF Workflow!TypeOK, StoreTyped, FilesThere
  <1>3. ASSUME NEW b \in Admin PROVE Reading(admin[b])'
    <2>1. CASE b = a
      BY <1>1, <2>1 DEF Reading, Registering, Inserts, Activating
    <2>2. CASE b # a
      <3>1. PICK s : s = admin[b]
        OBVIOUS
      <3>2. Reading(s)
        BY <3>1 DEF StoreInv
      <3>3. definition'.status = "none" \/ ~Inserts(s)
        BY <2>2, <3>1, <3>2 DEF Reading
      <3>4. Reading(s)'
        BY <3>2, <3>3, OtherKept
      <3>5. admin'[b] = s
        BY <1>1, <2>2, <3>1
      <3> QED
        BY <3>4, <3>5 DEF Reading, Registering, Inserts, Activating
    <2> QED
      BY <2>1, <2>2
  <1>4. ASSUME NEW b \in Admin, NEW c \in Admin, Inserts(admin[b])', Inserts(admin[c])' PROVE b = c
    <2>1. b = a \/ Inserts(admin[b])
      BY <1>1, <1>4 DEF Inserts, Registering
    <2>2. c = a \/ Inserts(admin[c])
      BY <1>1, <1>4 DEF Inserts, Registering
    <2>3. b = a \/ c = a => Inserts(r)
      BY <1>1, <1>4 DEF Inserts, Registering
    <2> QED
      BY <2>1, <2>2, <2>3 DEF StoreInv
  <1> QED
    BY <1>2, <1>3, <1>4 DEF StoreInv

(* A request that moves on with what it has.                               *)
LEMMA Same ==
    ASSUME UNCHANGED <<definition, revision, runtime>>, DOMAIN release \subseteq DOMAIN release' PROVE Grows
  BY DEF Grows

LEMMA MeansKept ==
    ASSUME StoreInv, Grows, UNCHANGED definition PROVE DefinitionMeans'
  BY DEF StoreInv, DefinitionMeans, Workflow!SelectablePromoted, Grows

LEMMA EndsKept ==
    ASSUME StoreInv, NEW a \in Admin, Workflow!Ends(a), Grows, StoreTyped', DefinitionMeans',
           UNCHANGED definition \/ \A b \in Admin : Inserts(admin[b]) => b = a
    PROVE  StoreInv'
  <1>1. PICK r : r = Workflow!Idle
    OBVIOUS
  <1>2. r \in Workflow!Requests /\ ~Inserts(r) /\ Reading(r)'
    BY <1>1, IdleType DEF Inserts, Reading, Registering, Activating, Workflow!Idle, Workflow!NoDefinition
  <1>3. admin' = [admin EXCEPT ![a] = r]
    BY <1>1 DEF Workflow!Ends
  <1> QED
    BY <1>2, <1>3, OneStep

LEMMA GoesKept ==
    ASSUME StoreInv, NEW a \in Admin, NEW pc, Workflow!Goes(a, pc), [admin[a] EXCEPT !.pc = pc] \in Workflow!Requests,
           Grows, StoreTyped', UNCHANGED definition,
           pc \in {"write2", "commit"} => Registering(admin[a]) /\ admin[a].number # 0,
           pc \in {"promote2", "sync", "activate"} => Activating(admin[a]) /\ runtime'.workflow # Workflow!Missing,
           pc \in {"write2", "commit", "promote2", "sync", "activate"}
    PROVE  StoreInv'
  <1>1. PICK r : r = [admin[a] EXCEPT !.pc = pc]
    OBVIOUS
  <1>2. admin[a] \in Workflow!Requests /\ Reading(admin[a])
    BY TypedStore DEF StoreInv
  <1>3. /\ r \in Workflow!Requests /\ r.pc = pc /\ r.loaded = admin[a].loaded /\ r.number = admin[a].number
        /\ r.content = admin[a].content /\ r.imports = admin[a].imports
    BY <1>1, <1>2 DEF Workflow!Requests
  <1>4. Inserts(r) => Inserts(admin[a])
    BY <1>3 DEF Inserts, Registering
  <1>5. Reading(r)'
    BY <1>2, <1>3 DEF Reading, Grows, Registering, Inserts, Activating
  <1>6. admin' = [admin EXCEPT ![a] = r]
    BY <1>1 DEF Workflow!Goes
  <1> QED
    BY <1>3, <1>4, <1>5, <1>6, MeansKept, OneStep

-----------------------------------------------------------------------------
LEMMA RequestGood ==
    ASSUME StoreInv, NEW a \in Admin
    PROVE  admin[a] \in Workflow!Requests /\ Reading(admin[a]) /\ StoreTyped /\ DefinitionMeans
  BY TypedStore DEF StoreInv

LEMMA NoneInserts ==
    ASSUME StoreInv, definition.status # "none" PROVE \A b \in Admin : ~Inserts(admin[b])
  BY DEF StoreInv, Reading

LEMMA ReadsKept ==
    ASSUME StoreInv, NEW a \in Admin, NEW imports \in BOOLEAN, NEW c \in Workflow!Content,
           imports => runtime.workflow # Workflow!Missing, Workflow!Reads(a, imports, c)
    PROVE  StoreInv'
  <1>1. PICK r : r = [Workflow!Idle EXCEPT !.pc = IF Workflow!HasContent(c) THEN "commit" ELSE "write", !.imports = imports,
                                 !.number = IF Workflow!HasContent(c) THEN 0 ELSE Workflow!NextRevision,
                                 !.content = c, !.loaded = definition]
    OBVIOUS
  <1>2. StoreTyped /\ DefinitionMeans /\ definition \in Workflow!Definitions /\ Workflow!NextRevision \in Nat \ {0}
    BY RequestGood, StoreTypes DEF Workflow!NextRevision, StoreInv, StoreTyped
  <1>3. /\ r.pc \in {"commit", "write"} /\ r.imports = imports /\ r.content = c /\ r.loaded = definition
        /\ r.number \in Nat /\ (r.number = 0 => r.pc = "commit" /\ Workflow!HasContent(c)) /\ r \in Workflow!Requests
    BY <1>1, <1>2 DEF Workflow!Idle, Workflow!Requests
  <1>4. admin' = [admin EXCEPT ![a] = r]
    BY <1>1 DEF Workflow!Reads
  <1>5. UNCHANGED <<definition, revision, release, runtime, defaults, recorded, image, up, stops>>
    BY DEF Workflow!Reads, Workflow!database, Workflow!started
  <1>6. StoreTyped'
    BY <1>2, <1>5 DEF StoreTyped, FilesThere
  <1>7. Reading(r)'
    BY <1>3, <1>5, <1>2 DEF Reading, Registering, Inserts, Activating, Workflow!HasContent, DefinitionMeans
  <1>8. Inserts(r) => \A b \in Admin : ~Inserts(admin[b])
    BY <1>3 DEF Inserts, Registering, Workflow!Inserting, Workflow!Reads
  <1>9. Grows /\ DefinitionMeans'
    BY <1>5, Same, MeansKept
  <1> QED
    BY <1>3, <1>4, <1>5, <1>6, <1>7, <1>8, <1>9, OneStep

LEMMA RegisterKept == ASSUME StoreInv, NEW a \in Admin, Workflow!Register(a) PROVE StoreInv'
  <1>1. PICK v \in Upload : Workflow!Reads(a, FALSE, [workflow |-> v, param |-> v])
    BY DEF Workflow!Register
  <1>2. v \in Workflow!Version
    BY UploadAssumption DEF Workflow!Version
  <1>3. [workflow |-> v, param |-> v] \in Workflow!Content
    BY <1>2 DEF Workflow!Content
  <1> QED
    BY <1>1, <1>3, ReadsKept

LEMMA ImportKept == ASSUME StoreInv, NEW a \in Admin, Workflow!Import(a) PROVE StoreInv'
  <1> DEFINE c == [workflow |-> runtime.workflow.of,
                   param |-> IF runtime.param = Workflow!Missing THEN runtime.workflow.of ELSE runtime.param.of]
  <1>1. runtime \in Workflow!Files /\ runtime.workflow \in Workflow!File
    BY RequestGood DEF StoreTyped, Workflow!Import, Workflow!Importable
  <1>2. c \in Workflow!Content
    BY <1>1 DEF Workflow!Files, Workflow!File, Workflow!Content
  <1>3. runtime.workflow # Workflow!Missing
    BY <1>1, FileFacts
  <1>4. Workflow!Reads(a, TRUE, c)
    BY DEF Workflow!Import
  <1> HIDE DEF c
  <1> QED
    BY <1>2, <1>3, <1>4, ReadsKept

LEMMA WritesKept ==
    ASSUME StoreInv, NEW n \in Nat \ {0}, NEW fs \in Workflow!Files, release' = Workflow!Written(n, fs),
           UNCHANGED <<definition, revision, runtime, defaults, recorded, image, up, stops>>
    PROVE  StoreTyped' /\ Grows
  <1>1. StoreTyped
    BY TypedStore DEF StoreInv
  <1>2. FilesThere' /\ DOMAIN release \subseteq DOMAIN release'
    BY <1>1, StoreWrittenType DEF StoreTyped
  <1> QED
    BY <1>1, <1>2, Same DEF StoreTyped

LEMMA WritesWorkflowKept == ASSUME StoreInv, NEW a \in Admin, Workflow!WritesWorkflow(a) PROVE StoreInv'
  <1> DEFINE n == admin[a].number
             fs == [Workflow!FilesOf(n) EXCEPT !.workflow = Workflow!Canonical(admin[a].content.workflow)]
  <1>1. admin[a] \in Workflow!Requests /\ Reading(admin[a]) /\ FilesThere /\ Registering(admin[a]) /\ admin[a].pc = "write"
    BY RequestGood DEF StoreTyped, Workflow!WritesWorkflow, Workflow!At, Registering
  <1>2. n \in Nat \ {0} /\ Workflow!Canonical(admin[a].content.workflow) \in Workflow!File
    BY <1>1, FileFacts DEF Reading, Workflow!Requests, Workflow!Content
  <1>3. fs \in Workflow!Files /\ release' = Workflow!Written(n, fs)
    BY <1>1, <1>2, FilesOfType, FilesEdit DEF Workflow!WritesWorkflow
  <1>4. Workflow!Goes(a, "write2") /\ UNCHANGED <<definition, revision, runtime, defaults, recorded, image, up, stops>>
    BY DEF Workflow!WritesWorkflow, Workflow!database, Workflow!started
  <1> HIDE DEF fs
  <1>5. StoreTyped' /\ Grows
    BY <1>2, <1>3, <1>4, WritesKept
  <1>6. [admin[a] EXCEPT !.pc = "write2"] \in Workflow!Requests
    BY <1>1 DEF Workflow!Requests
  <1> QED
    BY <1>1, <1>2, <1>4, <1>5, <1>6, GoesKept

LEMMA WritesParamKept == ASSUME StoreInv, NEW a \in Admin, Workflow!WritesParam(a) PROVE StoreInv'
  <1> DEFINE n == admin[a].number
             fs == [Workflow!FilesOf(n) EXCEPT !.param = Workflow!Canonical(admin[a].content.param)]
  <1>1. admin[a] \in Workflow!Requests /\ Reading(admin[a]) /\ FilesThere /\ Registering(admin[a]) /\ admin[a].pc = "write2"
    BY RequestGood DEF StoreTyped, Workflow!WritesParam, Workflow!At, Registering
  <1>2. n \in Nat \ {0} /\ Workflow!Canonical(admin[a].content.param) \in Workflow!File
    BY <1>1, FileFacts DEF Reading, Workflow!Requests, Workflow!Content
  <1>3. fs \in Workflow!Files /\ release' = Workflow!Written(n, fs)
    BY <1>1, <1>2, FilesOfType, FilesEdit DEF Workflow!WritesParam
  <1>4. Workflow!Goes(a, "commit") /\ UNCHANGED <<definition, revision, runtime, defaults, recorded, image, up, stops>>
    BY DEF Workflow!WritesParam, Workflow!database, Workflow!started
  <1> HIDE DEF fs
  <1>5. StoreTyped' /\ Grows
    BY <1>2, <1>3, <1>4, WritesKept
  <1>6. [admin[a] EXCEPT !.pc = "commit"] \in Workflow!Requests
    BY <1>1 DEF Workflow!Requests
  <1> QED
    BY <1>1, <1>2, <1>4, <1>5, <1>6, GoesKept

LEMMA FailsKept == ASSUME StoreInv, NEW a \in Admin, Workflow!Fails(a) PROVE StoreInv'
  <1>1. admin[a] \in Workflow!Requests /\ StoreTyped
    BY RequestGood
  <1>2. Workflow!Ends(a) /\ UNCHANGED <<definition, revision, runtime, defaults, recorded, image, up, stops>>
    BY DEF Workflow!Fails, Workflow!database, Workflow!started
  <1>3. StoreTyped' /\ Grows
    <2>1. CASE UNCHANGED release
      BY <1>1, <1>2, <2>1, Same DEF StoreTyped, FilesThere
    <2>2. CASE admin[a].number # 0 /\ release' = Workflow!Written(admin[a].number, Workflow!NoFiles)
      BY <1>1, <1>2, <2>2, WritesKept, NoFilesType DEF Workflow!Requests
    <2> QED
      BY <2>1, <2>2 DEF Workflow!Fails
  <1> QED
    BY <1>2, <1>3, MeansKept, EndsKept

(* What a registration leaves of the definition.                           *)
LEMMA DefinedGood ==
    ASSUME DefinitionMeans, definition \in Workflow!Definitions, NEW r \in Workflow!Requests, Reading(r), Registering(r),
           NEW n \in Nat \ {0}
    PROVE  /\ Workflow!Defined(r, n) \in Workflow!Definitions
           /\ Workflow!Defined(r, n).current \in {0, definition.current, n}
           /\ definition.status # "none" => Workflow!Defined(r, n).status # "none"
           /\ definition.current > 0 => Workflow!Defined(r, n).current > 0
           /\ Workflow!Defined(r, n).status = "none" => Workflow!Defined(r, n).current = 0
           /\ Workflow!Defined(r, n).status = "ACTIVE" => Workflow!Defined(r, n).current > 0 /\ runtime.workflow # Workflow!Missing
           /\ r.loaded.status # "none" => definition.status # "none"
  <1>1. r.loaded.status # "none" => definition.status # "none"
    BY DEF Reading
  <1>2. r.loaded.status = "none" => definition.status = "none" /\ definition.current = 0
    BY DEF Reading, Inserts, DefinitionMeans
  <1>3. r.imports => runtime.workflow # Workflow!Missing
    BY DEF Reading
  <1>4. r.imports \in BOOLEAN
    BY DEF Workflow!Requests
  <1>5. CASE r.loaded.status = "none" /\ r.imports /\ Bundled[image] # Nothing
    <2>1. Workflow!Defined(r, n) = [status |-> "ACTIVE", current |-> n]
      BY <1>5 DEF Workflow!Defined
    <2> QED
      BY <1>1, <1>2, <1>3, <1>5, <2>1 DEF Workflow!Definitions
  <1>6. CASE r.loaded.status = "none" /\ (r.imports => Bundled[image] = Nothing)
    <2>1. Workflow!Defined(r, n) = [status |-> "INACTIVE", current |-> 0]
      BY <1>6 DEF Workflow!Defined
    <2> QED
      BY <1>1, <1>2, <1>6, <2>1 DEF Workflow!Definitions
  <1>7. CASE r.loaded.status = "ARCHIVED" /\ ~r.imports
    <2>1. Workflow!Defined(r, n) = [definition EXCEPT !.status = "INACTIVE"]
      BY <1>7 DEF Workflow!Defined
    <2> QED
      BY <1>1, <1>7, <2>1 DEF Workflow!Definitions, DefinitionMeans
  <1>8. CASE r.loaded.status = "ACTIVE" /\ r.imports /\ r.loaded.current = 0
    <2>1. Workflow!Defined(r, n) = [definition EXCEPT !.current = n]
      BY <1>8 DEF Workflow!Defined
    <2> QED
      BY <1>1, <1>3, <1>8, <2>1 DEF Workflow!Definitions, DefinitionMeans
  <1>9. CASE Workflow!Defined(r, n) = definition
    BY <1>1, <1>9 DEF Workflow!Definitions, DefinitionMeans, Workflow!SelectablePromoted
  <1> QED
    BY <1>4, <1>5, <1>6, <1>7, <1>8, <1>9 DEF Workflow!Defined

LEMMA StoreCommitsKept == ASSUME StoreInv, NEW a \in Admin, Workflow!Commits(a) PROVE StoreInv'
  <1>1. PICK r : r = admin[a]
    OBVIOUS
  <1>2. r \in Workflow!Requests /\ Reading(r) /\ Registering(r) /\ StoreTyped /\ DefinitionMeans /\ definition \in Workflow!Definitions
    BY <1>1, RequestGood DEF Workflow!Commits, Workflow!At, Registering, StoreTyped
  <1>3. Workflow!Ends(a) /\ UNCHANGED <<release, runtime, defaults, recorded, image, up, stops>>
    BY DEF Workflow!Commits, Workflow!started
  <1>4. UNCHANGED definition \/ \A b \in Admin : Inserts(admin[b]) => b = a
    <2>1. CASE Inserts(r)
      BY <1>1, <2>1 DEF StoreInv
    <2>2. CASE ~Inserts(r)
      BY <1>2, <2>2, NoneInserts DEF Reading, Inserts
    <2> QED
      BY <2>1, <2>2
  <1>5. PICK n \in Nat \ {0} : /\ definition' = Workflow!Defined(r, n) /\ n <= Len(revision')
                               /\ \/ UNCHANGED revision
                                  \/ revision' = Append(revision, r.content) /\ r.number = Workflow!NextRevision
    <2>1. CASE r.number = 0 /\ definition' = Workflow!Defined(r, Workflow!RevisionOf(r.content)) /\ UNCHANGED revision
      <3>1. Workflow!RevisionOf(r.content) \in DOMAIN revision
        BY <1>2, <2>1 DEF Reading, Workflow!HasContent, Workflow!RevisionOf
      <3>2. Workflow!RevisionOf(r.content) \in Nat \ {0} /\ Workflow!RevisionOf(r.content) <= Len(revision)
        BY <3>1, StoreTypes DEF StoreInv
      <3> QED
        BY <2>1, <3>2
    <2>2. CASE r.number = Workflow!NextRevision /\ revision' = Append(revision, r.content) /\ definition' = Workflow!Defined(r, r.number)
      BY <1>2, <2>2, StoreTypes DEF Workflow!NextRevision, StoreTyped
    <2> QED
      BY <1>1, <2>1, <2>2 DEF Workflow!Commits
  <1>6. /\ definition' \in Workflow!Definitions /\ definition'.current \in {0, definition.current, n}
        /\ definition.status # "none" => definition'.status # "none"
        /\ definition.current > 0 => definition'.current > 0
        /\ definition'.status = "none" => definition'.current = 0
        /\ definition'.status = "ACTIVE" => definition'.current > 0 /\ runtime.workflow # Workflow!Missing
    BY <1>2, <1>5, DefinedGood
  <1>7. /\ revision' \in Seq(Workflow!Content) /\ Len(revision) <= Len(revision')
        /\ DOMAIN revision \subseteq DOMAIN revision'
        /\ \A m \in DOMAIN revision : revision'[m] = revision[m]
    BY <1>2, <1>5 DEF StoreTyped, Reading
  <1>8. StoreTyped'
    <2>1. definition'.current <= Len(revision')
      BY <1>2, <1>5, <1>6, <1>7 DEF StoreTyped, Workflow!Definitions
    <2> QED
      BY <1>2, <1>3, <1>6, <1>7, <2>1 DEF StoreTyped, FilesThere
  <1>9. DefinitionMeans' /\ Grows
    BY <1>3, <1>6, <1>7 DEF DefinitionMeans, Workflow!SelectablePromoted, Grows
  <1> QED
    BY <1>3, <1>4, <1>8, <1>9, EndsKept

(* A request that changes only what it is at.                              *)
LEMMA StartsKept ==
    ASSUME StoreInv, NEW a \in Admin, NEW r \in Workflow!Requests, admin' = [admin EXCEPT ![a] = r], ~Inserts(r), Reading(r)',
           UNCHANGED <<definition, revision, release, runtime, defaults, recorded, image, up, stops>>
    PROVE  StoreInv'
  <1>1. StoreTyped'
    BY RequestGood DEF StoreTyped, FilesThere
  <1> QED
    BY <1>1, Same, MeansKept, OneStep

LEMMA ActivateKept == ASSUME StoreInv, NEW a \in Admin, Workflow!Activate(a) PROVE StoreInv'
  <1>1. PICK n \in DOMAIN revision : n \in DOMAIN release /\ admin' = [admin EXCEPT ![a] =
             [Workflow!Idle EXCEPT !.pc = Workflow!AfterVerified, !.number = n, !.loaded = definition]]
    BY DEF Workflow!Activate
  <1>2. PICK r : r = [Workflow!Idle EXCEPT !.pc = Workflow!AfterVerified, !.number = n, !.loaded = definition]
    OBVIOUS
  <1>3. n \in Nat /\ definition \in Workflow!Definitions /\ DefinitionMeans
    BY StoreTypes, RequestGood, <1>1 DEF StoreInv
  <1>4. r \in Workflow!Requests /\ r.pc = "promote" /\ r.number = n /\ r.loaded = definition
    BY <1>2, <1>3 DEF Workflow!AfterVerified, Workflow!Idle, Workflow!Requests
  <1>5. UNCHANGED <<definition, revision, release, runtime, defaults, recorded, image, up, stops>>
    BY DEF Workflow!Activate, Workflow!database, Workflow!started
  <1>6. Reading(r)' /\ ~Inserts(r)
    BY <1>1, <1>3, <1>4, <1>5 DEF Reading, Registering, Inserts, Activating, Workflow!Activate,
       DefinitionMeans
  <1> QED
    BY <1>1, <1>2, <1>4, <1>5, <1>6, StartsKept

LEMMA DecideKept == ASSUME StoreInv, NEW a \in Admin, Workflow!Decide(a) PROVE StoreInv'
  <1>1. PICK s \in {"INACTIVE", "ARCHIVED"} :
             admin' = [admin EXCEPT ![a] = [Workflow!Idle EXCEPT !.pc = "decide", !.loaded = definition, !.status = s]]
    BY DEF Workflow!Decide
  <1>2. PICK r : r = [Workflow!Idle EXCEPT !.pc = "decide", !.loaded = definition, !.status = s]
    OBVIOUS
  <1>3. definition \in Workflow!Definitions
    BY StoreTypes DEF StoreInv
  <1>4. r \in Workflow!Requests /\ r.pc = "decide" /\ r.loaded = definition /\ r.status = s
    BY <1>2, <1>3 DEF Workflow!Idle, Workflow!Requests
  <1>5. UNCHANGED <<definition, revision, release, runtime, defaults, recorded, image, up, stops>>
    BY DEF Workflow!Decide, Workflow!database, Workflow!started
  <1>6. Reading(r)' /\ ~Inserts(r)
    BY <1>4, <1>5 DEF Reading, Registering, Inserts, Activating, Workflow!Decide
  <1> QED
    BY <1>1, <1>2, <1>4, <1>5, <1>6, StartsKept

(* A file of the runtime is written that is there.                         *)
LEMMA RuntimeWorkflow ==
    ASSUME StoreInv, UNCHANGED <<definition, revision, release, defaults, recorded, image, up, stops>>,
           NEW f, f \in Workflow!File \cup {Workflow!CutOff}, runtime' = [runtime EXCEPT !.workflow = f]
    PROVE  StoreTyped' /\ Grows
  <1>1. StoreTyped /\ runtime \in Workflow!Files
    BY TypedStore DEF StoreInv, StoreTyped
  <1>2. runtime' \in Workflow!Files /\ runtime'.workflow # Workflow!Missing
    BY <1>1, FilesEdit, FileFacts
  <1> QED
    BY <1>1, <1>2 DEF StoreTyped, FilesThere, Grows

LEMMA RuntimeParam ==
    ASSUME StoreInv, UNCHANGED <<definition, revision, release, defaults, recorded, image, up, stops>>,
           NEW f, f \in Workflow!File, runtime' = [runtime EXCEPT !.param = f]
    PROVE  StoreTyped' /\ Grows
  <1>1. StoreTyped /\ runtime \in Workflow!Files
    BY TypedStore DEF StoreInv, StoreTyped
  <1>2. runtime' \in Workflow!Files /\ runtime'.workflow = runtime.workflow
    BY <1>1, FilesEdit
  <1> QED
    BY <1>1, <1>2 DEF StoreTyped, FilesThere, Grows

LEMMA PromotesWorkflowKept == ASSUME StoreInv, NEW a \in Admin, Workflow!PromotesWorkflow(a) PROVE StoreInv'
  <1>1. admin[a] \in Workflow!Requests /\ Reading(admin[a]) /\ StoreTyped /\ admin[a].pc = "promote" /\ Activating(admin[a])
    BY RequestGood DEF Workflow!PromotesWorkflow, Workflow!At, Activating
  <1>2. UNCHANGED <<definition, revision, release, defaults, recorded, image, up, stops>>
    BY DEF Workflow!PromotesWorkflow, Workflow!database, Workflow!started
  <1>3. CASE Workflow!Ends(a) /\ UNCHANGED runtime
    <2>1. StoreTyped'
      BY <1>1, <1>2, <1>3 DEF StoreTyped, FilesThere
    <2> QED
      BY <1>2, <1>3, <2>1, Same, MeansKept, EndsKept
  <1>4. CASE /\ Workflow!Promotable(admin[a].number) /\ Workflow!Goes(a, "promote2")
             /\ runtime' = [runtime EXCEPT !.workflow = release[admin[a].number].workflow]
    <2>1. PICK f : f = release[admin[a].number].workflow
      OBVIOUS
    <2>5. f \in Workflow!File \cup {Workflow!CutOff} /\ runtime' = [runtime EXCEPT !.workflow = f]
      BY <1>1, <1>4, <2>1 DEF Reading, StoreTyped, FilesThere, Workflow!Files, Workflow!Promotable
    <2>2. StoreTyped' /\ Grows
      BY <1>2, <2>5, RuntimeWorkflow
    <2>3. runtime'.workflow # Workflow!Missing
      BY <1>1, FilesEdit, <2>5, FileFacts DEF StoreTyped
    <2>4. [admin[a] EXCEPT !.pc = "promote2"] \in Workflow!Requests
      BY <1>1 DEF Workflow!Requests
    <2> QED
      BY <1>1, <1>2, <1>4, <2>2, <2>3, <2>4, GoesKept
  <1> QED
    BY <1>3, <1>4 DEF Workflow!PromotesWorkflow

LEMMA PromotesParamKept == ASSUME StoreInv, NEW a \in Admin, Workflow!PromotesParam(a) PROVE StoreInv'
  <1>1. admin[a] \in Workflow!Requests /\ Reading(admin[a]) /\ StoreTyped /\ admin[a].pc = "promote2" /\ Activating(admin[a])
    BY RequestGood DEF Workflow!PromotesParam, Workflow!At, Activating
  <1>2. UNCHANGED <<definition, revision, release, defaults, recorded, image, up, stops>>
    BY DEF Workflow!PromotesParam, Workflow!database, Workflow!started
  <1>3. CASE Workflow!Ends(a) /\ UNCHANGED runtime
    <2>1. StoreTyped'
      BY <1>1, <1>2, <1>3 DEF StoreTyped, FilesThere
    <2> QED
      BY <1>2, <1>3, <2>1, Same, MeansKept, EndsKept
  <1>4. CASE /\ release[admin[a].number].param # Workflow!Missing /\ Workflow!Goes(a, "sync")
             /\ runtime' = [runtime EXCEPT !.param = release[admin[a].number].param]
    <2>1. PICK f : f = release[admin[a].number].param
      OBVIOUS
    <2>5. f \in Workflow!File /\ runtime' = [runtime EXCEPT !.param = f]
      BY <1>1, <1>4, <2>1 DEF Reading, StoreTyped, FilesThere, Workflow!Files
    <2>2. StoreTyped' /\ Grows
      BY <1>2, <2>5, RuntimeParam
    <2>3. runtime'.workflow # Workflow!Missing
      BY <1>1, FilesEdit, <2>5 DEF StoreTyped, Reading
    <2>4. [admin[a] EXCEPT !.pc = "sync"] \in Workflow!Requests
      BY <1>1 DEF Workflow!Requests
    <2> QED
      BY <1>1, <1>2, <1>4, <2>2, <2>3, <2>4, GoesKept
  <1> QED
    BY <1>3, <1>4 DEF Workflow!PromotesParam

LEMMA SyncsDefaultsKept == ASSUME StoreInv, NEW a \in Admin, Workflow!SyncsDefaults(a) PROVE StoreInv'
  <1>1. admin[a] \in Workflow!Requests /\ Reading(admin[a]) /\ StoreTyped /\ admin[a].pc = "sync" /\ Activating(admin[a])
    BY RequestGood DEF Workflow!SyncsDefaults, Workflow!At, Activating
  <1>2. Workflow!Goes(a, "activate") /\ UNCHANGED <<definition, revision, release, runtime, recorded, image, up, stops>>
    BY DEF Workflow!SyncsDefaults, Workflow!database, Workflow!started
  <1>3. defaults' \in Workflow!Version \cup {Nothing}
    BY <1>1, FileFacts DEF Workflow!SyncsDefaults, StoreTyped, Workflow!Files
  <1>4. StoreTyped' /\ Grows /\ runtime'.workflow # Workflow!Missing
    BY <1>1, <1>2, <1>3, Same DEF StoreTyped, FilesThere, Reading
  <1>5. [admin[a] EXCEPT !.pc = "activate"] \in Workflow!Requests
    BY <1>1 DEF Workflow!Requests
  <1> QED
    BY <1>1, <1>2, <1>4, <1>5, GoesKept

LEMMA ActivatesKept == ASSUME StoreInv, NEW a \in Admin, Workflow!Activates(a) PROVE StoreInv'
  <1>1. PICK r : r = admin[a]
    OBVIOUS
  <1>2. /\ r \in Workflow!Requests /\ Reading(r) /\ StoreTyped /\ DefinitionMeans /\ r.pc = "activate" /\ Activating(r)
        /\ definition \in Workflow!Definitions
    BY <1>1, RequestGood DEF Workflow!Activates, Workflow!At, Activating, StoreTyped
  <1>3. Workflow!Ends(a) /\ UNCHANGED <<revision, release, runtime, defaults, recorded, image, up, stops>>
    BY DEF Workflow!Activates, Workflow!started
  <1>4. definition.status # "none" /\ r.number \in DOMAIN revision /\ runtime.workflow # Workflow!Missing
    BY <1>2 DEF Reading
  <1>5. r.number \in Nat \ {0} /\ r.number <= Len(revision)
    BY <1>4, StoreTypes DEF StoreInv
  <1>6. definition' = [status |-> IF r.loaded.status = "ACTIVE" THEN definition.status ELSE "ACTIVE",
                       current |-> IF r.loaded.current = r.number THEN definition.current ELSE r.number]
    BY <1>1 DEF Workflow!Activates
  <1>7. r.loaded.current = r.number => definition.current > 0
    BY <1>2, <1>5 DEF Reading
  <1>8. /\ definition' \in Workflow!Definitions /\ definition'.current <= Len(revision) /\ definition'.current > 0
        /\ definition'.status # "none"
    BY <1>2, <1>4, <1>5, <1>6, <1>7 DEF Workflow!Definitions, StoreTyped
  <1>9. StoreTyped' /\ DefinitionMeans' /\ Grows
    BY <1>2, <1>3, <1>4, <1>8 DEF StoreTyped, FilesThere, DefinitionMeans, Workflow!SelectablePromoted, Grows
  <1> QED
    BY <1>3, <1>4, <1>9, NoneInserts, EndsKept

LEMMA DecidesKept == ASSUME StoreInv, NEW a \in Admin, Workflow!Decides(a) PROVE StoreInv'
  <1>1. PICK r : r = admin[a]
    OBVIOUS
  <1>2. /\ r \in Workflow!Requests /\ Reading(r) /\ StoreTyped /\ DefinitionMeans /\ definition.status # "none"
        /\ definition \in Workflow!Definitions
    BY <1>1, RequestGood DEF Workflow!Decides, Workflow!At, Reading, StoreTyped
  <1>3. Workflow!Ends(a) /\ UNCHANGED <<revision, release, runtime, defaults, recorded, image, up, stops>>
    BY DEF Workflow!Decides, Workflow!started
  <1>4. definition' = definition \/ definition' = [definition EXCEPT !.status = r.status]
    BY <1>1 DEF Workflow!Decides
  <1>5. r.status \in {"INACTIVE", "ARCHIVED"} \/ definition' = definition
    BY <1>1, <1>2 DEF Workflow!Decides, Workflow!At, Reading, Workflow!Requests
  <1>6. /\ definition' \in Workflow!Definitions /\ definition'.current = definition.current
        /\ definition'.status # "none" /\ (definition'.status = "ACTIVE" => definition' = definition)
    BY <1>2, <1>4, <1>5 DEF Workflow!Definitions
  <1>7. StoreTyped' /\ DefinitionMeans' /\ Grows
    BY <1>2, <1>3, <1>6 DEF StoreTyped, FilesThere, DefinitionMeans, Workflow!SelectablePromoted, Grows
  <1> QED
    BY <1>2, <1>3, <1>7, NoneInserts, EndsKept

-----------------------------------------------------------------------------
(* A start copies over what is missing or what an image bundled.           *)
LEMMA CopiedOver ==
    ASSUME StoreTyped, Workflow!Copied
    PROVE  Bundled[image] \in Workflow!Version /\ ~(runtime.workflow \in Workflow!File /\ ~runtime.workflow.bundled)
  <1>1. Bundled[image] \in Workflow!Version
    BY BundledVersion DEF Workflow!Copied, StoreTyped
  <1>2. runtime.workflow = Workflow!Missing \/ runtime.workflow.bundled
    BY DEF Workflow!Copied, Workflow!Raw
  <1> QED
    BY <1>1, <1>2, FileFacts

LEMMA StartKept == ASSUME StoreInv, Workflow!Start PROVE StoreInv' /\ Grows
  <1>1. StoreTyped /\ admin \in [Admin -> Workflow!Requests]
    BY TypedStore DEF StoreInv
  <1>2. UNCHANGED <<definition, revision, release, defaults, image, admin, stops>>
    BY DEF Workflow!Start, Workflow!database
  <1>3. StoreTyped' /\ Grows
    <2>1. CASE /\ Workflow!Copied /\ runtime' = [runtime EXCEPT !.workflow = Workflow!Seed]
               /\ recorded' = Bundled[image] /\ up' = TRUE
      <3>1. Workflow!Seed \in Workflow!File /\ Workflow!Seed # Workflow!Missing /\ Bundled[image] \in Workflow!Version
        BY <1>1, <2>1, CopiedOver, FileFacts DEF Workflow!Seed
      <3>2. runtime' \in Workflow!Files /\ runtime'.workflow = Workflow!Seed
        BY <1>1, <2>1, <3>1, FilesEdit DEF StoreTyped
      <3> QED
        BY <1>1, <1>2, <2>1, <3>1, <3>2 DEF StoreTyped, FilesThere, Grows
    <2>2. CASE /\ Workflow!Copied /\ \E f \in {Workflow!Seed, Workflow!CutOff} : runtime' = [runtime EXCEPT !.workflow = f]
               /\ UNCHANGED <<recorded, up>>
      <3>1. PICK f \in {Workflow!Seed, Workflow!CutOff} : runtime' = [runtime EXCEPT !.workflow = f]
        BY <2>2
      <3>2. f \in Workflow!File \cup {Workflow!CutOff} /\ f # Workflow!Missing
        BY <1>1, <2>2, CopiedOver, FileFacts DEF Workflow!Seed
      <3>3. runtime' \in Workflow!Files /\ runtime'.workflow = f
        BY <1>1, <3>1, <3>2, FilesEdit DEF StoreTyped
      <3> QED
        BY <1>1, <1>2, <2>2, <3>2, <3>3 DEF StoreTyped, FilesThere, Grows
    <2>3. CASE up' = TRUE /\ UNCHANGED <<runtime, recorded>>
      BY <1>1, <1>2, <2>3 DEF StoreTyped, FilesThere, Grows
    <2> QED
      BY <2>1, <2>2, <2>3 DEF Workflow!Start
  <1>4. Workflow!TypeOK'
    BY <1>1, <1>2, <1>3, Zenon DEF Workflow!TypeOK, StoreTyped, FilesThere
  <1>5. DefinitionMeans'
    BY <1>2, <1>3, MeansKept
  <1>6. ASSUME NEW a \in Admin PROVE Reading(admin[a])'
    <2>1. PICK s : s = admin[a]
      OBVIOUS
    <2>2. Reading(s)'
      BY <1>2, <1>3, <2>1, OtherKept DEF StoreInv, Reading
    <2> QED
      BY <1>2, <2>1, <2>2 DEF Reading, Registering, Inserts, Activating
  <1>7. \A a, b \in Admin : Inserts(admin[a])' /\ Inserts(admin[b])' => a = b
    BY <1>2 DEF StoreInv, Inserts, Registering
  <1> QED
    BY <1>3, <1>4, <1>5, <1>6, <1>7 DEF StoreInv

LEMMA StopKept == ASSUME StoreInv, Workflow!Stop PROVE StoreInv'
  <1>1. StoreTyped /\ admin \in [Admin -> Workflow!Requests]
    BY TypedStore DEF StoreInv
  <1>2. UNCHANGED <<definition, revision, release, runtime, defaults, recorded>> /\ up' = FALSE
    BY DEF Workflow!Stop, Workflow!database
  <1>3. admin' \in [Admin -> Workflow!Requests] /\ \A a \in Admin : admin'[a] = Workflow!Idle
    BY IdleType DEF Workflow!Stop
  <1>4. image' \in DOMAIN Bundled
    BY <1>1, BundledAssumption DEF Workflow!Stop, StoreTyped
  <1>5. stops' \in 0..MaxStops
    BY <1>1, BoundsAssumption DEF Workflow!Stop, StoreTyped
  <1>6. StoreTyped'
    BY <1>1, <1>2, <1>4, <1>5 DEF StoreTyped, FilesThere
  <1>7. Workflow!TypeOK'
    BY <1>3, <1>6, Zenon DEF Workflow!TypeOK, StoreTyped, FilesThere
  <1>8. DefinitionMeans'
    BY <1>2 DEF StoreInv, DefinitionMeans, Workflow!SelectablePromoted
  <1> QED
    BY <1>3, <1>7, <1>8 DEF StoreInv, Reading, Inserts, Registering, Activating, Workflow!Idle,
       Workflow!NoDefinition

LEMMA StoreStep == ASSUME StoreInv, [Workflow!Next]_Workflow!vars PROVE StoreInv'
  <1>1. CASE UNCHANGED Workflow!vars
    <2>1. UNCHANGED admin /\ UNCHANGED <<definition, revision, release, runtime, defaults, recorded, image, up, stops>>
      BY <1>1 DEF Workflow!vars
    <2>2. Workflow!TypeOK' /\ DefinitionMeans'
      BY <2>1 DEF StoreInv, Workflow!TypeOK, DefinitionMeans, Workflow!SelectablePromoted, FilesThere
    <2> QED
      BY <2>1, <2>2 DEF StoreInv, Reading, Registering, Inserts, Activating, Workflow!HasContent
  <1>2. CASE Workflow!Next
    BY <1>2, StartKept, StopKept, RegisterKept, ImportKept, WritesWorkflowKept, WritesParamKept,
       StoreCommitsKept,
       FailsKept, ActivateKept, PromotesWorkflowKept, PromotesParamKept, SyncsDefaultsKept, ActivatesKept,
       DecideKept, DecidesKept DEF Workflow!Next
  <1> QED
    BY <1>1, <1>2

LEMMA OperatorStep ==
    ASSUME StoreInv, [Workflow!Next]_Workflow!vars, NEW f \in {"workflow", "param"}, runtime[f] \in Workflow!File, ~runtime[f].bundled, ~up
    PROVE  runtime'[f] = runtime[f]
  <1>1. StoreTyped /\ runtime \in Workflow!Files
    BY RequestGood, TypedStore DEF StoreInv, StoreTyped
  <1>2. CASE Workflow!Start
    <2>1. CASE UNCHANGED runtime
      BY <2>1
    <2>2. CASE Workflow!Copied /\ \E g \in {Workflow!Seed, Workflow!CutOff} : runtime' = [runtime EXCEPT !.workflow = g]
      <3>1. f = "param"
        BY <1>1, <2>2, CopiedOver
      <3> QED
        BY <1>1, <2>2, <3>1 DEF Workflow!Files
    <2> QED
      BY <1>2, <2>1, <2>2 DEF Workflow!Start
  <1>3. CASE UNCHANGED runtime
    BY <1>3
  <1> QED
    BY <1>2, <1>3 DEF Workflow!Next, Workflow!vars, Workflow!Stop, Workflow!Register, Workflow!Import,
       Workflow!Reads, Workflow!WritesWorkflow, Workflow!WritesParam, Workflow!Commits, Workflow!Fails,
       Workflow!Activate,
       Workflow!PromotesWorkflow, Workflow!PromotesParam, Workflow!SyncsDefaults, Workflow!Activates, Workflow!Decide, Workflow!Decides, Workflow!At

-----------------------------------------------------------------------------
LEMMA IntactOne ==
    ASSUME StoreInv, IntactInv, NEW a \in Admin, NEW r, admin' = [admin EXCEPT ![a] = r], Pending(r)', Workflow!ReleaseIntact',
           UNCHANGED <<revision, release>> \/ \A b \in Admin : Registering(admin[b]) => b = a
    PROVE  IntactInv'
  <1>1. admin'[a] = r /\ \A b \in Admin : b # a => admin'[b] = admin[b]
    BY TypedStore DEF StoreInv
  <1>2. ASSUME NEW b \in Admin PROVE Pending(admin[b])'
    <2>1. CASE b = a
      BY <1>1, <2>1 DEF Pending, Registering, Workflow!NextRevision
    <2>2. CASE b # a
      BY <1>1, <2>2 DEF IntactInv, Pending, Registering, Workflow!NextRevision
    <2> QED
      BY <2>1, <2>2
  <1> QED
    BY <1>2 DEF IntactInv

LEMMA IntactIdle == ASSUME NEW r, ~Registering(r) PROVE Pending(r)'
  BY DEF Pending, Registering

LEMMA IntactEnds ==
    ASSUME StoreInv, IntactInv, NEW a \in Admin, Workflow!Ends(a), Workflow!ReleaseIntact',
           UNCHANGED <<revision, release>> \/ \A b \in Admin : Registering(admin[b]) => b = a
    PROVE  IntactInv'
  <1>1. PICK r : r = Workflow!Idle
    OBVIOUS
  <1>2. ~Registering(r)
    BY <1>1 DEF Workflow!Idle, Registering
  <1>3. admin' = [admin EXCEPT ![a] = r]
    BY <1>1 DEF Workflow!Ends
  <1> QED
    BY <1>2, <1>3, IntactIdle, IntactOne

(* An unregistered number may be written.                                  *)
LEMMA IntactWritten ==
    ASSUME StoreInv, IntactInv, NEW fs \in Workflow!Files, release' = Workflow!Written(Workflow!NextRevision, fs), UNCHANGED revision
    PROVE  /\ Workflow!ReleaseIntact' /\ Workflow!NextRevision' = Workflow!NextRevision
           /\ Workflow!NextRevision \in DOMAIN release' /\ release'[Workflow!NextRevision] = fs
  <1>1. FilesThere /\ Workflow!NextRevision \in Nat \ {0} /\ Workflow!NextRevision \notin DOMAIN revision
    BY StoreTypes, TypedStore DEF StoreInv, StoreTyped, Workflow!NextRevision
  <1> QED
    BY <1>1, StoreWrittenType DEF IntactInv, Workflow!ReleaseIntact, Workflow!Verified, Workflow!NextRevision

LEMMA IntactReads ==
    ASSUME StoreInv, IntactInv, NEW a \in Admin, NEW imports, NEW c, Workflow!Reads(a, imports, c) PROVE IntactInv'
  <1>1. PICK r : r = [Workflow!Idle EXCEPT !.pc = IF Workflow!HasContent(c) THEN "commit" ELSE "write", !.imports = imports,
                                 !.number = IF Workflow!HasContent(c) THEN 0 ELSE Workflow!NextRevision,
                                 !.content = c, !.loaded = definition]
    OBVIOUS
  <1>2. r.number = 0 \/ (r.pc = "write" /\ r.number = Workflow!NextRevision)
    BY <1>1 DEF Workflow!Idle
  <1>3. admin' = [admin EXCEPT ![a] = r] /\ UNCHANGED <<revision, release>>
    BY <1>1 DEF Workflow!Reads, Workflow!database
  <1>4. Pending(r)' /\ Workflow!ReleaseIntact'
    BY <1>2, <1>3 DEF Pending, Workflow!NextRevision, IntactInv, Workflow!ReleaseIntact, Workflow!Verified
  <1> QED
    BY <1>3, <1>4, IntactOne

(* A request that moves on and is no registration.                         *)
LEMMA IntactGoes ==
    ASSUME StoreInv, IntactInv, NEW a \in Admin, NEW pc, Workflow!Goes(a, pc), pc \notin {"write", "write2", "commit"},
           UNCHANGED <<revision, release>>
    PROVE  IntactInv'
  <1>1. PICK r : r = [admin[a] EXCEPT !.pc = pc]
    OBVIOUS
  <1>2. ~Registering(r) /\ admin' = [admin EXCEPT ![a] = r]
    BY <1>1, RequestGood DEF Workflow!Requests, Registering, Workflow!Goes
  <1>3. Workflow!ReleaseIntact'
    BY DEF IntactInv, Workflow!ReleaseIntact, Workflow!Verified
  <1> QED
    BY <1>2, <1>3, IntactIdle, IntactOne

LEMMA IntactStep == ASSUME StoreInv, IntactInv, OneRegisters, [Workflow!Next]_Workflow!vars PROVE IntactInv'
  <1>1. StoreTyped /\ FilesThere /\ Len(revision) \in Nat /\ Workflow!NextRevision \in Nat \ {0}
    BY StoreTypes, TypedStore DEF StoreInv, StoreTyped, Workflow!NextRevision
  <1>2. UNCHANGED <<revision, release>> => Workflow!ReleaseIntact'
    BY DEF IntactInv, Workflow!ReleaseIntact, Workflow!Verified
  <1>3. ASSUME NEW a \in Admin, Workflow!WritesWorkflow(a) PROVE IntactInv'
    <2> DEFINE n == admin[a].number
               fs == [Workflow!FilesOf(n) EXCEPT !.workflow = Workflow!Canonical(admin[a].content.workflow)]
    <2>1. admin[a] \in Workflow!Requests /\ Reading(admin[a]) /\ Registering(admin[a]) /\ admin[a].pc = "write"
      BY <1>3, RequestGood DEF Workflow!WritesWorkflow, Workflow!At, Registering
    <2>2. n = Workflow!NextRevision /\ Workflow!Canonical(admin[a].content.workflow) \in Workflow!File
      BY <2>1, FileFacts DEF Reading, Workflow!Requests, Workflow!Content, IntactInv, Pending
    <2>3. fs \in Workflow!Files /\ release' = Workflow!Written(n, fs) /\ fs.workflow = Workflow!Canonical(admin[a].content.workflow)
      BY <1>1, <1>3, <2>2, FilesOfType, FilesEdit DEF Workflow!WritesWorkflow
    <2>4. UNCHANGED revision /\ Workflow!Goes(a, "write2")
      BY <1>3 DEF Workflow!WritesWorkflow, Workflow!database
    <2>5. PICK r : r = [admin[a] EXCEPT !.pc = "write2"]
      OBVIOUS
    <2>6. r.pc = "write2" /\ r.number = n /\ r.content = admin[a].content /\ admin' = [admin EXCEPT ![a] = r]
      BY <2>1, <2>4, <2>5 DEF Workflow!Goes, Workflow!Requests
    <2> HIDE DEF fs
    <2>7. Workflow!ReleaseIntact' /\ Workflow!NextRevision' = n /\ n \in DOMAIN release' /\ release'[n] = fs
      BY <2>2, <2>3, <2>4, IntactWritten
    <2>8. Pending(r)'
      BY <2>3, <2>6, <2>7 DEF Pending, Workflow!Canonical
    <2>9. \A b \in Admin : Registering(admin[b]) => b = a
      BY <2>1 DEF OneRegisters
    <2> QED
      BY <2>6, <2>7, <2>8, <2>9, IntactOne
  <1>4. ASSUME NEW a \in Admin, Workflow!WritesParam(a) PROVE IntactInv'
    <2> DEFINE n == admin[a].number
               fs == [Workflow!FilesOf(n) EXCEPT !.param = Workflow!Canonical(admin[a].content.param)]
    <2>1. admin[a] \in Workflow!Requests /\ Reading(admin[a]) /\ Registering(admin[a]) /\ admin[a].pc = "write2"
      BY <1>4, RequestGood DEF Workflow!WritesParam, Workflow!At, Registering
    <2>2. /\ n = Workflow!NextRevision /\ Workflow!Canonical(admin[a].content.param) \in Workflow!File
          /\ n \in DOMAIN release /\ release[n].workflow = Workflow!Canonical(admin[a].content.workflow)
      BY <2>1, FileFacts DEF Reading, Workflow!Requests, Workflow!Content, IntactInv, Pending
    <2>3. /\ fs \in Workflow!Files /\ release' = Workflow!Written(n, fs) /\ fs.workflow = Workflow!Canonical(admin[a].content.workflow)
          /\ fs.param = Workflow!Canonical(admin[a].content.param)
      <3>1. Workflow!FilesOf(n) = release[n]
        BY <2>2 DEF Workflow!FilesOf
      <3> QED
        BY <1>1, <1>4, <2>2, <3>1, FilesOfType, FilesEdit DEF Workflow!WritesParam
    <2>4. UNCHANGED revision /\ Workflow!Goes(a, "commit")
      BY <1>4 DEF Workflow!WritesParam, Workflow!database
    <2>5. PICK r : r = [admin[a] EXCEPT !.pc = "commit"]
      OBVIOUS
    <2>6. r.pc = "commit" /\ r.number = n /\ r.content = admin[a].content /\ admin' = [admin EXCEPT ![a] = r]
      BY <2>1, <2>4, <2>5 DEF Workflow!Goes, Workflow!Requests
    <2> HIDE DEF fs
    <2>7. Workflow!ReleaseIntact' /\ Workflow!NextRevision' = n /\ n \in DOMAIN release' /\ release'[n] = fs
      BY <2>2, <2>3, <2>4, IntactWritten
    <2>8. Pending(r)'
      BY <2>3, <2>6, <2>7 DEF Pending, Workflow!Canonical
    <2>9. \A b \in Admin : Registering(admin[b]) => b = a
      BY <2>1 DEF OneRegisters
    <2> QED
      BY <2>6, <2>7, <2>8, <2>9, IntactOne
  <1>5. ASSUME NEW a \in Admin, Workflow!Commits(a) PROVE IntactInv'
    <2>1. admin[a] \in Workflow!Requests /\ Registering(admin[a]) /\ admin[a].pc = "commit" /\ Workflow!Ends(a) /\ UNCHANGED release
      BY <1>5, RequestGood DEF Workflow!Commits, Workflow!At, Registering
    <2>2. CASE UNCHANGED revision
      BY <1>2, <2>1, <2>2, IntactEnds
    <2>3. CASE admin[a].number = Workflow!NextRevision /\ revision' = Append(revision, admin[a].content)
      <3> DEFINE n == Workflow!NextRevision
                 c == admin[a].content
      <3>1. n \in DOMAIN release /\ release[n].workflow = Workflow!Canonical(c.workflow) /\ release[n].param = Workflow!Canonical(c.param)
        BY <1>1, <2>1, <2>3 DEF IntactInv, Pending
      <3>2. release[n] = [workflow |-> Workflow!Canonical(c.workflow), param |-> Workflow!Canonical(c.param)]
        <4>1. release[n] \in Workflow!Files
          BY <1>1, <3>1 DEF FilesThere
        <4> QED
          BY <3>1, <4>1 DEF Workflow!Files
      <3>3. /\ DOMAIN revision' = DOMAIN revision \cup {n} /\ revision'[n] = c
            /\ \A m \in DOMAIN revision : revision'[m] = revision[m]
        BY <1>1, <2>3, StoreTypes DEF StoreInv, StoreTyped, Workflow!NextRevision
      <3> HIDE DEF n, c
      <3>4. Workflow!ReleaseIntact'
        BY <2>1, <3>1, <3>2, <3>3 DEF IntactInv, Workflow!ReleaseIntact, Workflow!Verified
      <3> QED
        BY <2>1, <3>4, IntactEnds DEF OneRegisters
    <2> QED
      BY <1>5, <2>2, <2>3 DEF Workflow!Commits
  <1>6. ASSUME NEW a \in Admin, Workflow!Fails(a) PROVE IntactInv'
    <2>1. Registering(admin[a]) /\ Workflow!Ends(a) /\ UNCHANGED revision
      BY <1>6 DEF Workflow!Fails, Workflow!At, Registering, Workflow!database
    <2>2. CASE UNCHANGED release
      BY <1>2, <2>1, <2>2, IntactEnds
    <2>3. CASE admin[a].number # 0 /\ release' = Workflow!Written(admin[a].number, Workflow!NoFiles)
      <3>1. admin[a].number = Workflow!NextRevision
        BY <2>1, <2>3 DEF IntactInv, Pending
      <3>2. Workflow!ReleaseIntact'
        BY <2>1, <2>3, <3>1, NoFilesType, IntactWritten
      <3> QED
        BY <2>1, <3>2, IntactEnds DEF OneRegisters
    <2> QED
      BY <1>6, <2>2, <2>3 DEF Workflow!Fails
  <1>7. ASSUME NEW a \in Admin,
               Workflow!Activate(a) \/ Workflow!PromotesWorkflow(a) \/ Workflow!PromotesParam(a) \/ Workflow!SyncsDefaults(a) \/ Workflow!Activates(a)
                 \/ Workflow!Decide(a) \/ Workflow!Decides(a)
        PROVE  IntactInv'
    <2>1. UNCHANGED <<revision, release>> /\ Workflow!ReleaseIntact'
      BY <1>2, <1>7 DEF Workflow!Activate, Workflow!PromotesWorkflow, Workflow!PromotesParam,
         Workflow!SyncsDefaults, Workflow!Activates, Workflow!Decide, Workflow!Decides, Workflow!database
    <2>2. CASE Workflow!Activate(a)
      <3>1. PICK n \in DOMAIN revision : admin' = [admin EXCEPT ![a] =
               [Workflow!Idle EXCEPT !.pc = Workflow!AfterVerified, !.number = n, !.loaded = definition]]
        BY <2>2 DEF Workflow!Activate
      <3>2. PICK r : r = [Workflow!Idle EXCEPT !.pc = Workflow!AfterVerified, !.number = n, !.loaded = definition]
        OBVIOUS
      <3>3. ~Registering(r)
        BY <3>2 DEF Workflow!Idle, Workflow!AfterVerified, Registering
      <3> QED
        BY <2>1, <3>1, <3>2, <3>3, IntactIdle, IntactOne
    <2>3. CASE Workflow!Decide(a)
      <3>1. PICK s \in {"INACTIVE", "ARCHIVED"} :
               admin' = [admin EXCEPT ![a] = [Workflow!Idle EXCEPT !.pc = "decide", !.loaded = definition, !.status = s]]
        BY <2>3 DEF Workflow!Decide
      <3>2. PICK r : r = [Workflow!Idle EXCEPT !.pc = "decide", !.loaded = definition, !.status = s]
        OBVIOUS
      <3>3. ~Registering(r)
        BY <3>2 DEF Workflow!Idle, Registering
      <3> QED
        BY <2>1, <3>1, <3>2, <3>3, IntactIdle, IntactOne
    <2>4. CASE Workflow!Ends(a)
      BY <2>1, <2>4, IntactEnds
    <2>5. CASE Workflow!Goes(a, "promote2") \/ Workflow!Goes(a, "sync") \/ Workflow!Goes(a, "activate")
      BY <2>1, <2>5, IntactGoes
    <2> QED
      BY <1>7, <2>2, <2>3, <2>4, <2>5 DEF Workflow!PromotesWorkflow, Workflow!PromotesParam,
         Workflow!SyncsDefaults, Workflow!Activates, Workflow!Decides
  <1>8. CASE Workflow!Start
    BY <1>2, <1>8 DEF Workflow!Start, Workflow!database, IntactInv, Pending, Registering,
       Workflow!NextRevision
  <1>9. CASE Workflow!Stop
    BY <1>2, <1>9 DEF Workflow!Stop, Workflow!database, IntactInv, Pending, Registering, Workflow!Idle
  <1>10. CASE UNCHANGED Workflow!vars
    BY <1>2, <1>10 DEF Workflow!vars, IntactInv, Pending, Registering, Workflow!NextRevision
  <1> QED
    BY <1>3, <1>4, <1>5, <1>6, <1>7, <1>8, <1>9, <1>10, IntactReads DEF Workflow!Next, Workflow!Register,
       Workflow!Import

-----------------------------------------------------------------------------
(* The prompts: what a request may still be given is bounded by the        *)
(* processes that have read it as pending.                                 *)

PassT == [busy: BOOLEAN, todo: SUBSET Request, given: SUBSET Request, adds: SUBSET Request,
          read: [Request -> Prompts!Statuses], status: [Request -> Prompts!Statuses]]
MayAdd(r, w) == r \in w.adds \/ (r \in w.todo /\ r \notin w.given)
Adders(r)    == {p \in App : MayAdd(r, pass[p])}

PromptInv ==
    /\ Prompts!TypeOK
    /\ \A p \in App : ~pass[p].busy => pass[p].todo = {} /\ pass[p].adds = {}
    /\ \A r \in Request : outputs[r] + Cardinality(Adders(r)) <= Cardinality(App)

(* The cardinality of Prompts is that of the library.                    *)
LEMMA PromptsCardinality == \A S : Prompts!Cardinality(S) = Cardinality(S)
  BY DEF Cardinality, Prompts!Cardinality

LEMMA AddersFinite == \A r : IsFiniteSet(Adders(r)) /\ Cardinality(Adders(r)) \in Nat /\ Cardinality(Adders(r)) <= Cardinality(App)
                             /\ Cardinality(App) \in Nat
  <1> TAKE r
  <1>1. Adders(r) \subseteq App
    BY DEF Adders
  <1> QED
    BY <1>1, FiniteAssumption, FS_Subset, FS_CardinalityType

LEMMA NewPassType == Prompts!NewPass \in PassT /\ ~Prompts!NewPass.busy /\ Prompts!NewPass.todo = {} /\ Prompts!NewPass.adds = {} /\ \A r : ~MayAdd(r, Prompts!NewPass)
  BY DEF Prompts!NewPass, PassT, Prompts!Statuses, MayAdd

LEMMA PromptInit == Prompts!Init => PromptInv
  <1> SUFFICES ASSUME Prompts!Init PROVE PromptInv
    OBVIOUS
  <1>1. \A p \in App : pass[p] = Prompts!NewPass
    BY DEF Prompts!Init
  <1>2. \A r \in Request : Adders(r) = {}
    BY <1>1, NewPassType DEF Adders
  <1>3. Cardinality({}) = 0 /\ Cardinality(App) \in Nat
    BY FS_EmptySet, FiniteAssumption, FS_CardinalityType
  <1>4. Prompts!TypeOK
    <2>1. pass \in [App -> PassT]
      BY NewPassType DEF Prompts!Init
    <2>2. outputs \in [Request -> 0..Cardinality(App)]
      BY <1>3 DEF Prompts!Init
    <2> QED
      BY <2>1, <2>2, PromptsCardinality DEF Prompts!Init, Prompts!TypeOK, PassT, Prompts!Rows,
         Prompts!Statuses
  <1>5. \A r \in Request : outputs[r] = 0
    BY DEF Prompts!Init
  <1> QED
    BY <1>1, <1>2, <1>3, <1>4, <1>5, NewPassType DEF PromptInv

(* A step that leaves the passes and the outputs alone. *)
LEMMA PromptElse == ASSUME PromptInv, Prompts!TypeOK', UNCHANGED <<outputs, pass>> PROVE PromptInv'
  <1>1. \A r \in Request : Adders(r)' = Adders(r)
    BY DEF Adders, MayAdd
  <1> QED
    BY <1>1 DEF PromptInv

(* A pass that goes on without new prompts to add. *)
LEMMA PromptPass ==
  ASSUME PromptInv, NEW p \in App, NEW w \in PassT, pass' = [pass EXCEPT ![p] = w],
         UNCHANGED <<request, outputs, old>>, handler' \in [Request -> {"none", "submits", "accepted", "fails", "over"}],
         job' \in [Request -> {"none"} \cup Prompts!Alive \cup Prompts!Ends],
         ~w.busy => w.todo = {} /\ w.adds = {},
         \A r \in Request : MayAdd(r, w) => MayAdd(r, pass[p]) \/ outputs[r] = 0
  PROVE  PromptInv'
  <1>1. pass \in [App -> PassT] /\ outputs \in [Request -> 0..Cardinality(App)]
    BY PromptsCardinality DEF PromptInv, Prompts!TypeOK, PassT
  <1>2. pass' \in [App -> PassT] /\ pass'[p] = w /\ \A q \in App : q # p => pass'[q] = pass[q]
    BY <1>1
  <1>3. Prompts!TypeOK'
    BY <1>2 DEF PromptInv, Prompts!TypeOK, PassT
  <1>4. ASSUME NEW q \in App, ~pass'[q].busy PROVE pass'[q].todo = {} /\ pass'[q].adds = {}
    <2>1. CASE q = p
      BY <1>2, <1>4, <2>1
    <2>2. CASE q # p
      BY <1>2, <1>4, <2>2 DEF PromptInv
    <2> QED
      BY <2>1, <2>2
  <1>5. ASSUME NEW r \in Request PROVE outputs'[r] + Cardinality(Adders(r)') <= Cardinality(App)
    <2>1. CASE outputs[r] = 0
      <3>1. Cardinality(Adders(r)') <= Cardinality(App) /\ Cardinality(Adders(r)') \in Nat
        <4>1. Adders(r)' \subseteq App
          BY DEF Adders
        <4> QED
          BY <4>1, FiniteAssumption, FS_Subset, FS_CardinalityType
      <3> QED
        BY <2>1, <3>1
    <2>2. CASE outputs[r] # 0
      <3>1. Adders(r)' \subseteq Adders(r)
        <4> SUFFICES ASSUME NEW q \in App, MayAdd(r, pass'[q]) PROVE MayAdd(r, pass[q])
          BY DEF Adders, MayAdd
        <4>1. CASE q = p
          BY <1>2, <2>2, <4>1
        <4>2. CASE q # p
          BY <1>2, <4>2
        <4> QED
          BY <4>1, <4>2
      <3>2. Cardinality(Adders(r)') <= Cardinality(Adders(r)) /\ Cardinality(Adders(r)') \in Nat
        BY <3>1, AddersFinite, FS_Subset, FS_CardinalityType
      <3>3. outputs[r] + Cardinality(Adders(r)) <= Cardinality(App) /\ Cardinality(Adders(r)) \in Nat /\ Cardinality(App) \in Nat
        BY AddersFinite DEF PromptInv
      <3>4. outputs[r] \in Nat /\ outputs'[r] = outputs[r]
        <4>1. outputs[r] \in 0..Cardinality(App)
          BY <1>1
        <4> QED
          BY <3>3, <4>1
      <3> QED
        BY <3>2, <3>3, <3>4
    <2> QED
      BY <2>1, <2>2
  <1> QED
    BY <1>3, <1>4, <1>5 DEF PromptInv

LEMMA PromptLists == ASSUME PromptInv, NEW p \in App, Prompts!Lists(p) PROVE PromptInv'
  <1> DEFINE listed == { r \in Request : request[r].job /\ request[r].status \in Prompts!Active }
             status == [r \in Request |-> IF r \in listed THEN request[r].status ELSE "none"]
             w == [busy |-> TRUE, todo |-> listed, adds |-> {}, read |-> status,
                   given |-> { r \in listed : outputs[r] > 0 }, status |-> status]
  <1>1. pass' = [pass EXCEPT ![p] = w] /\ UNCHANGED <<request, outputs, handler, job, old>>
    BY DEF Prompts!Lists
  <1>2. request \in [Request -> Prompts!Rows] /\ outputs \in [Request -> 0..Cardinality(App)]
    BY PromptsCardinality DEF PromptInv, Prompts!TypeOK
  <1>3. status \in [Request -> Prompts!Statuses]
    <2>1. "none" \in Prompts!Statuses /\ \A r \in Request : request[r].status \in Prompts!Statuses
      BY <1>2 DEF Prompts!Rows, Prompts!Statuses
    <2> QED
      BY <2>1
  <1>4. listed \subseteq Request /\ { r \in listed : outputs[r] > 0 } \subseteq Request
    OBVIOUS
  <1>5. w \in PassT
    <2> HIDE DEF listed, status
    <2> QED
      BY <1>3, <1>4 DEF PassT
  <1>6. \A r \in Request : outputs[r] \in Nat
    BY <1>2, AddersFinite
  <1>7. ASSUME NEW r \in Request, MayAdd(r, w) PROVE outputs[r] = 0
    <2>1. r \in listed /\ ~(outputs[r] > 0)
      BY <1>7 DEF MayAdd
    <2> QED
      BY <1>6, <2>1
  <1>8. /\ handler' \in [Request -> {"none", "submits", "accepted", "fails", "over"}]
        /\ job' \in [Request -> {"none"} \cup Prompts!Alive \cup Prompts!Ends]
    BY <1>1 DEF PromptInv, Prompts!TypeOK
  <1>9. w.busy
    OBVIOUS
  <1> HIDE DEF w
  <1>10. PICK v \in PassT : v = w
    BY <1>5
  <1>11. (~v.busy => v.todo = {} /\ v.adds = {}) /\ \A r \in Request : MayAdd(r, v) => MayAdd(r, pass[p]) \/ outputs[r] = 0
    BY <1>7, <1>9, <1>10
  <1>12. pass' = [pass EXCEPT ![p] = v] /\ UNCHANGED <<request, outputs, old>>
    BY <1>1, <1>10
  <1> HIDE DEF listed, status
  <1> QED
    BY <1>8, <1>11, <1>12, PromptPass

(* What is heard of a request, with or without a prompt. *)
LEMMA PromptHeard ==
  ASSUME PromptInv, NEW p \in App, NEW r \in pass[p].todo, NEW s \in Prompts!Statuses, NEW adds \in SUBSET Request,
         adds = pass[p].adds \/ (adds = pass[p].adds \cup {r} /\ r \notin pass[p].given),
         pass' \in {[pass EXCEPT ![p].todo = @ \ {r}, ![p].status[r] = s, ![p].adds = adds], [pass EXCEPT ![p].todo = @ \ {r}]},
         UNCHANGED <<request, outputs, old, handler>>, job' \in [Request -> {"none"} \cup Prompts!Alive \cup Prompts!Ends]
  PROVE  PromptInv'
  <1>1. pass \in [App -> PassT]
    BY DEF PromptInv, Prompts!TypeOK, PassT
  <1>2. PICK v \in PassT : v = pass[p]
    BY <1>1
  <1>3. PICK st \in [Request -> Prompts!Statuses] : st = [v.status EXCEPT ![r] = s]
    BY <1>2 DEF PassT
  <1>4. v.todo \ {r} \in SUBSET Request
    BY <1>2 DEF PassT
  <1>5. v.busy /\ r \in v.todo
    BY <1>2 DEF PromptInv
  <1>6. handler' \in [Request -> {"none", "submits", "accepted", "fails", "over"}]
    BY DEF PromptInv, Prompts!TypeOK
  <1>7. CASE pass' = [pass EXCEPT ![p].todo = @ \ {r}, ![p].status[r] = s, ![p].adds = adds]
    <2>1. PICK w : w = [v EXCEPT !.todo = v.todo \ {r}, !.status = st, !.adds = adds]
      OBVIOUS
    <2>2. w \in PassT /\ w.busy /\ w.todo = v.todo \ {r} /\ w.adds = adds /\ w.given = v.given
      BY <1>2, <1>3, <1>4, <1>5, <2>1 DEF PassT
    <2>3. pass' = [pass EXCEPT ![p] = w]
      BY <1>1, <1>2, <1>3, <1>7, <2>1 DEF PassT
    <2>4. \A q \in Request : MayAdd(q, w) => MayAdd(q, pass[p])
      BY <1>2, <1>5, <2>2 DEF MayAdd
    <2> QED
      BY <1>6, <2>2, <2>3, <2>4, PromptPass
  <1>8. CASE pass' = [pass EXCEPT ![p].todo = @ \ {r}]
    <2>1. PICK w : w = [v EXCEPT !.todo = v.todo \ {r}]
      OBVIOUS
    <2>2. w \in PassT /\ w.busy /\ w.todo = v.todo \ {r} /\ w.adds = v.adds /\ w.given = v.given
      BY <1>2, <1>4, <1>5, <2>1 DEF PassT
    <2>3. pass' = [pass EXCEPT ![p] = w]
      BY <1>1, <1>2, <1>8, <2>1 DEF PassT
    <2>4. \A q \in Request : MayAdd(q, w) => MayAdd(q, pass[p])
      BY <1>2, <1>5, <2>2 DEF MayAdd
    <2> QED
      BY <1>6, <2>2, <2>3, <2>4, PromptPass
  <1> QED
    BY <1>7, <1>8

LEMMA PromptHears ==
  ASSUME PromptInv, NEW p \in App, NEW r \in Request, Prompts!GivesUp(p, r) \/ Prompts!Hears(p, r) \/ Prompts!HearsNothing(p, r)
  PROVE  PromptInv'
  <1>1. /\ pass \in [App -> PassT] /\ job \in [Request -> {"none"} \cup Prompts!Alive \cup Prompts!Ends]
        /\ pass[p].adds \subseteq Request
    BY DEF PromptInv, Prompts!TypeOK, PassT
  <1>2. UNCHANGED job => job' \in [Request -> {"none"} \cup Prompts!Alive \cup Prompts!Ends]
    BY <1>1
  <1>3. CASE Prompts!GivesUp(p, r)
    <2>1. job' \in [Request -> {"none"} \cup Prompts!Alive \cup Prompts!Ends]
      BY <1>1, <1>3 DEF Prompts!GivesUp, Prompts!Ends, Prompts!Failed
    <2>2. "TIMED_OUT" \in Prompts!Statuses
      BY DEF Prompts!Statuses, Prompts!Ended, Prompts!Failed
    <2>3. PICK s : s = "TIMED_OUT"
      OBVIOUS
    <2>4. Prompts!Heard(p, r, s)
      BY <1>3, <2>3 DEF Prompts!GivesUp
    <2>5. pass' = [pass EXCEPT ![p].todo = @ \ {r}, ![p].status[r] = s, ![p].adds = pass[p].adds]
      BY <1>1, <2>4 DEF Prompts!Heard, PassT
    <2> QED
      BY <1>1, <1>3, <2>1, <2>2, <2>3, <2>5, PromptHeard DEF Prompts!GivesUp
  <1>4. CASE Prompts!HearsNothing(p, r)
    <2>1. "none" \in Prompts!Statuses
      BY DEF Prompts!Statuses
    <2> QED
      BY <1>1, <1>2, <1>4, <2>1, PromptHeard DEF Prompts!HearsNothing
  <1>5. CASE Prompts!Hears(p, r)
    <2>1. ASSUME NEW s \in Prompts!Statuses, Prompts!Heard(p, r, s) PROVE PromptInv'
      <3>1. pass' = [pass EXCEPT ![p].todo = @ \ {r}, ![p].status[r] = s, ![p].adds = pass[p].adds]
        BY <1>1, <2>1 DEF Prompts!Heard, PassT
      <3> QED
        BY <1>1, <1>2, <1>5, <3>1, PromptHeard DEF Prompts!Hears
    <2>2. ASSUME Prompts!Takes(p, r) PROVE PromptInv'
      <3>1. PICK adds : adds = IF r \in pass[p].given THEN pass[p].adds ELSE pass[p].adds \cup {r}
        OBVIOUS
      <3>2. adds \in SUBSET Request /\ "COMPLETED" \in Prompts!Statuses
        BY <1>1, <3>1 DEF Prompts!Statuses, Prompts!Ended
      <3>3. pass' = [pass EXCEPT ![p].todo = @ \ {r}, ![p].status[r] = "COMPLETED", ![p].adds = adds]
        BY <1>1, <2>2, <3>1 DEF Prompts!Takes, PassT
      <3> QED
        BY <1>1, <1>2, <1>5, <3>1, <3>2, <3>3, PromptHeard DEF Prompts!Hears
    <2>3. {"FAILED", "UNKNOWN"} \cup Prompts!Alive \cup Prompts!Failed \subseteq Prompts!Statuses
      BY DEF Prompts!Statuses, Prompts!Ended, Prompts!Failed, Prompts!Alive, Prompts!Asked
    <2> QED
      BY <1>5, <2>1, <2>2, <2>3 DEF Prompts!Hears
  <1> QED
    BY <1>3, <1>4, <1>5

LEMMA PromptCommits == ASSUME PromptInv, NEW p \in App, Prompts!Commits(p) PROVE PromptInv'
  <1>1. /\ pass \in [App -> PassT] /\ request \in [Request -> Prompts!Rows] /\ outputs \in [Request -> 0..Cardinality(App)]
    BY PromptsCardinality DEF PromptInv, Prompts!TypeOK, PassT
  <1>2. /\ pass' = [pass EXCEPT ![p] = Prompts!NewPass] /\ UNCHANGED <<handler, job, old>>
        /\ request' = [r \in Request |-> IF pass[p].status[r] = pass[p].read[r] THEN request[r]
                                 ELSE [request[r] EXCEPT !.status = pass[p].status[r]]]
    BY DEF Prompts!Commits
  <1>3. pass' \in [App -> PassT] /\ pass'[p] = Prompts!NewPass /\ \A q \in App : q # p => pass'[q] = pass[q]
    BY <1>1, <1>2, NewPassType
  <1>4. request' \in [Request -> Prompts!Rows]
    <2>1. ASSUME NEW r \in Request
          PROVE (IF pass[p].status[r] = pass[p].read[r] THEN request[r] ELSE [request[r] EXCEPT !.status = pass[p].status[r]]) \in Prompts!Rows
      <3>1. PICK s : s = pass[p].status[r]
        OBVIOUS
      <3>2. s \in Prompts!Statuses /\ request[r] \in Prompts!Rows
        BY <1>1, <3>1 DEF PassT
      <3> QED
        BY <3>1, <3>2 DEF Prompts!Rows
    <2> QED
      BY <1>2, <2>1
  <1>5. ASSUME NEW r \in Request
        PROVE  outputs'[r] \in 0..Cardinality(App) /\ outputs'[r] + Cardinality(Adders(r)') <= Cardinality(App)
    <2>1. outputs[r] \in Nat /\ outputs[r] + Cardinality(Adders(r)) <= Cardinality(App)
      <3>1. outputs[r] \in 0..Cardinality(App)
        BY <1>1
      <3> QED
        BY <3>1, AddersFinite DEF PromptInv
    <2>2. Adders(r)' = Adders(r) \ {p}
      <3>1. \A q \in App : MayAdd(r, pass'[q]) <=> q # p /\ MayAdd(r, pass[q])
        BY <1>3, NewPassType
      <3> QED
        BY <3>1 DEF Adders, MayAdd
    <2>3. /\ IsFiniteSet(Adders(r)) /\ Cardinality(Adders(r)) \in Nat /\ Cardinality(App) \in Nat
          /\ Cardinality(Adders(r)') \in Nat /\ Cardinality(Adders(r)') <= Cardinality(Adders(r))
      <3>1. Adders(r)' \subseteq Adders(r)
        BY <2>2
      <3> QED
        BY <3>1, AddersFinite, FS_Subset, FS_CardinalityType
    <2>4. CASE r \in pass[p].adds
      <3>1. p \in Adders(r)
        BY <2>4 DEF Adders, MayAdd
      <3>2. Cardinality(Adders(r)') = Cardinality(Adders(r)) - 1
        BY <2>2, <2>3, <3>1, FS_RemoveElement
      <3>3. outputs'[r] = outputs[r] + 1
        BY <2>4 DEF Prompts!Commits
      <3> QED
        BY <2>1, <2>3, <3>2, <3>3
    <2>5. CASE r \notin pass[p].adds
      <3>1. outputs'[r] = outputs[r]
        BY <2>1, <2>5 DEF Prompts!Commits
      <3> QED
        BY <2>1, <2>3, <3>1
    <2> QED
      BY <2>4, <2>5
  <1>6. outputs' \in [Request -> 0..Cardinality(App)]
    <2>1. outputs' = [r \in Request |-> outputs'[r]]
      BY DEF Prompts!Commits
    <2> QED
      BY <1>5, <2>1
  <1>7. Prompts!TypeOK'
    BY <1>2, <1>3, <1>4, <1>6, PromptsCardinality DEF PromptInv, Prompts!TypeOK, PassT
  <1>8. ASSUME NEW q \in App, ~pass'[q].busy PROVE pass'[q].todo = {} /\ pass'[q].adds = {}
    <2>1. CASE q = p
      BY <1>3, <2>1, NewPassType
    <2>2. CASE q # p
      BY <1>3, <1>8, <2>2 DEF PromptInv
    <2> QED
      BY <2>1, <2>2
  <1> QED
    BY <1>5, <1>7, <1>8 DEF PromptInv

LEMMA PromptCrash == ASSUME PromptInv, NEW p \in App, Prompts!Crash(p) PROVE PromptInv'
  <1>1. handler \in [Request -> {"none", "submits", "accepted", "fails", "over"}]
    BY DEF PromptInv, Prompts!TypeOK
  <1>2. handler' \in [Request -> {"none", "submits", "accepted", "fails", "over"}]
    BY <1>1 DEF Prompts!Crash
  <1>3. job' \in [Request -> {"none"} \cup Prompts!Alive \cup Prompts!Ends]
    BY DEF PromptInv, Prompts!TypeOK, Prompts!Crash
  <1>4. pass' = [pass EXCEPT ![p] = Prompts!NewPass] /\ UNCHANGED <<request, outputs, old>>
    BY DEF Prompts!Crash
  <1> QED
    BY <1>2, <1>3, <1>4, NewPassType, PromptPass

LEMMA PromptHandler == ASSUME PromptInv, NEW r \in Request, Prompts!Generates(r) PROVE PromptInv'
  <1>1. /\ request \in [Request -> Prompts!Rows] /\ handler \in [Request -> {"none", "submits", "accepted", "fails", "over"}]
        /\ job \in [Request -> {"none"} \cup Prompts!Alive \cup Prompts!Ends] /\ UNCHANGED <<outputs, old, pass>>
    BY DEF PromptInv, Prompts!TypeOK, Prompts!Generates, Prompts!Stores, Prompts!Submits, Prompts!Records
  <1>2. request' \in [Request -> Prompts!Rows]
    <2>1. ASSUME NEW s \in Prompts!Statuses, request' = [request EXCEPT ![r].status = s] PROVE request' \in [Request -> Prompts!Rows]
      <3>1. [request[r] EXCEPT !.status = s] \in Prompts!Rows
        BY <1>1 DEF Prompts!Rows
      <3> QED
        BY <1>1, <2>1, <3>1
    <2>2. {"SUBMITTING", "FAILED", "IN_QUEUE"} \subseteq Prompts!Statuses
      BY DEF Prompts!Statuses, Prompts!Asked, Prompts!Ended, Prompts!Failed
    <2>3. [status |-> "IN_QUEUE", job |-> TRUE] \in Prompts!Rows
      BY <2>2 DEF Prompts!Rows
    <2>4. CASE Prompts!Stores(r)
      BY <2>1, <2>2, <2>4 DEF Prompts!Stores
    <2>5. CASE Prompts!Submits(r)
      BY <1>1, <2>5 DEF Prompts!Submits
    <2>6. CASE Prompts!Records(r)
      BY <1>1, <2>1, <2>2, <2>3, <2>6 DEF Prompts!Records
    <2> QED
      BY <2>4, <2>5, <2>6 DEF Prompts!Generates
  <1>3. handler' \in [Request -> {"none", "submits", "accepted", "fails", "over"}]
    BY <1>1 DEF Prompts!Generates, Prompts!Stores, Prompts!Submits, Prompts!Records, Prompts!At
  <1>4. job' \in [Request -> {"none"} \cup Prompts!Alive \cup Prompts!Ends]
    BY <1>1 DEF Prompts!Generates, Prompts!Stores, Prompts!Submits, Prompts!Records, Prompts!Alive
  <1>5. Prompts!TypeOK'
    BY <1>1, <1>2, <1>3, <1>4 DEF PromptInv, Prompts!TypeOK
  <1> QED
    BY <1>1, <1>5, PromptElse

LEMMA PromptJobs ==
    ASSUME PromptInv, NEW r \in Request, Prompts!JobStarts(r) \/ Prompts!JobEnds(r) \/ Prompts!Ages(r)
    PROVE  PromptInv'
  <1>1. job \in [Request -> {"none"} \cup Prompts!Alive \cup Prompts!Ends] /\ UNCHANGED <<request, outputs, handler, pass>> /\ old \in SUBSET Request
    BY DEF PromptInv, Prompts!TypeOK, Prompts!JobStarts, Prompts!JobEnds, Prompts!Ages
  <1>2. job' \in [Request -> {"none"} \cup Prompts!Alive \cup Prompts!Ends]
    BY <1>1 DEF Prompts!JobStarts, Prompts!JobEnds, Prompts!Ages, Prompts!Alive
  <1>3. old' \in SUBSET Request
    BY <1>1 DEF Prompts!JobStarts, Prompts!JobEnds, Prompts!Ages
  <1>4. Prompts!TypeOK'
    BY <1>1, <1>2, <1>3 DEF PromptInv, Prompts!TypeOK
  <1> QED
    BY <1>1, <1>4, PromptElse

LEMMA PromptMonitor == ASSUME PromptInv, NEW p \in App, Prompts!Monitor(p) PROVE PromptInv'
  BY PromptLists, PromptCommits, PromptHears DEF Prompts!Monitor

LEMMA PromptSame == ASSUME PromptInv, UNCHANGED Prompts!vars PROVE PromptInv'
  <1>1. Prompts!TypeOK'
    BY DEF PromptInv, Prompts!TypeOK, Prompts!vars
  <1> QED
    BY <1>1, PromptElse DEF Prompts!vars

-----------------------------------------------------------------------------
(* The accounts: the administrator stands once the start has repaired it.  *)

(* Who saves the administrator has read a row; a super administrator may   *)
(* do everything.                                                          *)
AdminGood == case.admin # Access!NoRow /\ case.admin.active /\ case.admin.role = "SUPER_ADMIN"

AccessInv ==
    /\ Access!TypeOK
    /\ (\E h \in Handler : answer[h].at = "read") => case.admin # Access!NoRow
    /\ "admin:*" \in case.granted["SUPER_ADMIN"]
    /\ case.repaired /\ (\A h \in Handler : answer[h].at # "saved") => AdminGood

AccountsType == [admin : {Access!NoRow} \cup Access!Row, user : {Access!NoRow} \cup Access!Row,
                     granted : [Access!Roles -> SUBSET Access!Codes], repaired : BOOLEAN]
Savings == {Access!Free, [at |-> "saved"]} \cup [at : {"read"}, row : Access!Row, role : Access!Roles, active : {TRUE}]

LEMMA EnsuredGood ==
    ASSUME NEW u \in {Access!NoRow} \cup Access!Row
    PROVE  /\ Access!Ensured(u) \in Access!Row /\ Access!Ensured(u) # Access!NoRow
           /\ Access!Ensured(u).active /\ Access!Ensured(u).role = "SUPER_ADMIN"
  <1>1. CASE u = Access!NoRow
    BY <1>1 DEF Access!Ensured, Access!NewAdmin, Access!Row, Access!Roles, Access!Codes, Access!NoRow
  <1>2. CASE u # Access!NoRow
    <2>1. Access!Ensured(u) = [u EXCEPT !.active = TRUE, !.role = "SUPER_ADMIN"] /\ u \in Access!Row
      BY <1>2 DEF Access!Ensured
    <2>2. Access!Ensured(u) \in Access!Row /\ Access!Ensured(u).active /\ Access!Ensured(u).role = "SUPER_ADMIN"
      BY <2>1 DEF Access!Row, Access!Roles
    <2> QED
      BY <2>2 DEF Access!NoRow
  <1> QED
    BY <1>1, <1>2

LEMMA RepairedGood ==
    ASSUME NEW a \in AccountsType
    PROVE  /\ Access!Repaired(a) \in AccountsType
           /\ Access!Repaired(a).admin = Access!Ensured(a.admin)
           /\ Access!Repaired(a).granted = a.granted
  BY EnsuredGood DEF Access!Repaired, AccountsType

LEMMA AccessInit == Access!Init => AccessInv
  <1> SUFFICES ASSUME Access!Init PROVE AccessInv
    OBVIOUS
  <1> USE DEF Access!Init
  <1>1. case.admin \in {Access!NoRow} \cup Access!Row
    BY DEF Access!Row
  <1>2. case.user \in {Access!NoRow} \cup Access!Row
    <2> DEFINE u == [role |-> "OPERATOR", active |-> TRUE, codes |-> {}, extra |-> {"users:write"}]
    <2>1. u \in Access!Row
      BY DEF Access!Row, Access!Roles, Access!Codes
    <2>2. case.user \in {Access!NoRow, u}
      OBVIOUS
    <2> QED
      BY <2>1, <2>2
  <1>3. case.granted \in [Access!Roles -> SUBSET Access!Codes] /\ "admin:*" \in case.granted["SUPER_ADMIN"]
    BY DEF Access!Roles, Access!Codes
  <1>4. /\ case = [admin |-> case.admin, user |-> case.user, granted |-> case.granted,
                    repaired |-> case.repaired] /\ case.repaired = FALSE
    OBVIOUS
  <1>5. case \in AccountsType
    BY <1>1, <1>2, <1>3, <1>4 DEF AccountsType
  <1>6. \A h \in Handler : answer[h].at # "read"
    BY DEF Access!Free
  <1> QED
    BY <1>3, <1>4, <1>5, <1>6 DEF AccessInv, Access!TypeOK, AccountsType, AdminGood

LEMMA RepairKeeps ==
    ASSUME AccessInv, NEW a \in AccountsType, case' = Access!Repaired(a), answer' \in [Handler -> Savings],
           "admin:*" \in a.granted["SUPER_ADMIN"]
    PROVE  AccessInv'
  <1>1. case' \in AccountsType /\ case'.admin = Access!Ensured(a.admin) /\ case'.granted = a.granted
    BY RepairedGood
  <1>2. Access!Ensured(a.admin) # Access!NoRow /\ Access!Ensured(a.admin).active /\ Access!Ensured(a.admin).role = "SUPER_ADMIN"
    BY EnsuredGood DEF AccountsType
  <1> QED
    BY <1>1, <1>2 DEF AccessInv, Access!TypeOK, AccountsType, Savings, AdminGood

LEMMA AccessStep == AccessInv /\ [Access!Next]_Access!vars => AccessInv'
  <1> SUFFICES ASSUME AccessInv, [Access!Next]_Access!vars PROVE AccessInv'
    OBVIOUS
  <1>0. case \in AccountsType /\ answer \in [Handler -> Savings] /\ "admin:*" \in case.granted["SUPER_ADMIN"]
    BY DEF AccessInv, Access!TypeOK, AccountsType, Savings
  <1>1. CASE Access!Login
    BY <1>0, <1>1, RepairKeeps DEF Access!Login
  <1>2. CASE Access!SaveUser
    <2>1. PICK r \in Access!Roles, on \in BOOLEAN :
             LET u == IF case.user = Access!NoRow THEN Access!NewAdmin ELSE case.user
             IN  case' = Access!Repaired([case EXCEPT !.user =
                     [u EXCEPT !.role = r, !.active = on, !.codes = {"users:*"}]])
      BY <1>2 DEF Access!SaveUser
    <2> DEFINE u == IF case.user = Access!NoRow THEN Access!NewAdmin ELSE case.user
               v == [u EXCEPT !.role = r, !.active = on, !.codes = {"users:*"}]
               a == [case EXCEPT !.user = v]
    <2>2. u \in Access!Row
      BY <1>0 DEF AccountsType, Access!NewAdmin, Access!Row, Access!Roles, Access!Codes
    <2>3. v \in Access!Row
      <3> HIDE DEF u
      <3> QED
        BY <2>2 DEF Access!Row, Access!Codes
    <2>4. case' = Access!Repaired(a)
      BY <2>1
    <2>5. a \in AccountsType /\ a.granted = case.granted
      <3> HIDE DEF v
      <3> QED
        BY <1>0, <2>3 DEF AccountsType
    <2>6. answer' \in [Handler -> Savings]
      BY <1>0, <1>2 DEF Access!SaveUser
    <2> HIDE DEF a
    <2> QED
      BY <1>0, <2>4, <2>5, <2>6, RepairKeeps
  <1>3. CASE Access!Deactivate
    <2>1. case.user \in Access!Row
      BY <1>0, <1>3 DEF Access!Deactivate, AccountsType
    <2>2. [case.user EXCEPT !.active = FALSE] \in Access!Row
      BY <2>1 DEF Access!Row
    <2>3. Access!Deactivated(case) = [case EXCEPT !.user = [case.user EXCEPT !.active = FALSE]]
      BY DEF Access!Deactivated
    <2>4. Access!Deactivated(case) \in AccountsType /\ Access!Deactivated(case).granted = case.granted
      BY <1>0, <2>2, <2>3 DEF AccountsType
    <2> QED
      BY <1>0, <1>3, <2>4, RepairKeeps DEF Access!Deactivate
  <1>4. CASE Access!SaveRole
    <2>1. PICK role \in Access!Roles, codes \in {{}, {"admin:*"}, {"unknown"}} :
             /\ Access!Keeps(role, codes)
             /\ case' = [case EXCEPT !.granted = [case.granted EXCEPT ![role] = codes]]
             /\ UNCHANGED answer
      BY <1>4 DEF Access!SaveRole, Access!Granted
    <2>2. [case.granted EXCEPT ![role] = codes] \in [Access!Roles -> SUBSET Access!Codes]
      BY <1>0, <2>1 DEF AccountsType, Access!Keeps
    <2>3. "admin:*" \in [case.granted EXCEPT ![role] = codes]["SUPER_ADMIN"]
      BY <1>0, <2>1 DEF AccountsType, Access!Keeps, Access!Roles
    <2>4. case' \in AccountsType /\ case'.admin = case.admin /\ case'.repaired = case.repaired
          /\ "admin:*" \in case'.granted["SUPER_ADMIN"]
      BY <1>0, <2>1, <2>2, <2>3 DEF AccountsType
    <2> QED
      BY <2>1, <2>4 DEF AccessInv, Access!TypeOK, AccountsType, AdminGood
  <1>5. ASSUME NEW h \in Handler, Access!Begin(h) PROVE AccessInv'
    <2>1. PICK r \in Access!Roles : answer' = [answer EXCEPT ![h] =
             [at |-> "read", row |-> case.admin, role |-> r, active |-> TRUE]]
      BY <1>5 DEF Access!Begin
    <2> DEFINE s == [at |-> "read", row |-> case.admin, role |-> r, active |-> TRUE]
    <2>2. s \in Savings /\ s.at = "read" /\ case.admin # Access!NoRow
      BY <1>0, <1>5 DEF Access!Begin, AccountsType, Savings
    <2>3. answer[h].at # "saved"
      BY <1>5 DEF Access!Begin, Access!Free
    <2> HIDE DEF s
    <2>4. answer' \in [Handler -> Savings] /\ answer' = [answer EXCEPT ![h] = s]
      BY <1>0, <2>1, <2>2 DEF s
    <2>5. (\A g \in Handler : answer'[g].at # "saved") => \A g \in Handler : answer[g].at # "saved"
      BY <1>0, <2>2, <2>3, <2>4
    <2> QED
      BY <1>0, <1>5, <2>2, <2>4, <2>5 DEF Access!Begin, AccessInv, Access!TypeOK, AccountsType, Savings,
         AdminGood
  <1>6. ASSUME NEW h \in Handler, Access!Commit(h) PROVE AccessInv'
    <2>1. case.admin \in Access!Row /\ answer[h] \in [at : {"read"}, row : Access!Row, role : Access!Roles, active : {TRUE}]
      <3>1. answer[h].at = "read" /\ answer[h] \in Savings /\ case.admin # Access!NoRow
        BY <1>0, <1>6 DEF Access!Commit, AccessInv
      <3>2. answer[h] # Access!Free /\ answer[h] # [at |-> "saved"]
        BY <3>1 DEF Access!Free
      <3> QED
        BY <1>0, <3>1, <3>2 DEF AccountsType, Savings
    <2>2. Access!Written(h) \in Access!Row /\ Access!Written(h) # Access!NoRow
      <3>1. Access!Written(h) \in Access!Row
        BY <2>1 DEF Access!Written, Access!Row, Access!Codes
      <3> QED
        BY <3>1 DEF Access!Row, Access!NoRow, Access!Roles
    <2>3. case' \in AccountsType /\ case'.admin = Access!Written(h) /\ case'.granted = case.granted
      BY <1>0, <1>6, <2>2 DEF Access!Commit, AccountsType
    <2>4. answer' \in [Handler -> Savings] /\ answer'[h].at = "saved"
      BY <1>0, <1>6 DEF Access!Commit, Savings
    <2> QED
      BY <1>0, <2>2, <2>3, <2>4 DEF AccessInv, Access!TypeOK, AccountsType, Savings
  <1>7. ASSUME NEW h \in Handler, Access!Answer(h) PROVE AccessInv'
    <2>1. answer' \in [Handler -> Savings]
      BY <1>0, <1>7 DEF Access!Answer, Savings
    <2> QED
      BY <1>0, <1>7, <2>1, RepairKeeps DEF Access!Answer
  <1>8. ASSUME NEW h \in Handler, Access!Dies(h) PROVE AccessInv'
    <2>1. answer' \in [Handler -> Savings] /\ \A g \in Handler : answer'[g].at = "read" => answer[g].at = "read"
      BY <1>0, <1>8 DEF Access!Dies, Savings, Access!Free
    <2>2. case' \in AccountsType /\ case'.admin = case.admin /\ case'.granted = case.granted
          /\ ~case'.repaired
      BY <1>0, <1>8 DEF Access!Dies, AccountsType
    <2> QED
      BY <1>0, <2>1, <2>2 DEF AccessInv, Access!TypeOK, AccountsType, Savings
  <1>9. CASE UNCHANGED Access!vars
    BY <1>9 DEF Access!vars, AccessInv, Access!TypeOK, AdminGood
  <1> QED
    BY <1>1, <1>2, <1>3, <1>4, <1>5, <1>6, <1>7, <1>8, <1>9 DEF Access!Next

LEMMA AccessSafe == AccessInv => Access!AdminStands
  BY DEF AccessInv, Access!AdminStands, AdminGood, Access!Current, Access!Effective

-----------------------------------------------------------------------------
(* The outputs a worker leaves: each is under its old name or its new one, *)
(* and an importer leaves behind it only what has the new name.            *)

BucketType == [outputs : Outputs!Listed \X Outputs!Listed, segments : {1, 2}, objects : [Outputs!Key -> 0..2], manifest : BOOLEAN,
               recorded : {<<>>} \cup [1..2 -> Outputs!Key], faults : 0..MaxFaults]
Work == [at : {"idle", "copy", "delete", "record"}, i : 0..2]

(* Neither name of an output holds another, and one that is not misnamed   *)
(* is under its old name or its new one.                                   *)
Standing(i) ==
    /\ Outputs!Object(Outputs!Original(i)) \in {Outputs!None, i} /\ Outputs!Object(Outputs!Name(i)) \in {Outputs!None, i}
    /\ \/ Outputs!Misnamed(i)
       \/ Outputs!Object(Outputs!Original(i)) = i
       \/ Outputs!Object(Outputs!Name(i)) = i
Moved(i) == Outputs!Misnamed(i) \/ Outputs!Object(Outputs!Name(i)) = i

(* What an importer has passed, and what it is about to delete, has its    *)
(* new name.                                                               *)
Behind(w) ==
    /\ w.at = "delete" => ~Outputs!InPlace(w.i) /\ Moved(w.i)
    /\ \A j \in 1..2 : (w.at \in {"copy", "delete"} /\ j < w.i) \/ w.at = "record" => Moved(j)

Working(w) ==
    /\ w.at \in {"copy", "delete"} => w.i \in 1..2
    /\ w.at # "idle" => case.manifest
    /\ Outputs!Distinct /\ case.manifest => Behind(w)

OutInv ==
    /\ case \in BucketType /\ answer \in [App -> Work]
    /\ \A p \in App : Working(answer[p])
    /\ case.recorded # <<>> => case.manifest
    /\ Outputs!Distinct /\ case.manifest =>
          /\ \A i \in 1..2 : Standing(i)
          /\ case.recorded # <<>> => case.recorded = Outputs!Saved /\ \A i \in 1..2 : Moved(i)

-----------------------------------------------------------------------------
LEMMA TotalIsTwo ==
    ASSUME case \in BucketType
    PROVE  Outputs!Total = 2 /\ 1..Outputs!Total = 1..2 /\ \A i \in 1..2 : Outputs!Outputs[i] \in Outputs!Listed
  <1>1. PICK a \in Outputs!Listed, b \in Outputs!Listed : case.outputs = <<a, b>>
    BY DEF BucketType
  <1>2. Outputs!Outputs = <<a, b>> /\ Len(<<a, b>>) = 2
    BY <1>1 DEF Outputs!Outputs
  <1> QED
    BY <1>2 DEF Outputs!Total

LEMMA NameTypes ==
    ASSUME case \in BucketType, NEW i \in 1..2
    PROVE  /\ Outputs!Name(i) \in Outputs!Key /\ Outputs!Name(i)[1] # "original"
           /\ Outputs!Original(i) = Outputs!Name(i) \/ Outputs!Original(i) = <<"original", i>>
           /\ Outputs!Original(i) \in Outputs!Key
  <1>1. Outputs!Outputs[i] \in Outputs!Listed /\ case.segments \in {1, 2} /\ Outputs!Total = 2
    BY TotalIsTwo DEF BucketType
  <1>2. Outputs!Outputs[i].segment \in {0, 1, 2}
    BY <1>1 DEF Outputs!Listed
  <1>3. \/ \E s \in {0, 1, 2} : Outputs!Role(i) = <<"segment", s>>
        \/ Outputs!Role(i) = <<"final", 0>>
    BY <1>1, <1>2 DEF Outputs!Role
  <1>4. \/ \E s \in {0, 1, 2} : Outputs!Name(i) = <<"segment", s>>
        \/ Outputs!Name(i) = <<"final", 0>>
    BY <1>1, <1>3 DEF Outputs!Name
  <1>5. Outputs!Name(i) \in Outputs!Key /\ Outputs!Name(i)[1] # "original"
    BY <1>4 DEF Outputs!Key
  <1>6. Outputs!Original(i) = Outputs!Name(i) \/ Outputs!Original(i) = <<"original", i>>
    BY DEF Outputs!Original
  <1>7. <<"original", i>> \in Outputs!Key
    BY DEF Outputs!Key
  <1> QED
    BY <1>5, <1>6, <1>7

LEMMA NamesApart ==
    ASSUME case \in BucketType, Outputs!Distinct, NEW i \in 1..2, NEW j \in 1..2, i # j
    PROVE  /\ Outputs!Name(i) # Outputs!Name(j) /\ Outputs!Original(i) # Outputs!Original(j)
           /\ Outputs!Name(i) # Outputs!Original(j) /\ Outputs!Original(i) # Outputs!Name(j)
  <1>1. Outputs!Name(i) # Outputs!Name(j)
    BY TotalIsTwo DEF Outputs!Distinct
  <1>2. <<"original", i>> # <<"original", j>>
    OBVIOUS
  <1>3. Outputs!Name(i) # <<"original", j>> /\ Outputs!Name(j) # <<"original", i>>
    BY NameTypes
  <1> QED
    BY <1>1, <1>2, <1>3, NameTypes

LEMMA NamesSame ==
    ASSUME case'.outputs = case.outputs, case'.segments = case.segments
    PROVE  /\ Outputs!Total' = Outputs!Total /\ Outputs!Saved' = Outputs!Saved /\ (Outputs!Distinct' <=> Outputs!Distinct)
           /\ \A i : Outputs!Name(i)' = Outputs!Name(i) /\ Outputs!Original(i)' = Outputs!Original(i)
                  /\ (Outputs!InPlace(i)' <=> Outputs!InPlace(i)) /\ (Outputs!Misnamed(i)' <=> Outputs!Misnamed(i))
  <1>1. Outputs!Outputs' = Outputs!Outputs /\ Outputs!Total' = Outputs!Total
    BY DEF Outputs!Outputs, Outputs!Total
  <1>2. \A i : Outputs!Role(i)' = Outputs!Role(i)
    BY <1>1 DEF Outputs!Role
  <1>3. \A i : Outputs!Name(i)' = Outputs!Name(i)
    BY <1>1, <1>2 DEF Outputs!Name
  <1>4. \A i : Outputs!Original(i)' = Outputs!Original(i)
    BY <1>1, <1>3 DEF Outputs!Original
  <1> QED
    BY <1>1, <1>3, <1>4 DEF Outputs!Saved, Outputs!Distinct, Outputs!InPlace, Outputs!Misnamed

LEMMA OutInit == Outputs!Init => OutInv
  <1> SUFFICES ASSUME Outputs!Init PROVE OutInv
    OBVIOUS
  <1>1. PICK o \in Outputs!Listed \X Outputs!Listed, s \in {1, 2} :
           case = [outputs |-> o, segments |-> s, objects |-> [k \in Outputs!Key |-> Outputs!None],
                     manifest |-> FALSE, recorded |-> <<>>, faults |-> 0]
    BY DEF Outputs!Init
  <1>2. case \in BucketType
    BY <1>1, BoundsAssumption DEF BucketType, Outputs!None
  <1>3. answer \in [App -> Work] /\ \A p \in App : answer[p] = Outputs!Idle
    BY DEF Outputs!Init, Outputs!Idle, Work
  <1> QED
    BY <1>1, <1>2, <1>3 DEF OutInv, Working, Outputs!Idle

(* A step of one importer that takes no new name from an output.           *)
LEMMA OutStep ==
    ASSUME OutInv, NEW p \in App, NEW w \in Work, answer' = [answer EXCEPT ![p] = w],
           case' \in BucketType, case'.outputs = case.outputs, case'.segments = case.segments,
           case'.manifest = case.manifest, case'.recorded = case.recorded,
           Outputs!Distinct /\ case.manifest => \A i \in 1..2 : Standing(i)' /\ (Moved(i) => Moved(i)'),
           Working(w)'
    PROVE  OutInv'
  <1>1. answer' \in [App -> Work] /\ answer'[p] = w /\ \A q \in App : q # p => answer'[q] = answer[q]
    BY DEF OutInv
  <1>2. ASSUME NEW q \in App PROVE Working(answer[q])'
    <2>1. CASE q = p
      BY <1>1, <2>1 DEF Working, Behind, Outputs!InPlace, Outputs!Misnamed, Moved
    <2>2. CASE q # p
      <3>1. PICK v : v = answer[q] /\ v \in Work
        BY DEF OutInv
      <3>2. Working(v) /\ v = answer'[q]
        BY <1>1, <2>2, <3>1 DEF OutInv
      <3>3. (Outputs!Distinct /\ case.manifest)' => Behind(v)'
        <4>1. v.at = "delete" => v.i \in 1..2
          BY <3>2 DEF Working
        <4> QED
          BY <3>2, <4>1, NamesSame DEF Working, Behind
      <3>4. Working(v)'
        BY <3>2, <3>3 DEF Working
      <3> QED
        BY <3>2, <3>4 DEF Working, Behind, Outputs!InPlace, Outputs!Misnamed, Moved
    <2> QED
      BY <2>1, <2>2
  <1>3. (Outputs!Distinct /\ case.manifest)' =>
           (case.recorded # <<>> => case.recorded = Outputs!Saved /\ \A i \in 1..2 : Moved(i))'
    BY NamesSame DEF OutInv
  <1> QED
    BY <1>1, <1>2, <1>3, NamesSame DEF OutInv

(* What an importer does next when it has dealt with an output.            *)
LEMMA PassesTo ==
    ASSUME OutInv, NEW p \in App, answer[p].at \in {"copy", "delete"}, Outputs!Passes(p),
           NEW n, n = answer[p].i,
           case'.outputs = case.outputs, case'.segments = case.segments,
           case'.manifest = case.manifest,
           Outputs!Distinct /\ case.manifest => (\A i \in 1..2 : Moved(i) => Moved(i)') /\ Moved(n)'
    PROVE  \E w \in Work : answer' = [answer EXCEPT ![p] = w] /\ Working(w)'
  <1>1. PICK v \in Work : v = answer[p]
    BY DEF OutInv
  <1>2. v.i \in 1..2 /\ v.at \in {"copy", "delete"} /\ case.manifest /\ Working(v) /\ Outputs!Total = 2
    BY <1>1, TotalIsTwo DEF OutInv, Working
  <1>3. PICK w : w = [at |-> IF v.i = Outputs!Total THEN "record" ELSE "copy", i |-> IF v.i = Outputs!Total THEN 0 ELSE v.i + 1]
    OBVIOUS
  <1>4. w \in Work /\ answer' = [answer EXCEPT ![p] = w]
    BY <1>1, <1>2, <1>3 DEF Outputs!Passes, Outputs!Goes, Work
  <1>5. (w.at = "record" /\ v.i = 2) \/ (w.at = "copy" /\ w.i = 2 /\ v.i = 1)
    BY <1>2, <1>3
  <1>6. (Outputs!Distinct /\ case.manifest)' => Behind(w)'
    <2> SUFFICES ASSUME Outputs!Distinct, case.manifest PROVE Behind(w)'
      BY NamesSame
    <2>1. v.i = n /\ Moved(n)' /\ \A j \in 1..2 : j < n => Moved(j)'
      BY <1>1, <1>2 DEF Working, Behind
    <2> QED
      BY <1>2, <1>5, <2>1 DEF Behind
  <1>7. Working(w)'
    BY <1>2, <1>5, <1>6 DEF Working
  <1> QED
    BY <1>4, <1>7

LEMMA StopsTo ==
    ASSUME NEW p, Outputs!Stops(p) PROVE \E w \in Work : answer' = [answer EXCEPT ![p] = w] /\ Working(w)'
  <1>1. PICK w : w = [at |-> "idle", i |-> 0]
    OBVIOUS
  <1>2. w \in Work /\ Working(w)'
    BY <1>1 DEF Work, Working, Behind
  <1> QED
    BY <1>1, <1>2 DEF Outputs!Stops, Outputs!Goes

LEMMA Unmoved ==
    ASSUME OutInv, case'.outputs = case.outputs, case'.segments = case.segments,
           case'.objects = case.objects
    PROVE  Outputs!Distinct /\ case.manifest => \A i \in 1..2 : Standing(i)' /\ (Moved(i) => Moved(i)')
  BY NamesSame DEF OutInv, Standing, Moved, Outputs!Object

(* A copy takes an output to its new name.                                 *)
LEMMA CopyMoves ==
    ASSUME OutInv, NEW i \in 1..2, case'.outputs = case.outputs, case'.segments = case.segments,
           Outputs!Object(Outputs!Original(i)) # Outputs!None, case'.objects = Outputs!Put(Outputs!Name(i), Outputs!Object(Outputs!Original(i)))
    PROVE  /\ Outputs!Distinct /\ case.manifest => (\A j \in 1..2 : Standing(j)' /\ (Moved(j) => Moved(j)')) /\ Moved(i)'
           /\ case'.objects \in [Outputs!Key -> 0..2]
  <1>1. /\ case \in BucketType /\ case.objects \in [Outputs!Key -> 0..2]
        /\ \A j \in 1..2 : Outputs!Name(j) \in Outputs!Key /\ Outputs!Original(j) \in Outputs!Key
    BY NameTypes DEF OutInv, BucketType
  <1>2. case'.objects = [case.objects EXCEPT ![Outputs!Name(i)] = Outputs!Object(Outputs!Original(i))]
    BY DEF Outputs!Put
  <1>3. Outputs!Object(Outputs!Original(i)) \in 0..2
    BY <1>1 DEF Outputs!Object
  <1>4. ASSUME Outputs!Distinct, case.manifest, NEW j \in 1..2
        PROVE  Standing(j)' /\ (Moved(j) => Moved(j)') /\ (j = i => Moved(j)')
    <2>1. Standing(j) /\ Standing(i) /\ Outputs!Object(Outputs!Original(i)) = i
      BY <1>4 DEF OutInv, Standing
    <2>2. CASE j = i
      BY <1>1, <1>2, <2>1, <2>2, NamesSame DEF Standing, Moved, Outputs!Object
    <2>3. CASE j # i
      BY <1>1, <1>2, <1>4, <2>1, <2>3, NamesSame, NamesApart DEF Standing, Moved, Outputs!Object
    <2> QED
      BY <2>2, <2>3
  <1> QED
    BY <1>1, <1>2, <1>3, <1>4

(* A deletion takes only what has been copied.                             *)
LEMMA DeleteKeeps ==
    ASSUME OutInv, NEW i \in 1..2, case'.outputs = case.outputs, case'.segments = case.segments,
           Outputs!Distinct /\ case.manifest => ~Outputs!InPlace(i) /\ Moved(i),
           case'.objects = Outputs!Put(Outputs!Original(i), Outputs!None)
    PROVE  /\ Outputs!Distinct /\ case.manifest => \A j \in 1..2 : Standing(j)' /\ (Moved(j) => Moved(j)')
           /\ case'.objects \in [Outputs!Key -> 0..2]
  <1>1. /\ case \in BucketType /\ case.objects \in [Outputs!Key -> 0..2]
        /\ \A j \in 1..2 : Outputs!Name(j) \in Outputs!Key /\ Outputs!Original(j) \in Outputs!Key
    BY NameTypes DEF OutInv, BucketType
  <1>2. case'.objects = [case.objects EXCEPT ![Outputs!Original(i)] = Outputs!None]
    BY DEF Outputs!Put
  <1>3. ASSUME Outputs!Distinct, case.manifest, NEW j \in 1..2
        PROVE  Standing(j)' /\ (Moved(j) => Moved(j)')
    <2>1. /\ Standing(j)
          /\ Outputs!Misnamed(i) \/ (Outputs!Original(i) # Outputs!Name(i) /\ Outputs!Object(Outputs!Name(i)) = i)
      BY <1>3 DEF OutInv, Outputs!Misnamed, Moved
    <2>2. CASE j = i
      BY <1>1, <1>2, <2>1, <2>2, NamesSame DEF Standing, Moved, Outputs!Object
    <2>3. CASE j # i
      BY <1>1, <1>2, <1>3, <2>1, <2>3, NamesSame, NamesApart DEF Standing, Moved, Outputs!Object
    <2> QED
      BY <2>2, <2>3
  <1> QED
    BY <1>1, <1>2, <1>3 DEF Outputs!None

(* An output that is not at its old name any more has its new one.         *)
LEMMA GoneMoved ==
    ASSUME OutInv, Outputs!Distinct, case.manifest, NEW i \in 1..2
    PROVE  Outputs!Object(Outputs!Name(i)) # Outputs!None \/ Outputs!InPlace(i) => Moved(i)
  BY DEF OutInv, Standing, Moved, Outputs!InPlace, Outputs!Misnamed, Outputs!None

LEMMA BucketSame ==
    ASSUME OutInv, NEW b \in [Outputs!Key -> 0..2], NEW f \in 0..MaxFaults,
           case' = [case EXCEPT !.faults = f, !.objects = b] \/ case' = [case EXCEPT !.objects = b]
    PROVE  /\ case' \in BucketType /\ case'.outputs = case.outputs /\ case'.segments = case.segments
           /\ case'.manifest = case.manifest /\ case'.recorded = case.recorded /\ case'.objects = b
  BY DEF OutInv, BucketType

LEMMA Faulted ==
    ASSUME OutInv, Outputs!Fault
    PROVE  /\ case' \in BucketType /\ case'.outputs = case.outputs /\ case'.segments = case.segments
           /\ case'.manifest = case.manifest /\ case'.recorded = case.recorded
           /\ case'.objects = case.objects
  <1>1. case \in BucketType /\ case.faults + 1 \in 0..MaxFaults
    BY BoundsAssumption DEF OutInv, BucketType, Outputs!Fault
  <1> QED
    BY <1>1 DEF Outputs!Fault, BucketType

LEMMA ProvidesKept == ASSUME OutInv, Outputs!Provides PROVE OutInv'
  <1> DEFINE ob == [k \in Outputs!Key |-> IF \E i \in 1..Outputs!Total : Outputs!Original(i) = k
                                  THEN CHOOSE i \in 1..Outputs!Total : Outputs!Original(i) = k ELSE Outputs!None]
  <1>1. case \in BucketType /\ Outputs!Total = 2 /\ 1..Outputs!Total = 1..2 /\ ~case.manifest /\ case.recorded = <<>>
    BY TotalIsTwo DEF OutInv, Outputs!Provides
  <1>2. ob \in [Outputs!Key -> 0..2]
    BY <1>1 DEF Outputs!None
  <1>3. case' = [case EXCEPT !.manifest = TRUE, !.objects = ob] /\ UNCHANGED answer
    BY DEF Outputs!Provides
  <1> HIDE DEF ob
  <1>4. /\ case' \in BucketType /\ case'.outputs = case.outputs /\ case'.segments = case.segments
        /\ case'.recorded = <<>> /\ case'.objects = ob
    BY <1>1, <1>2, <1>3 DEF BucketType
  <1>5. \A p \in App : answer[p].at = "idle"
    BY <1>1 DEF OutInv, Working, Work
  <1>6. \A p \in App : Working(answer[p])'
    BY <1>3, <1>5 DEF Working, Behind
  <1>7. ASSUME Outputs!Distinct, NEW i \in 1..2 PROVE Standing(i)'
    <2>1. Outputs!Original(i) \in Outputs!Key /\ Outputs!Name(i) \in Outputs!Key
      BY <1>1, NameTypes
    <2>2. ob[Outputs!Original(i)] = i
      BY <1>1, <1>7, <2>1, NamesApart DEF ob
    <2>3. ob[Outputs!Name(i)] \in {Outputs!None, i}
      BY <1>1, <1>7, <2>1, NamesApart DEF ob
    <2> QED
      BY <1>4, <2>2, <2>3, NamesSame DEF Standing, Outputs!Object
  <1> QED
    BY <1>3, <1>4, <1>6, <1>7, NamesSame DEF OutInv

(* Each step of an importer.                                               *)
LEMMA BusyAt ==
    ASSUME OutInv, NEW p \in App
    PROVE  /\ answer[p] \in Work /\ Working(answer[p]) /\ case \in BucketType
           /\ answer[p].at \in {"copy", "delete"} => answer[p].i \in 1..2
           /\ answer[p].at # "idle" => case.manifest
  BY DEF OutInv, Working

LEMMA FetchesKept == ASSUME OutInv, NEW p \in App, Outputs!Fetches(p) PROVE OutInv'
  <1>1. PICK w : w = [at |-> "copy", i |-> 1]
    OBVIOUS
  <1>2. w \in Work /\ answer' = [answer EXCEPT ![p] = w] /\ UNCHANGED case /\ case.manifest
    BY <1>1 DEF Work, Outputs!Fetches, Outputs!Goes
  <1>3. Working(w)'
    BY <1>1, <1>2 DEF Working, Behind
  <1> QED
    BY <1>2, <1>3, Unmoved, BusyAt, OutStep

LEMMA CopiesKept == ASSUME OutInv, NEW p \in App, Outputs!Copies(p) PROVE OutInv'
  <1>1. PICK n : n = answer[p].i
    OBVIOUS
  <1>2. answer[p].at = "copy" /\ n \in 1..2 /\ case.manifest /\ case \in BucketType
    BY <1>1, BusyAt DEF Outputs!Copies
  <1>3. CASE Outputs!InPlace(n) /\ Outputs!Passes(p) /\ UNCHANGED case
    <2>1. Outputs!Distinct => Moved(n)
      BY <1>2, <1>3, GoneMoved
    <2>2. PICK w \in Work : answer' = [answer EXCEPT ![p] = w] /\ Working(w)'
      BY <1>1, <1>2, <1>3, <2>1, Unmoved, NamesSame, PassesTo
    <2> QED
      BY <1>2, <1>3, <2>2, Unmoved, OutStep
  <1>4. CASE /\ ~Outputs!InPlace(n) /\ Outputs!Object(Outputs!Original(n)) # Outputs!None
             /\ case' = [case EXCEPT !.objects = Outputs!Put(Outputs!Name(n), Outputs!Object(Outputs!Original(n)))]
             /\ Outputs!Goes(p, "delete", n)
    <2>1. PICK b : b = Outputs!Put(Outputs!Name(n), Outputs!Object(Outputs!Original(n)))
      OBVIOUS
    <2>2. PICK w : w = [at |-> "delete", i |-> n]
      OBVIOUS
    <2>3. b \in [Outputs!Key -> 0..2]
      BY <1>2, <2>1, NameTypes DEF Outputs!Put, BucketType, Outputs!Object
    <2>4. case.faults \in 0..MaxFaults
      BY <1>2 DEF BucketType
    <2>5. /\ case' \in BucketType /\ case'.outputs = case.outputs /\ case'.segments = case.segments
          /\ case'.manifest = case.manifest /\ case'.recorded = case.recorded /\ case'.objects = b
      BY <1>4, <2>1, <2>3, <2>4, BucketSame
    <2>6. Outputs!Distinct /\ case.manifest => (\A j \in 1..2 : Standing(j)' /\ (Moved(j) => Moved(j)')) /\ Moved(n)'
      BY <1>2, <1>4, <2>1, <2>5, CopyMoves
    <2>7. w \in Work /\ answer' = [answer EXCEPT ![p] = w]
      BY <1>2, <1>4, <2>2 DEF Work, Outputs!Goes
    <2>8. Working(w)'
      <3>1. Working(answer[p])
        BY BusyAt
      <3> QED
        BY <1>1, <1>2, <1>4, <2>2, <2>5, <2>6, <3>1, NamesSame DEF Working, Behind
    <2> QED
      BY <2>5, <2>6, <2>7, <2>8, OutStep
  <1>5. CASE ~Outputs!InPlace(n) /\ Outputs!Object(Outputs!Original(n)) = Outputs!None /\ UNCHANGED case /\ Outputs!Object(Outputs!Name(n)) # Outputs!None /\ Outputs!Passes(p)
    <2>1. Outputs!Distinct => Moved(n)
      BY <1>2, <1>5, GoneMoved
    <2>2. PICK w \in Work : answer' = [answer EXCEPT ![p] = w] /\ Working(w)'
      BY <1>1, <1>2, <1>5, <2>1, Unmoved, NamesSame, PassesTo
    <2> QED
      BY <1>2, <1>5, <2>2, Unmoved, OutStep
  <1>6. CASE UNCHANGED case /\ Outputs!Stops(p)
    BY <1>2, <1>6, StopsTo, Unmoved, OutStep
  <1> QED
    BY <1>1, <1>3, <1>4, <1>5, <1>6 DEF Outputs!Copies

LEMMA CopyFailsKept == ASSUME OutInv, NEW p \in App, Outputs!CopyFails(p) PROVE OutInv'
  <1>1. PICK n : n = answer[p].i
    OBVIOUS
  <1>2. answer[p].at = "copy" /\ n \in 1..2 /\ case.manifest /\ case \in BucketType
    BY <1>1, BusyAt DEF Outputs!CopyFails
  <1>3. CASE Outputs!Fault /\ Outputs!Object(Outputs!Name(n)) # Outputs!None /\ Outputs!Passes(p)
    <2>1. Outputs!Distinct => Moved(n)
      BY <1>2, <1>3, GoneMoved
    <2>2. PICK w \in Work : answer' = [answer EXCEPT ![p] = w] /\ Working(w)'
      BY <1>1, <1>2, <1>3, <2>1, Faulted, Unmoved, PassesTo
    <2> QED
      BY <1>2, <1>3, <2>2, Faulted, Unmoved, OutStep
  <1>4. CASE Outputs!Fault /\ Outputs!Stops(p)
    BY <1>2, <1>4, StopsTo, Faulted, Unmoved, OutStep
  <1>5. CASE /\ Outputs!Object(Outputs!Original(n)) # Outputs!None /\ case.faults < MaxFaults
             /\ case' = [case EXCEPT !.faults = case.faults + 1, !.objects = Outputs!Put(Outputs!Name(n), Outputs!Object(Outputs!Original(n)))]
             /\ Outputs!Passes(p)
    <2>1. PICK b : b = Outputs!Put(Outputs!Name(n), Outputs!Object(Outputs!Original(n)))
      OBVIOUS
    <2>2. b \in [Outputs!Key -> 0..2]
      BY <1>2, <2>1, NameTypes DEF Outputs!Put, BucketType, Outputs!Object
    <2>3. case.faults + 1 \in 0..MaxFaults
      BY <1>2, <1>5, BoundsAssumption DEF BucketType
    <2>4. /\ case' \in BucketType /\ case'.outputs = case.outputs /\ case'.segments = case.segments
          /\ case'.manifest = case.manifest /\ case'.recorded = case.recorded /\ case'.objects = b
      BY <1>5, <2>1, <2>2, <2>3, BucketSame
    <2>5. Outputs!Distinct /\ case.manifest => (\A j \in 1..2 : Standing(j)' /\ (Moved(j) => Moved(j)')) /\ Moved(n)'
      BY <1>2, <1>5, <2>1, <2>4, CopyMoves
    <2>6. PICK w \in Work : answer' = [answer EXCEPT ![p] = w] /\ Working(w)'
      BY <1>1, <1>2, <1>5, <2>4, <2>5, PassesTo
    <2> QED
      BY <2>4, <2>5, <2>6, OutStep
  <1> QED
    BY <1>1, <1>3, <1>4, <1>5 DEF Outputs!CopyFails

LEMMA DeletesKept == ASSUME OutInv, NEW p \in App, Outputs!Deletes(p) PROVE OutInv'
  <1>1. PICK n : n = answer[p].i
    OBVIOUS
  <1>2. /\ answer[p].at = "delete" /\ n \in 1..2 /\ case.manifest /\ case \in BucketType
        /\ Outputs!Distinct => ~Outputs!InPlace(n) /\ Moved(n)
    BY <1>1, BusyAt DEF Outputs!Deletes, Working, Behind
  <1>3. PICK b : b = Outputs!Put(Outputs!Original(n), Outputs!None)
    OBVIOUS
  <1>4. b \in [Outputs!Key -> 0..2] /\ case.faults \in 0..MaxFaults
    BY <1>2, <1>3, NameTypes DEF Outputs!Put, BucketType, Outputs!None
  <1>5. case' = [case EXCEPT !.objects = b] /\ Outputs!Passes(p)
    BY <1>1, <1>3 DEF Outputs!Deletes
  <1>6. /\ case' \in BucketType /\ case'.outputs = case.outputs /\ case'.segments = case.segments
        /\ case'.manifest = case.manifest /\ case'.recorded = case.recorded /\ case'.objects = b
    BY <1>4, <1>5, BucketSame
  <1>7. Outputs!Distinct /\ case.manifest => \A j \in 1..2 : Standing(j)' /\ (Moved(j) => Moved(j)')
    BY <1>2, <1>3, <1>6, DeleteKeeps
  <1>8. PICK w \in Work : answer' = [answer EXCEPT ![p] = w] /\ Working(w)'
    BY <1>1, <1>2, <1>5, <1>6, <1>7, PassesTo
  <1> QED
    BY <1>6, <1>7, <1>8, OutStep

LEMMA RecordsKept == ASSUME OutInv, NEW p \in App, Outputs!Records(p) PROVE OutInv'
  <1>1. answer[p].at = "record" /\ case \in BucketType /\ case.manifest
    BY BusyAt DEF Outputs!Records
  <1>2. Outputs!Saved \in [1..2 -> Outputs!Key]
    BY <1>1, TotalIsTwo, NameTypes DEF Outputs!Saved
  <1>3. /\ case' \in BucketType /\ case'.outputs = case.outputs /\ case'.segments = case.segments
        /\ case'.manifest = case.manifest /\ case'.recorded = Outputs!Saved /\ case'.objects = case.objects
    BY <1>1, <1>2 DEF Outputs!Records, BucketType
  <1>4. Outputs!Distinct => \A i \in 1..2 : Moved(i)
    BY <1>1, BusyAt DEF Working, Behind
  <1>5. \A q \in App : Working(answer'[q]) \/ answer'[q].at = "idle"
    BY DEF Outputs!Records, Outputs!Stops, Outputs!Goes, OutInv
  <1>6. answer' \in [App -> Work]
    BY DEF Outputs!Records, Outputs!Stops, Outputs!Goes, OutInv, Work
  <1>7. Outputs!Distinct /\ case.manifest => \A i \in 1..2 : Standing(i)' /\ (Moved(i) => Moved(i)')
    BY <1>3, Unmoved
  <1>8. ASSUME NEW q \in App PROVE Working(answer[q])'
    <2>1. CASE answer'[q].at = "idle"
      BY <2>1 DEF Working, Behind
    <2>2. CASE Working(answer'[q])
      <3>1. PICK v : v = answer'[q]
        OBVIOUS
      <3>2. v.at = "delete" => v.i \in 1..2
        BY <2>2, <3>1 DEF Working
      <3>3. Working(v)'
        BY <1>3, <1>7, <2>2, <3>1, <3>2, NamesSame DEF Working, Behind
      <3> QED
        BY <3>1, <3>3 DEF Working, Behind, Outputs!InPlace, Outputs!Misnamed, Moved
    <2> QED
      BY <1>5, <2>1, <2>2
  <1> QED
    BY <1>1, <1>3, <1>4, <1>6, <1>7, <1>8, NamesSame DEF OutInv

LEMMA BreaksOffKept == ASSUME OutInv, NEW p \in App, Outputs!BreaksOff(p) PROVE OutInv'
  BY Faulted, StopsTo, Unmoved, OutStep DEF Outputs!BreaksOff

LEMMA OutNext == OutInv /\ [Outputs!Next]_Outputs!vars => OutInv'
  <1> SUFFICES ASSUME OutInv, [Outputs!Next]_Outputs!vars PROVE OutInv'
    OBVIOUS
  <1>1. CASE UNCHANGED Outputs!vars
    <2>1. UNCHANGED <<case, answer>>
      BY <1>1 DEF Outputs!vars
    <2>2. \A p \in App : Working(answer[p])'
      BY <2>1, NamesSame DEF OutInv, Working, Behind, Moved, Outputs!Object, Outputs!InPlace, Outputs!Misnamed
    <2>3. Outputs!Distinct /\ case.manifest => \A i \in 1..2 : Standing(i)' /\ (Moved(i) => Moved(i)')
      BY <2>1, Unmoved
    <2> QED
      BY <2>1, <2>2, <2>3, NamesSame DEF OutInv
  <1>2. CASE Outputs!Next
    BY <1>2, ProvidesKept, FetchesKept, CopiesKept, CopyFailsKept, DeletesKept, RecordsKept,
       BreaksOffKept DEF Outputs!Next
  <1> QED
    BY <1>1, <1>2

LEMMA OutSafe == OutInv => Outputs!OutputsKept /\ Outputs!TypeOK
  <1> SUFFICES ASSUME OutInv PROVE Outputs!OutputsKept /\ Outputs!TypeOK
    OBVIOUS
  <1>1. case \in BucketType /\ Outputs!Total = 2 /\ 1..Outputs!Total = 1..2 /\ \A i \in 1..2 : case.outputs[i] \in Outputs!Listed
    BY TotalIsTwo DEF OutInv, Outputs!Outputs
  <1>2. Outputs!TypeOK
    <2>1. case.manifest \in BOOLEAN
      BY <1>1 DEF BucketType
    <2>2. 0..Outputs!Total = 0..2
      BY <1>1
    <2>3. case.segments \in {1, 2} /\ case.objects \in [Outputs!Key -> 0..2] /\ case.recorded \in {<<>>} \cup [1..2 -> Outputs!Key]
          /\ case.faults \in 0..MaxFaults
      BY <1>1 DEF BucketType
    <2>4. answer \in [App -> [at : {"idle", "copy", "delete", "record"}, i : 0..2]]
      BY DEF OutInv, Work
    <2> QED
      BY <1>1, <2>1, <2>2, <2>3, <2>4, Zenon DEF Outputs!TypeOK
  <1>3. Outputs!OutputsKept
    BY <1>1 DEF OutInv, Outputs!OutputsKept, Standing, Moved, Outputs!Saved
  <1> QED
    BY <1>2, <1>3

-----------------------------------------------------------------------------
(* The cuts of a page: a use that was counted is one that was asked for.   *)

CutT     == [path : {"p", "q"}, flag : {"none", "thin", "error"}, used : [Sheets!Uses -> Nat], given : SUBSET Sheets!Uses, unasked : Nat]
OrderT   == [ids : SUBSET (1..2), use : Sheets!Uses, read : [1..2 -> Nat], confirmed : BOOLEAN]
NoOrder  == [ids |-> {}, use |-> "prompt", read |-> <<>>, confirmed |-> FALSE]
Unasking(i) == {r \in Handler : i \in answer[r].ids /\ ~answer[r].confirmed}
CutTrue(c)  == {u \in Sheets!Uses : c.used[u] > 0} = c.given /\ ((\A u \in Sheets!Uses : c.used[u] = 0) => c.unasked = 0)

CutsInv ==
    /\ case \in [1..2 -> CutT] /\ answer \in [Handler -> {NoOrder} \cup OrderT]
    /\ \A i \in 1..2 : CutTrue(case[i]) /\ case[i].unasked + Cardinality(Unasking(i)) <= Cardinality(Handler)

(* The cardinality of Sheets is that of the library.                     *)
LEMMA SheetsCardinality == \A S : Sheets!Cardinality(S) = Cardinality(S)
  BY DEF Cardinality, Sheets!Cardinality

LEMMA UnaskingFinite ==
  \A i : /\ IsFiniteSet(Unasking(i)) /\ Cardinality(Unasking(i)) \in Nat /\ Cardinality(Unasking(i)) <= Cardinality(Handler)
         /\ Cardinality(Handler) \in Nat
  <1> TAKE i
  <1>1. Unasking(i) \subseteq Handler
    BY DEF Unasking
  <1> QED
    BY <1>1, FiniteAssumption, FS_Subset, FS_CardinalityType

LEMMA CutsInit == Sheets!Init => CutsInv
  <1> SUFFICES ASSUME Sheets!Init PROVE CutsInv
    OBVIOUS
  <1>1. PICK second \in {"p", "q"}, flag \in {"none", "thin", "error"} :
           case = [i \in 1..2 |-> [path |-> IF i = 1 THEN "p" ELSE second, flag |-> IF i = 1 THEN "thin" ELSE flag,
                                   used |-> [u \in Sheets!Uses |-> 0], given |-> {}, unasked |-> 0]]
    BY DEF Sheets!Init
  <1>2. case \in [1..2 -> CutT]
    BY <1>1 DEF CutT
  <1>3. \A i \in 1..2 : CutTrue(case[i]) /\ case[i].unasked = 0
    BY <1>1 DEF CutTrue
  <1>4. answer \in [Handler -> {NoOrder} \cup OrderT] /\ \A r \in Handler : answer[r] = NoOrder
    BY DEF Sheets!Init, NoOrder
  <1>5. \A i \in 1..2 : Unasking(i) = {}
    BY <1>4 DEF Unasking, NoOrder
  <1>6. Cardinality({}) = 0 /\ Cardinality(Handler) \in Nat
    BY FS_EmptySet, UnaskingFinite
  <1>7. \A i \in 1..2 : Cardinality(Unasking(i)) = 0
    BY <1>5, <1>6
  <1>8. \A i \in 1..2 : case[i].unasked + Cardinality(Unasking(i)) <= Cardinality(Handler)
    BY <1>3, <1>6, <1>7
  <1> QED
    BY <1>2, <1>3, <1>4, <1>8 DEF CutsInv

LEMMA CutsBegin == ASSUME CutsInv, NEW r \in Handler, Sheets!Begins(r) PROVE CutsInv'
  <1>1. /\ case \in [1..2 -> CutT] /\ answer \in [Handler -> {NoOrder} \cup OrderT] /\ case' = case /\ answer[r].ids = {}
    BY DEF CutsInv, Sheets!Begins
  <1>2. PICK ids \in {{1}, {1, 2}}, use \in Sheets!Uses, confirmed \in BOOLEAN :
           /\ Sheets!Usable(ids) /\ \A i \in ids : Sheets!Times(i) < MaxUse
           /\ confirmed \/ \A i \in ids : ~Sheets!Reused(i)
           /\ answer' = [answer EXCEPT ![r] = [ids |-> ids, use |-> use, read |-> [i \in DOMAIN case |-> IF i \in ids THEN case[i].used[use] ELSE 0],
                                             confirmed |-> confirmed]]
    BY DEF Sheets!Begins
  <1>3. PICK read : read = [i \in DOMAIN case |-> IF i \in ids THEN case[i].used[use] ELSE 0]
    OBVIOUS
  <1>4. read \in [1..2 -> Nat]
    BY <1>1, <1>3 DEF CutT
  <1>5. PICK o : o = [ids |-> ids, use |-> use, read |-> read, confirmed |-> confirmed]
    OBVIOUS
  <1>6. o \in OrderT /\ o.ids = ids /\ o.confirmed = confirmed
    <2>1. ids \subseteq 1..2
      OBVIOUS
    <2> QED
      BY <1>4, <1>5, <2>1 DEF OrderT
  <1>7. answer' = [answer EXCEPT ![r] = o]
    BY <1>2, <1>3, <1>5
  <1>8. answer' \in [Handler -> {NoOrder} \cup OrderT] /\ answer'[r] = o /\ \A s \in Handler : s # r => answer'[s] = answer[s]
    BY <1>1, <1>6, <1>7
  <1>9. ASSUME NEW i \in 1..2 PROVE case[i].unasked + Cardinality(Unasking(i)') <= Cardinality(Handler)
    <2>1. CASE i \in ids /\ ~confirmed
      <3>1. case[i].used["prompt"] + case[i].used["batch"] = 0
        <4>1. ~Sheets!Reused(i) /\ case[i].used \in [Sheets!Uses -> Nat]
          BY <1>1, <1>2, <2>1 DEF CutT
        <4> QED
          BY <4>1 DEF Sheets!Reused, Sheets!Times, Sheets!Uses
      <3>2. \A u \in Sheets!Uses : case[i].used[u] = 0
        <4>1. case[i].used \in [Sheets!Uses -> Nat]
          BY <1>1 DEF CutT
        <4>2. case[i].used["prompt"] \in Nat /\ case[i].used["batch"] \in Nat
          BY <4>1 DEF Sheets!Uses
        <4>3. case[i].used["prompt"] = 0 /\ case[i].used["batch"] = 0
          BY <3>1, <4>2
        <4> QED
          BY <4>3 DEF Sheets!Uses
      <3>3. case[i].unasked = 0
        BY <3>2 DEF CutsInv, CutTrue
      <3>4. Unasking(i)' \subseteq Handler
        BY DEF Unasking
      <3>5. Cardinality(Unasking(i)') \in Nat /\ Cardinality(Unasking(i)') <= Cardinality(Handler)
        BY <3>4, FiniteAssumption, FS_Subset, FS_CardinalityType
      <3> QED
        BY <3>3, <3>5
    <2>2. CASE ~(i \in ids /\ ~confirmed)
      <3>1. Unasking(i)' \subseteq Unasking(i)
        BY <1>6, <1>8, <2>2 DEF Unasking
      <3>2. Cardinality(Unasking(i)') \in Nat /\ Cardinality(Unasking(i)') <= Cardinality(Unasking(i))
        BY <3>1, UnaskingFinite, FS_Subset, FS_CardinalityType
      <3>3. case[i].unasked \in Nat
        BY <1>1 DEF CutT
      <3>4. case[i].unasked + Cardinality(Unasking(i)) <= Cardinality(Handler)
        BY DEF CutsInv
      <3> QED
        BY <3>2, <3>3, <3>4, UnaskingFinite
    <2> QED
      BY <2>1, <2>2
  <1>10. ASSUME NEW i \in 1..2 PROVE case'[i].unasked + Cardinality(Unasking(i)') <= Cardinality(Handler)
    BY <1>1, <1>9
  <1>11. \A i \in 1..2 : CutTrue(case[i])'
    BY <1>1 DEF CutsInv, CutTrue
  <1> QED
    BY <1>1, <1>8, <1>10, <1>11 DEF CutsInv

LEMMA CutsHanded == ASSUME CutsInv, NEW r \in Handler, Sheets!HandsOver(r) PROVE CutsInv'
  <1>1. /\ case \in [1..2 -> CutT] /\ answer \in [Handler -> {NoOrder} \cup OrderT] /\ answer[r].ids # {}
    BY DEF CutsInv, Sheets!HandsOver
  <1>2. PICK s \in OrderT : s = answer[r]
    BY <1>1 DEF NoOrder
  <1>3. answer' = [answer EXCEPT ![r] = NoOrder]
    BY DEF Sheets!HandsOver, NoOrder
  <1>4. answer' \in [Handler -> {NoOrder} \cup OrderT] /\ answer'[r] = NoOrder /\ \A q \in Handler : q # r => answer'[q] = answer[q]
    BY <1>1, <1>3
  <1> DEFINE New(i) == [case[i] EXCEPT !.used[s.use] = s.read[i] + 1,
                                    !.given = @ \cup {s.use}, !.unasked = IF s.confirmed THEN @ ELSE @ + 1]
  <1>5. DOMAIN case' = 1..2 /\ \A i \in 1..2 : case'[i] = IF i \notin s.ids THEN case[i] ELSE New(i)
    BY <1>1, <1>2 DEF Sheets!HandsOver, Sheets!Counted
  <1>6. case' = [i \in 1..2 |-> case'[i]]
    BY <1>1 DEF Sheets!HandsOver
  <1> HIDE DEF New
  <1>7. ASSUME NEW i \in 1..2, i \in s.ids
        PROVE  /\ New(i) \in CutT /\ CutTrue(New(i))
               /\ New(i).unasked = IF s.confirmed THEN case[i].unasked ELSE case[i].unasked + 1
    <2>1. PICK c \in CutT : c = case[i]
      BY <1>1
    <2>2. PICK n \in Nat : n = s.read[i] + 1 /\ n > 0
      BY <1>2 DEF OrderT
    <2>3. PICK used : used = [c.used EXCEPT ![s.use] = n]
      OBVIOUS
    <2>4. used \in [Sheets!Uses -> Nat] /\ used[s.use] = n /\ (\A u \in Sheets!Uses : u # s.use => used[u] = c.used[u]) /\ s.use \in Sheets!Uses
      BY <2>1, <2>2, <2>3 DEF CutT, OrderT
    <2>5. PICK m : m = IF s.confirmed THEN c.unasked ELSE c.unasked + 1
      OBVIOUS
    <2>6. m \in Nat
      BY <2>1, <2>5 DEF CutT
    <2>7. PICK d : d = [c EXCEPT !.used = used, !.given = c.given \cup {s.use}, !.unasked = m]
      OBVIOUS
    <2>8. d \in CutT /\ d.used = used /\ d.given = c.given \cup {s.use} /\ d.unasked = m
      BY <2>1, <2>4, <2>6, <2>7 DEF CutT
    <2>9. New(i) = d
      BY <2>1, <2>2, <2>3, <2>5, <2>7 DEF New, CutT
    <2>10. CutTrue(d)
      <3>1. {u \in Sheets!Uses : c.used[u] > 0} = c.given
        BY <2>1 DEF CutsInv, CutTrue
      <3>2. {u \in Sheets!Uses : used[u] > 0} = c.given \cup {s.use}
        BY <2>2, <2>4, <3>1
      <3>3. ~\A u \in Sheets!Uses : used[u] = 0
        BY <2>2, <2>4
      <3> QED
        BY <2>8, <3>2, <3>3 DEF CutTrue
    <2> QED
      BY <2>1, <2>5, <2>8, <2>9, <2>10
  <1>8. ASSUME NEW i \in 1..2
        PROVE  case'[i] \in CutT /\ CutTrue(case'[i]) /\ case'[i].unasked + Cardinality(Unasking(i)') <= Cardinality(Handler)
    <2>1. case[i] \in CutT /\ case[i].unasked \in Nat /\ CutTrue(case[i])
      BY <1>1 DEF CutT, CutsInv
    <2>2. case[i].unasked + Cardinality(Unasking(i)) <= Cardinality(Handler)
      BY DEF CutsInv
    <2>3. Unasking(i)' = Unasking(i) \ {r}
      BY <1>4 DEF Unasking, NoOrder
    <2>4. Cardinality(Unasking(i)') \in Nat /\ Cardinality(Unasking(i)') <= Cardinality(Unasking(i))
      BY <2>3, UnaskingFinite, FS_Subset, FS_CardinalityType
    <2>5. CASE i \in s.ids /\ ~s.confirmed
      <3>1. r \in Unasking(i)
        BY <1>2, <2>5 DEF Unasking
      <3>2. Cardinality(Unasking(i)') = Cardinality(Unasking(i)) - 1
        BY <2>3, <3>1, UnaskingFinite, FS_RemoveElement
      <3>3. case'[i] \in CutT /\ CutTrue(case'[i]) /\ case'[i].unasked = case[i].unasked + 1
        BY <1>5, <1>7, <2>5
      <3> QED
        BY <2>1, <2>2, <3>2, <3>3, UnaskingFinite
    <2>6. CASE ~(i \in s.ids /\ ~s.confirmed)
      <3>1. case'[i] \in CutT /\ CutTrue(case'[i]) /\ case'[i].unasked = case[i].unasked
        BY <1>5, <1>7, <2>1, <2>6
      <3> QED
        BY <2>1, <2>2, <2>4, <3>1, UnaskingFinite
    <2> QED
      BY <2>5, <2>6
  <1>9. case' \in [1..2 -> CutT]
    BY <1>6, <1>8
  <1> QED
    BY <1>4, <1>8, <1>9 DEF CutsInv, CutTrue

LEMMA CutsNext == ASSUME CutsInv, [Sheets!Next]_Sheets!vars PROVE CutsInv'
  <1>1. CASE UNCHANGED Sheets!vars
    <2>1. case' = case /\ \A i : Unasking(i)' = Unasking(i)
      BY <1>1 DEF Sheets!vars, Unasking
    <2> QED
      BY <1>1, <2>1 DEF CutsInv, Sheets!vars, CutTrue
  <1> QED
    BY <1>1, CutsBegin, CutsHanded DEF Sheets!Next

LEMMA CutsSafe == ASSUME CutsInv PROVE Sheets!UseIsSeen
  <1>1. ASSUME NEW i \in 1..2 PROVE {u \in Sheets!Uses : case[i].used[u] > 0} = case[i].given /\ case[i].unasked <= Cardinality(Handler)
    <2>1. case[i].unasked \in Nat /\ CutTrue(case[i]) /\ case[i].unasked + Cardinality(Unasking(i)) <= Cardinality(Handler)
      BY DEF CutsInv, CutT
    <2> QED
      BY <2>1, UnaskingFinite DEF CutTrue
  <1> QED
    BY <1>1, SheetsCardinality DEF Sheets!UseIsSeen, CutsInv

-----------------------------------------------------------------------------
(* The collections: an addition is ordered above everything that was there *)
(* when it was asked for.                                                  *)

ShelfItem  == [coll : Coll, asset : Shelf!Output, order : Nat, asked : Nat, put : Nat]
ShelfLink  == [asset : Shelf!Output, id : Nat]
ShelfT     == [there : SUBSET Coll, items : SUBSET ShelfItem, links : SUBSET ShelfLink, clock : Nat, asked : 0..MaxRequests]
ShelfAdd   == [does : {"add"}, coll : Coll, asset : Shelf!Output, order : Nat, at : Nat]
ShelfDel   == [does : {"delete"}, coll : Coll, at : Nat]
ShelfRec   == [does : {"record"}, asset : Shelf!Output, links : SUBSET ShelfLink]
ShelfReq   == {Shelf!Idle} \cup ShelfAdd \cup ShelfDel \cup ShelfRec

ItemInTime(x) == x.order <= 10 * case.clock /\ x.put < case.clock /\ x.asked < case.clock
AddInTime(r)  == /\ r.at < case.clock /\ r.order <= 10 * case.clock
                 /\ \A x \in case.items : x.coll = r.coll /\ x.put < r.at => x.order < r.order
DelInTime(r)  == r.at <= case.clock /\ \A x \in case.items : x.coll = r.coll => x.put >= r.at
ReqInTime(r)  == (r.does = "add" => AddInTime(r)) /\ (r.does = "delete" => DelInTime(r))

ShelfInv ==
    /\ case \in ShelfT /\ answer \in [Handler -> ShelfReq]
    /\ \A x \in case.items : ItemInTime(x)
    /\ \A h \in Handler : ReqInTime(answer[h])
    /\ Shelf!ShownAsAdded

LEMMA NatLeast == ASSUME NEW S \in SUBSET Nat, S # {} PROVE \E x \in S : \A y \in S : x <= y
<1> DEFINE Less == {s \in Nat \X Nat : s[1] < s[2]}
<1>1. IsWellFoundedOn(Less, Nat)
  <2>1. Less = OpToRel(<, Nat)
    BY DEF OpToRel
  <2> QED
    BY <2>1, NatLessThanWellFounded
<1>2. PICK x \in S : \A y \in S : <<y, x>> \notin Less
  BY <1>1, WFMin
<1>3. \A y \in S : ~(y < x)
  BY <1>2
<1> QED
  BY <1>3

LEMMA NatMost == ASSUME NEW S \in SUBSET Nat, S # {}, NEW b \in Nat, \A n \in S : n <= b
                 PROVE \E x \in S : \A y \in S : y <= x
<1> DEFINE D == {d \in Nat : b - d \in S}
<1>1. D # {}
  <2>1. PICK n \in S : TRUE
    OBVIOUS
  <2>2. b - n \in Nat /\ b - (b - n) = n
    BY <2>1
  <2> QED
    BY <2>1, <2>2
<1>2. PICK d \in D : \A e \in D : d <= e
  BY <1>1, NatLeast
<1>3. ASSUME NEW y \in S PROVE y <= b - d
  <2>1. b - y \in Nat /\ b - (b - y) = y /\ y \in Nat
    OBVIOUS
  <2>2. b - y \in D
    BY <2>1
  <2>3. d <= b - y
    BY <1>2, <2>2
  <2> QED
    BY <1>2, <2>1, <2>3
<1> QED
  BY <1>2, <1>3

LEMMA NextOrderAbove ==
  ASSUME ShelfInv, NEW c
  PROVE  /\ Shelf!NextOrder(c) \in Nat /\ Shelf!NextOrder(c) <= 10 * case.clock + 10
         /\ \A x \in case.items : x.coll = c => x.order < Shelf!NextOrder(c)
  <1> DEFINE orders == {x.order : x \in Shelf!ItemsOf(c)}
  <1>1. case.clock \in Nat /\ case.items \subseteq ShelfItem /\ \A x \in case.items : x.order <= 10 * case.clock
    BY DEF ShelfInv, ShelfT, ItemInTime
  <1>2. orders \subseteq Nat /\ \A n \in orders : n <= 10 * case.clock
    BY <1>1 DEF Shelf!ItemsOf, ShelfItem
  <1>3. \A x \in case.items : x.coll = c => x.order \in orders
    BY DEF Shelf!ItemsOf
  <1>4. CASE orders = {}
    <2>1. Shelf!NextOrder(c) = 10
      BY <1>4 DEF Shelf!NextOrder
    <2>2. \A x \in case.items : x.coll # c
      <3> HIDE DEF orders
      <3> QED
        BY <1>3, <1>4
    <2>3. 10 \in Nat /\ 10 <= 10 * case.clock + 10
      BY <1>1
    <2> HIDE DEF orders
    <2> QED
      BY <2>1, <2>2, <2>3
  <1>5. CASE orders # {}
    <2>1. PICK m \in orders : \A n \in orders : n <= m
      <3>1. 10 * case.clock \in Nat
        BY <1>1
      <3> HIDE DEF orders
      <3> QED
        BY <1>2, <1>5, <3>1, NatMost
    <2>2. PICK n : n = (CHOOSE o \in orders : \A k \in orders : k <= o)
      OBVIOUS
    <2>3. n \in orders /\ \A k \in orders : k <= n
      <3> HIDE DEF orders
      <3> QED
        BY <2>1, <2>2
    <2>4. Shelf!NextOrder(c) = 10 + n
      BY <1>5, <2>2 DEF Shelf!NextOrder
    <2>5. n \in Nat /\ n <= 10 * case.clock
      BY <1>2, <2>3
    <2> HIDE DEF orders
    <2>6. \A x \in case.items : x.coll = c => x.order \in Nat /\ x.order <= n
      BY <1>2, <1>3, <2>3
    <2> QED
      BY <1>1, <2>4, <2>5, <2>6
  <1> QED
    BY <1>4, <1>5

LEMMA ShelfInit == Shelf!Init => ShelfInv
  <1> SUFFICES ASSUME Shelf!Init PROVE ShelfInv
    OBVIOUS
  <1>1. PICK links \in {{}, {[asset |-> 1, id |-> 0], [asset |-> 2, id |-> 1]}} :
           case = [there |-> Coll, items |-> {}, links |-> links, clock |-> 2, asked |-> 0]
    BY DEF Shelf!Init
  <1>2. links \subseteq ShelfLink
    BY <1>1 DEF ShelfLink, Shelf!Output
  <1>3. case \in ShelfT /\ case.items = {}
    BY <1>1, <1>2, BoundsAssumption DEF ShelfT
  <1>4. answer \in [Handler -> ShelfReq] /\ \A h \in Handler : answer[h] = Shelf!Idle
    BY DEF Shelf!Init, ShelfReq
  <1> QED
    BY <1>3, <1>4 DEF ShelfInv, ReqInTime, Shelf!Idle, Shelf!ShownAsAdded

(* A request that begins. *)
LEMMA ShelfBegins ==
  ASSUME ShelfInv, NEW h \in Handler, NEW r \in ShelfReq, Shelf!Begins(h, r),
         r.does = "add" => r.at = Shelf!Now /\ r.order <= 10 * case.clock + 10
                           /\ \A x \in case.items : x.coll = r.coll => x.order < r.order,
         r.does = "delete" => r.at = Shelf!Now /\ ~\E x \in case.items : x.coll = r.coll
  PROVE  ShelfInv'
  <1>1. /\ case \in ShelfT /\ answer \in [Handler -> ShelfReq] /\ \A x \in case.items : ItemInTime(x)
        /\ \A g \in Handler : ReqInTime(answer[g])
    BY DEF ShelfInv
  <1>2. case' = [case EXCEPT !.clock = @ + 1, !.asked = @ + 1] /\ case.asked < MaxRequests
    BY DEF Shelf!Begins
  <1>3. /\ case' \in ShelfT /\ case'.items = case.items /\ case'.clock = case.clock + 1 /\ case.clock \in Nat
    <2>1. case.asked + 1 \in 0..MaxRequests /\ case.clock + 1 \in Nat /\ case.clock \in Nat
      BY <1>1, <1>2, BoundsAssumption DEF ShelfT
    <2> QED
      BY <1>1, <1>2, <2>1 DEF ShelfT
  <1>4. case.items \subseteq ShelfItem
    BY <1>1 DEF ShelfT
  <1>5. ASSUME NEW x \in case'.items PROVE ItemInTime(x)'
    BY <1>1, <1>3, <1>4 DEF ItemInTime, ShelfItem
  <1>6. answer' \in [Handler -> ShelfReq] /\ answer'[h] = r /\ \A g \in Handler : g # h => answer'[g] = answer[g]
    BY <1>1 DEF Shelf!Begins
  <1>7. ASSUME NEW q \in ShelfReq, ReqInTime(q) PROVE ReqInTime(q)'
    <2>1. CASE q.does = "add"
      <3>1. q \in ShelfAdd
        BY <2>1 DEF ShelfReq, ShelfDel, ShelfRec, Shelf!Idle
      <3> QED
        BY <1>3, <1>7, <2>1, <3>1 DEF ReqInTime, AddInTime, ShelfAdd
    <2>2. CASE q.does = "delete"
      <3>1. q \in ShelfDel
        BY <2>2 DEF ShelfReq, ShelfAdd, ShelfRec, Shelf!Idle
      <3> QED
        BY <1>3, <1>7, <2>2, <3>1 DEF ReqInTime, DelInTime, ShelfDel
    <2> QED
      BY <2>1, <2>2 DEF ReqInTime
  <1>8. ReqInTime(r)'
    <2>1. CASE r.does = "add"
      <3>1. r \in ShelfAdd
        BY <2>1 DEF ShelfReq, ShelfDel, ShelfRec, Shelf!Idle
      <3> QED
        BY <1>3, <2>1, <3>1 DEF ReqInTime, AddInTime, ShelfAdd, Shelf!Now
    <2>2. CASE r.does = "delete"
      BY <1>3, <2>2 DEF ReqInTime, DelInTime, Shelf!Now
    <2> QED
      BY <2>1, <2>2 DEF ReqInTime
  <1>9. ASSUME NEW g \in Handler PROVE ReqInTime(answer[g])'
    <2>1. CASE g = h
      BY <1>6, <1>8, <2>1 DEF ReqInTime, AddInTime, DelInTime
    <2>2. CASE g # h
      <3>1. ReqInTime(answer[g]) /\ answer[g] \in ShelfReq /\ answer'[g] = answer[g]
        BY <1>1, <1>6, <2>2
      <3>2. PICK q \in ShelfReq : q = answer[g]
        BY <3>1
      <3>3. ReqInTime(q)'
        BY <1>7, <3>1, <3>2
      <3> QED
        BY <3>1, <3>2, <3>3 DEF ReqInTime, AddInTime, DelInTime
    <2> QED
      BY <2>1, <2>2
  <1>10. Shelf!ShownAsAdded'
    BY <1>3 DEF ShelfInv, Shelf!ShownAsAdded, Shelf!Before
  <1> QED
    BY <1>3, <1>5, <1>6, <1>9, <1>10 DEF ShelfInv

(* What takes items away, or nothing, at no time. *)
LEMMA ShelfLess ==
  ASSUME ShelfInv, case' \in ShelfT, case'.items \subseteq case.items, case'.clock \in {case.clock, case.clock + 1},
         answer' \in [Handler -> ShelfReq], \A g \in Handler : answer'[g] \in {Shelf!Idle, answer[g]}
  PROVE  ShelfInv'
  <1>1. /\ case \in ShelfT /\ answer \in [Handler -> ShelfReq] /\ \A x \in case.items : ItemInTime(x)
        /\ \A g \in Handler : ReqInTime(answer[g])
    BY DEF ShelfInv
  <1>2. case.items \subseteq ShelfItem /\ case.clock \in Nat
    BY <1>1 DEF ShelfT
  <1>3. ASSUME NEW x \in case'.items PROVE ItemInTime(x)'
    BY <1>1, <1>2, <1>3 DEF ItemInTime, ShelfItem
  <1>4. ASSUME NEW q \in ShelfReq, ReqInTime(q) PROVE ReqInTime(q)'
    <2>1. CASE q.does = "add"
      <3>1. q \in ShelfAdd
        BY <2>1 DEF ShelfReq, ShelfDel, ShelfRec, Shelf!Idle
      <3> QED
        BY <1>2, <1>4, <2>1, <3>1 DEF ReqInTime, AddInTime, ShelfAdd
    <2>2. CASE q.does = "delete"
      <3>1. q \in ShelfDel
        BY <2>2 DEF ShelfReq, ShelfAdd, ShelfRec, Shelf!Idle
      <3> QED
        BY <1>2, <1>4, <2>2, <3>1 DEF ReqInTime, DelInTime, ShelfDel
    <2> QED
      BY <2>1, <2>2 DEF ReqInTime
  <1>5. ASSUME NEW g \in Handler PROVE ReqInTime(answer[g])'
    <2>1. CASE answer'[g] = Shelf!Idle
      BY <2>1 DEF ReqInTime, Shelf!Idle
    <2>2. CASE answer'[g] = answer[g]
      <3>1. ReqInTime(answer[g]) /\ answer[g] \in ShelfReq
        BY <1>1
      <3>2. PICK q \in ShelfReq : q = answer[g]
        BY <3>1
      <3>3. ReqInTime(q)'
        BY <1>4, <3>1, <3>2
      <3> QED
        BY <2>2, <3>2, <3>3 DEF ReqInTime, AddInTime, DelInTime
    <2> QED
      BY <2>1, <2>2
  <1>6. Shelf!ShownAsAdded'
    BY DEF ShelfInv, Shelf!ShownAsAdded, Shelf!Before
  <1> QED
    BY <1>3, <1>5, <1>6 DEF ShelfInv

LEMMA ShelfInserts == ASSUME ShelfInv, NEW h \in Handler, Shelf!Inserts(h) PROVE ShelfInv'
  <1>1. /\ case \in ShelfT /\ answer \in [Handler -> ShelfReq] /\ \A x \in case.items : ItemInTime(x)
        /\ \A g \in Handler : ReqInTime(answer[g])
    BY DEF ShelfInv
  <1>2. PICK r \in ShelfReq : r = answer[h]
    BY <1>1
  <1>3. r \in ShelfAdd /\ AddInTime(r)
    <2>1. r.does = "add"
      BY <1>2 DEF Shelf!Inserts
    <2> QED
      BY <1>1, <1>2, <2>1 DEF ShelfReq, ShelfDel, ShelfRec, Shelf!Idle, ReqInTime
  <1>4. answer' \in [Handler -> ShelfReq] /\ answer'[h] = Shelf!Idle /\ \A g \in Handler : g # h => answer'[g] = answer[g]
    BY <1>1 DEF Shelf!Inserts, Shelf!Ends, ShelfReq
  <1>5. CASE case' = case
    BY <1>1, <1>4, <1>5, ShelfLess
  <1> DEFINE new == [coll |-> r.coll, asset |-> r.asset, order |-> r.order, asked |-> r.at, put |-> case.clock]
  <1>6. CASE case' = [case EXCEPT !.clock = @ + 1, !.items = @ \cup {new}]
    <2>1. case.clock \in Nat /\ case.clock + 1 \in Nat /\ case.items \subseteq ShelfItem
      BY <1>1 DEF ShelfT
    <2>2. new \in ShelfItem
      BY <1>3, <2>1 DEF ShelfItem, ShelfAdd
    <2>3. PICK n \in ShelfItem : n = new
      BY <2>2
    <2>4. /\ n.coll = r.coll /\ n.asset = r.asset /\ n.order = r.order /\ n.asked = r.at /\ n.put = case.clock
      BY <2>3
    <2>5. case' = [case EXCEPT !.clock = @ + 1, !.items = @ \cup {n}]
      BY <1>6, <2>3
    <2> HIDE DEF new
    <2>6. case' \in ShelfT /\ case'.items = case.items \cup {n} /\ case'.clock = case.clock + 1
      BY <1>1, <2>1, <2>5 DEF ShelfT
    <2>7. ASSUME NEW x \in case'.items PROVE ItemInTime(x)'
      <3>1. CASE x \in case.items
        BY <1>1, <2>1, <2>6, <3>1 DEF ItemInTime, ShelfItem
      <3>2. CASE x = n
        BY <1>3, <2>1, <2>4, <2>6, <3>2 DEF ItemInTime, AddInTime, ShelfAdd
      <3> QED
        BY <2>6, <3>1, <3>2
    <2>8. ASSUME NEW q \in ShelfReq, ReqInTime(q), q.does # "delete" PROVE ReqInTime(q)'
      <3>1. CASE q.does = "add"
        <4>1. q \in ShelfAdd
          BY <3>1 DEF ShelfReq, ShelfDel, ShelfRec, Shelf!Idle
        <4>2. AddInTime(q)
          BY <2>8, <3>1 DEF ReqInTime
        <4>3. q.at < case'.clock /\ q.order <= 10 * case'.clock
          BY <2>1, <2>6, <4>1, <4>2 DEF AddInTime, ShelfAdd
        <4>4. ASSUME NEW x \in case'.items, x.coll = q.coll, x.put < q.at PROVE x.order < q.order
          <5>1. x # n
            BY <2>1, <2>4, <4>1, <4>2, <4>4 DEF AddInTime, ShelfAdd
          <5> QED
            BY <2>6, <4>2, <4>4, <5>1 DEF AddInTime
        <4> QED
          BY <3>1, <4>3, <4>4 DEF ReqInTime, AddInTime
      <3>2. CASE q.does # "add"
        BY <2>8, <3>2 DEF ReqInTime
      <3> QED
        BY <3>1, <3>2
    <2>9. ASSUME NEW q \in ShelfReq, q.does = "delete", ReqInTime(q) PROVE ReqInTime(q)'
      <3>1. q \in ShelfDel
        BY <2>9 DEF ShelfReq, ShelfAdd, ShelfRec, Shelf!Idle
      <3>3. q.at <= case.clock /\ q.at \in Nat
        BY <2>9, <3>1 DEF ReqInTime, DelInTime, ShelfDel
      <3>2. ASSUME NEW x \in case'.items, x.coll = q.coll PROVE x.put >= q.at
        <4>1. CASE x \in case.items
          BY <2>9, <3>2, <4>1 DEF ReqInTime, DelInTime
        <4>2. CASE x = n
          BY <2>1, <2>4, <3>3, <4>2
        <4> QED
          BY <2>6, <4>1, <4>2
      <3> QED
        BY <2>1, <2>6, <2>9, <3>2, <3>3 DEF ReqInTime, DelInTime
    <2>10. ASSUME NEW g \in Handler PROVE ReqInTime(answer[g])'
      <3>1. CASE g = h
        BY <1>4, <3>1 DEF ReqInTime, Shelf!Idle
      <3>2. CASE g # h
        <4>1. ReqInTime(answer[g]) /\ answer[g] \in ShelfReq /\ answer'[g] = answer[g]
          BY <1>1, <1>4, <3>2
        <4>2. PICK q \in ShelfReq : q = answer[g]
          BY <4>1
        <4>4. ReqInTime(q)'
          BY <2>8, <2>9, <4>1, <4>2
        <4> QED
          BY <4>1, <4>2, <4>4 DEF ReqInTime, AddInTime, DelInTime
      <3> QED
        BY <3>1, <3>2
    <2>11. ASSUME NEW x \in case'.items, NEW y \in case'.items, x.coll = y.coll, x.put < y.asked PROVE Shelf!Before(x, y)
      <3>1. CASE x = n
        <4>1. y.asked <= case.clock /\ y.asked \in Nat
          BY <1>1, <1>3, <2>1, <2>4, <2>6 DEF ItemInTime, AddInTime, ShelfItem, ShelfAdd
        <4> QED
          BY <2>1, <2>4, <2>11, <3>1, <4>1
      <3>2. CASE x # n /\ y = n
        BY <1>3, <2>4, <2>6, <2>11, <3>2 DEF AddInTime, Shelf!Before
      <3>3. CASE x # n /\ y # n
        BY <2>6, <2>11, <3>3 DEF ShelfInv, Shelf!ShownAsAdded
      <3> QED
        BY <3>1, <3>2, <3>3
    <2>12. Shelf!ShownAsAdded'
      BY <2>11 DEF Shelf!ShownAsAdded, Shelf!Before
    <2> QED
      BY <1>4, <2>6, <2>7, <2>10, <2>12 DEF ShelfInv
  <1> QED
    BY <1>2, <1>5, <1>6 DEF Shelf!Inserts, Shelf!Now

LEMMA ShelfNext == ASSUME ShelfInv, [Shelf!Next]_Shelf!vars PROVE ShelfInv'
  <1>1. /\ case \in ShelfT /\ answer \in [Handler -> ShelfReq] /\ case.items \subseteq ShelfItem
        /\ case.links \subseteq ShelfLink /\ case.there \subseteq Coll /\ case.clock \in Nat /\ case.asked \in 0..MaxRequests
    BY DEF ShelfInv, ShelfT
  <1>2. CASE Shelf!TakesOut
    <2>1. PICK x \in case.items : case' = [case EXCEPT !.items = @ \ {x}, !.asked = @ + 1]
      BY <1>2 DEF Shelf!TakesOut
    <2>2. case.asked + 1 \in 0..MaxRequests
      BY <1>1, <1>2, BoundsAssumption DEF Shelf!TakesOut
    <2>3. case' \in ShelfT /\ case'.items \subseteq case.items /\ case'.clock = case.clock
      BY <1>1, <2>1, <2>2 DEF ShelfT
    <2> QED
      BY <1>1, <1>2, <2>3, ShelfLess DEF Shelf!TakesOut
  <1>3. ASSUME NEW h \in Handler, Shelf!Deletes(h) PROVE ShelfInv'
    <2>1. answer' \in [Handler -> ShelfReq] /\ \A g \in Handler : answer'[g] \in {Shelf!Idle, answer[g]}
      BY <1>1, <1>3 DEF Shelf!Deletes, Shelf!Ends, ShelfReq
    <2>2. case' \in ShelfT /\ case'.items \subseteq case.items /\ case'.clock = case.clock
      BY <1>1, <1>3 DEF Shelf!Deletes, ShelfT, Shelf!ItemsOf
    <2> QED
      BY <2>1, <2>2, ShelfLess
  <1>4. ASSUME NEW h \in Handler, Shelf!Records(h) PROVE ShelfInv'
    <2>1. answer' \in [Handler -> ShelfReq] /\ \A g \in Handler : answer'[g] \in {Shelf!Idle, answer[g]}
      BY <1>1, <1>4 DEF Shelf!Records, Shelf!Ends, ShelfReq
    <2>2. answer[h] \in ShelfRec
      BY <1>1, <1>4 DEF Shelf!Records, ShelfReq, ShelfAdd, ShelfDel, Shelf!Idle
    <2>3. PICK ls : ls = (case.links \ answer[h].links) \cup {[asset |-> answer[h].asset, id |-> Shelf!Now]}
      OBVIOUS
    <2>4. ls \subseteq ShelfLink
      BY <1>1, <2>2, <2>3 DEF ShelfRec, ShelfLink, Shelf!Now
    <2>5. case' = [case EXCEPT !.clock = @ + 1, !.links = ls]
      BY <1>4, <2>3 DEF Shelf!Records
    <2>6. PICK t \in Nat : t = case.clock + 1
      BY <1>1
    <2>7. case' = [case EXCEPT !.clock = t, !.links = ls]
      BY <2>5, <2>6
    <2>8. case' \in ShelfT
      BY <1>1, <2>4, <2>7 DEF ShelfT
    <2>9. case'.items = case.items /\ case'.clock = case.clock + 1
      BY <1>1, <2>6, <2>7 DEF ShelfT
    <2> QED
      BY <2>1, <2>8, <2>9, ShelfLess
  <1>5. ASSUME NEW h \in Handler, NEW c \in Coll, NEW a \in Shelf!Output, Shelf!Looks(h, c, a) PROVE ShelfInv'
    <2>1. PICK n : n = Shelf!NextOrder(c)
      OBVIOUS
    <2>2. n \in Nat /\ n <= 10 * case.clock + 10 /\ \A x \in case.items : x.coll = c => x.order < n
      BY <2>1, NextOrderAbove
    <2>3. PICK r : r = [does |-> "add", coll |-> c, asset |-> a, order |-> n, at |-> case.clock]
      OBVIOUS
    <2>4. r \in ShelfReq
      BY <1>1, <2>2, <2>3 DEF ShelfReq, ShelfAdd
    <2>5. Shelf!Begins(h, r)
      BY <1>5, <2>1, <2>3 DEF Shelf!Looks, Shelf!Now
    <2>6. /\ r.at = Shelf!Now /\ r.order <= 10 * case.clock + 10 /\ r.does = "add"
          /\ \A x \in case.items : x.coll = r.coll => x.order < r.order
      BY <2>2, <2>3 DEF Shelf!Now
    <2> QED
      BY <2>4, <2>5, <2>6, ShelfBegins
  <1>6. ASSUME NEW h \in Handler, NEW c \in Coll, Shelf!Counts(h, c) PROVE ShelfInv'
    <2>1. PICK r : r = [does |-> "delete", coll |-> c, at |-> case.clock]
      OBVIOUS
    <2>2. r \in ShelfReq /\ r.does = "delete" /\ r.at = Shelf!Now
      BY <1>1, <2>1 DEF ShelfReq, ShelfDel, Shelf!Now
    <2>3. Shelf!Begins(h, r)
      BY <1>6, <2>1 DEF Shelf!Counts, Shelf!Now
    <2>4. ~\E x \in case.items : x.coll = r.coll
      BY <1>6, <2>1 DEF Shelf!Counts, Shelf!Deletable, Shelf!ItemsOf
    <2> QED
      BY <2>2, <2>3, <2>4, ShelfBegins
  <1>7. ASSUME NEW h \in Handler, NEW a \in Shelf!Output, Shelf!Reads(h, a) PROVE ShelfInv'
    <2>1. PICK r : r = [does |-> "record", asset |-> a, links |-> Shelf!LinksOf(a)]
      OBVIOUS
    <2>2. r \in ShelfReq /\ r.does = "record"
      BY <1>1, <2>1 DEF ShelfReq, ShelfRec, Shelf!LinksOf
    <2>3. Shelf!Begins(h, r)
      BY <1>7, <2>1 DEF Shelf!Reads
    <2> QED
      BY <2>2, <2>3, ShelfBegins
  <1>8. CASE UNCHANGED Shelf!vars
    BY <1>1, <1>8, ShelfLess DEF Shelf!vars
  <1> QED
    BY <1>2, <1>3, <1>4, <1>5, <1>6, <1>7, <1>8, ShelfInserts DEF Shelf!Next

LEMMA ShelfSafe == ASSUME ShelfInv PROVE Shelf!TypeOK /\ Shelf!DeletesOnlyLatecomers /\ Shelf!ShownAsAdded
  <1>1. Shelf!TypeOK
    BY DEF ShelfInv, ShelfT, ShelfItem, ShelfLink, Shelf!TypeOK
  <1>2. Shelf!DeletesOnlyLatecomers
    BY DEF ShelfInv, Shelf!DeletesOnlyLatecomers, ReqInTime, DelInTime, Shelf!ItemsOf
  <1> QED
    BY <1>1, <1>2 DEF ShelfInv

-----------------------------------------------------------------------------
(* The terms: those a scene may have, however they are saved.              *)

(* The cardinality of Terms is that of the library.                      *)
LEMMA TermsCardinality == \A S : Terms!Cardinality(S) = Cardinality(S)
  BY DEF Cardinality, Terms!Cardinality

LEMMA TermCardinality ==
    /\ Cardinality(Terms!Term) = 3
    /\ \A s \in SUBSET Terms!Term : IsFiniteSet(s) /\ Cardinality(s) \in 0..3 /\ (Cardinality(s) = 0 <=> s = {})
    /\ \A s \in SUBSET Terms!Term, t \in Terms!Term : t \notin s => Cardinality(s) < 3
  <1>1. Terms!Term = 1..3
    BY DEF Terms!Term
  <1>2. IsFiniteSet(Terms!Term) /\ Cardinality(Terms!Term) = 3
    <2>1. 1 \in Int /\ 3 \in Int /\ ~(1 > 3) /\ 3 - 1 + 1 = 3
      OBVIOUS
    <2>2. IsFiniteSet(1..3) /\ Cardinality(1..3) = 3 - 1 + 1
      BY <2>1, FS_Interval, Zenon
    <2> QED
      BY <1>1, <2>1, <2>2
  <1>3. ASSUME NEW s \in SUBSET Terms!Term PROVE IsFiniteSet(s) /\ Cardinality(s) \in 0..3 /\ (Cardinality(s) = 0 <=> s = {})
    BY <1>2, FS_Subset, FS_CardinalityType, FS_EmptySet
  <1>4. ASSUME NEW s \in SUBSET Terms!Term, NEW t \in Terms!Term, t \notin s PROVE Cardinality(s) < 3
    <2>1. s # Terms!Term
      BY <1>4
    <2>2. Cardinality(s) # Cardinality(Terms!Term)
      BY <1>2, <2>1, FS_Subset
    <2> QED
      BY <1>2, <1>3, <2>2
  <1> QED
    BY <1>2, <1>3, <1>4

LEMMA OneAtMost ==
    ASSUME NEW s \in SUBSET Terms!Term, \A t, u \in s : t = u
    PROVE  Cardinality(s) <= 1 /\ (s # {} => Cardinality(s) = 1)
  <1>1. CASE s = {}
    BY <1>1, FS_EmptySet
  <1>2. CASE s # {}
    <2>1. PICK t \in s : s = {t}
      BY <1>2
    <2>2. Cardinality(s) = 1
      BY <2>1, FS_Singleton
    <2> QED
      BY <1>2, <2>2
  <1> QED
    BY <1>1, <1>2

(* A term counts for a category or for none.                               *)
LEMMA CategoryType == ASSUME NEW t PROVE Terms!CategoryOf(t) \in {0} \cup Terms!Category
  <1>1. Terms!CategoriesOf(t) \subseteq Terms!Category /\ Terms!Category = {1, 2}
    BY DEF Terms!CategoriesOf, Terms!Category
  <1>2. Terms!CategoriesOf(t) # {} => \E c \in Terms!CategoriesOf(t) : \A d \in Terms!CategoriesOf(t) : c <= d
    BY <1>1
  <1> QED
    BY <1>1, <1>2 DEF Terms!CategoryOf

LEMMA OfferedCounts ==
    ASSUME NEW l \in Terms!Offered
    PROVE  Terms!CategoryOf(l[2]) \in Terms!Category /\ l[2] \in Terms!Term /\ case.term[l[2]] = "on"
  <1>1. l[1] \in Terms!Category /\ l[2] \in Terms!Term /\ case.term[l[2]] = "on" /\ case.link[<<l[1], l[2]>>] = "on" /\ case.cat[l[1]] = "on"
    BY DEF Terms!Offered
  <1>2. l[1] \in Terms!CategoriesOf(l[2])
    BY <1>1 DEF Terms!CategoriesOf
  <1>3. Terms!CategoriesOf(l[2]) \subseteq Terms!Category /\ Terms!Category = {1, 2}
    BY DEF Terms!CategoriesOf, Terms!Category
  <1>4. \E c \in Terms!CategoriesOf(l[2]) : \A d \in Terms!CategoriesOf(l[2]) : c <= d
    BY <1>2, <1>3
  <1> QED
    BY <1>1, <1>2, <1>3, <1>4 DEF Terms!CategoryOf

LEMMA LimitIs ==
    ASSUME NEW c
    PROVE  (case.single[c] /\ Terms!Limit(c) = 1) \/ (~case.single[c] /\ Terms!Limit(c) = 3)
  BY TermCardinality, TermsCardinality DEF Terms!Limit

(* Of a category that takes one term the first stays.                      *)
LEMMA TrimmedOnly ==
    ASSUME NEW s \in SUBSET Terms!Term, NEW c \in Terms!Category
    PROVE  /\ Terms!Trimmed(s) \in SUBSET s
           /\ ~case.single[c] => Terms!Of(c, Terms!Trimmed(s)) = Terms!Of(c, s)
           /\ case.single[c] => Terms!Of(c, Terms!Trimmed(s)) = {t \in Terms!Of(c, s) : \A u \in Terms!Of(c, s) : ~(u < t)}
  <1>1. Terms!Trimmed(s) \in SUBSET s /\ c # 0
    BY DEF Terms!Trimmed, Terms!Category
  <1>2. ASSUME ~case.single[c], NEW t \in Terms!Of(c, s) PROVE t \in Terms!Trimmed(s)
    <2>1. {u \in Terms!Of(c, s) : u < t} \in SUBSET Terms!Term /\ t \notin {u \in Terms!Of(c, s) : u < t} /\ t \in Terms!Term
      <3>1. t \in Terms!Term /\ Terms!Of(c, s) \subseteq Terms!Term
        BY DEF Terms!Of
      <3>2. ~(t < t)
        BY <3>1 DEF Terms!Term
      <3> QED
        BY <3>1, <3>2
    <2>2. Cardinality({u \in Terms!Of(c, s) : u < t}) < Terms!Limit(c)
      BY <1>2, <2>1, TermCardinality, LimitIs
    <2> QED
      BY <2>2, TermsCardinality DEF Terms!Trimmed, Terms!Of
  <1>3. ASSUME case.single[c], NEW t \in Terms!Of(c, s)
        PROVE  t \in Terms!Trimmed(s) <=> \A u \in Terms!Of(c, s) : ~(u < t)
    <2>1. {u \in Terms!Of(c, s) : u < t} \in SUBSET Terms!Term
      BY DEF Terms!Of
    <2>2. Terms!Limit(c) = 1
      BY <1>3, LimitIs
    <2>3. Cardinality({u \in Terms!Of(c, s) : u < t}) < Terms!Limit(c) <=> {u \in Terms!Of(c, s) : u < t} = {}
      BY <2>1, <2>2, TermCardinality
    <2> QED
      BY <1>1, <2>3, TermsCardinality DEF Terms!Trimmed, Terms!Of
  <1> QED
    BY <1>1, <1>2, <1>3 DEF Terms!Of

LEMMA FirstStays ==
    ASSUME NEW s \in SUBSET Terms!Term, NEW c \in Terms!Category, Terms!Of(c, s) # {} PROVE Terms!Of(c, Terms!Trimmed(s)) # {}
  <1>1. Terms!Of(c, s) \in SUBSET {1, 2, 3}
    BY DEF Terms!Of, Terms!Term
  <1>2. \E t \in Terms!Of(c, s) : \A u \in Terms!Of(c, s) : ~(u < t)
    BY <1>1
  <1> QED
    BY <1>2, TrimmedOnly

(* The steps from a selection to its scene.                                *)
LEMMA SceneSteps ==
    ASSUME NEW selected \in SUBSET Terms!Term
    PROVE  /\ Terms!Known(selected) \in SUBSET selected /\ Terms!Known(selected) \in SUBSET Terms!Term
           /\ \A t \in Terms!Known(selected) : case.term[t] = "on"
           /\ Terms!Implied(Terms!Known(selected)) \in SUBSET Terms!Term /\ Terms!Known(selected) \subseteq Terms!Implied(Terms!Known(selected))
           /\ \A t \in Terms!Implied(Terms!Known(selected)) : case.term[t] = "on"
           /\ Terms!Scene(selected) \in SUBSET Terms!Implied(Terms!Known(selected))
  BY DEF Terms!Known, Terms!Implied, Terms!Scene, Terms!Trimmed

(* Who stays in the scene, of those selected, was not trimmed before, and  *)
(* a category that anything is selected of has something in the scene.     *)
LEMMA SelectedInScene ==
    ASSUME NEW selected \in SUBSET Terms!Term, NEW t \in selected, case.term[t] = "on"
    PROVE  /\ t \in Terms!Scene(selected) => t \in Terms!Known(selected)
           /\ Terms!CategoryOf(t) \in Terms!Category => Terms!Of(Terms!CategoryOf(t), Terms!Scene(selected)) # {}
           /\ t \notin Terms!Scene(selected) => Terms!CategoryOf(t) \in Terms!Category /\ case.single[Terms!CategoryOf(t)]
  <1> DEFINE on == {u \in selected : case.term[u] = "on"}
             c  == Terms!CategoryOf(t)
             imp == Terms!Implied(Terms!Known(selected))
  <1>1. on \in SUBSET Terms!Term /\ t \in on /\ Terms!Known(selected) = Terms!Trimmed(on) /\ t \in Terms!Of(c, on)
    BY DEF Terms!Known, Terms!Of
  <1>2. imp \in SUBSET Terms!Term /\ Terms!Known(selected) \subseteq imp /\ Terms!Scene(selected) = Terms!Trimmed(imp)
    BY SceneSteps DEF Terms!Scene
  <1> HIDE DEF on, imp
  <1>3. CASE c = 0
    <2>1. t \in Terms!Known(selected) /\ t \in Terms!Scene(selected)
      BY <1>1, <1>2, <1>3 DEF Terms!Trimmed
    <2> QED
      BY <1>3, <2>1 DEF Terms!Category
  <1>4. CASE c \in Terms!Category
    <2> HIDE DEF c
    <2>1. Terms!Of(c, Terms!Known(selected)) # {} /\ Terms!Of(c, Terms!Known(selected)) \subseteq Terms!Of(c, imp)
      BY <1>1, <1>2, <1>4, FirstStays DEF Terms!Of
    <2>2. Terms!Of(c, Terms!Scene(selected)) # {}
      BY <1>2, <1>4, <2>1, FirstStays
    <2>3. CASE ~case.single[c]
      <3>1. t \in Terms!Known(selected)
        BY <1>1, <1>4, <2>3, TrimmedOnly DEF Terms!Of
      <3>2. t \in Terms!Of(c, imp)
        BY <1>1, <1>2, <3>1 DEF Terms!Of
      <3>3. t \in Terms!Scene(selected)
        BY <1>2, <1>4, <2>3, <3>2, TrimmedOnly DEF Terms!Of
      <3> QED
        BY <2>2, <3>1, <3>3 DEF c
    <2>4. CASE case.single[c]
      <3>1. ASSUME t \in Terms!Scene(selected), t \notin Terms!Known(selected) PROVE FALSE
        <4>1. t \notin Terms!Of(c, Terms!Trimmed(on))
          BY <1>1, <3>1 DEF Terms!Of
        <4>2. PICK u \in Terms!Of(c, on) : u < t
          BY <1>1, <1>4, <2>4, <4>1, TrimmedOnly
        <4>3. PICK v \in Terms!Of(c, Terms!Known(selected)) : \A u2 \in Terms!Of(c, on) : ~(u2 < v)
          BY <1>1, <1>4, <2>1, <2>4, TrimmedOnly
        <4>4. ~(u < v) /\ v \in Terms!Term /\ u \in Terms!Term /\ t \in Terms!Term
          BY <1>1, <4>2, <4>3, SceneSteps DEF Terms!Of
        <4>5. v < t
          BY <4>2, <4>4 DEF Terms!Term
        <4>6. v \in Terms!Of(c, imp) /\ t \in Terms!Of(c, Terms!Trimmed(imp))
          BY <1>1, <1>2, <2>1, <3>1, <4>3 DEF Terms!Of
        <4> QED
          BY <1>2, <1>4, <2>4, <4>5, <4>6, TrimmedOnly
      <3> QED
        BY <1>4, <2>2, <2>4, <3>1 DEF c
    <2> QED
      BY <2>3, <2>4
  <1> QED
    BY <1>3, <1>4, CategoryType

LEMMA SceneKept == Terms!SceneInLimits
  <1> SUFFICES ASSUME NEW selected \in SUBSET Terms!Term
               PROVE  LET scene == Terms!Scene(selected)
                      IN  /\ \A c \in Terms!Category : Cardinality(Terms!Of(c, scene)) <= Terms!Limit(c)
                          /\ \A l \in Terms!Offered : l[2] \in selected \ scene =>
                                 Cardinality(Terms!Of(Terms!CategoryOf(l[2]), scene)) = Terms!Limit(Terms!CategoryOf(l[2]))
                          /\ Terms!Missing(scene) \subseteq Terms!Warned(selected)
                          /\ \A x \in Terms!Excludes : {x[1], x[2]} \subseteq scene \cap selected => x \in Terms!Conflicts(selected)
    BY TermsCardinality DEF Terms!SceneInLimits
  <1> DEFINE scene == Terms!Scene(selected)
             imp == Terms!Implied(Terms!Known(selected))
  <1>0. scene \in SUBSET Terms!Term /\ imp \in SUBSET Terms!Term /\ scene = Terms!Trimmed(imp)
    BY SceneSteps DEF Terms!Scene
  <1>1. ASSUME NEW c \in Terms!Category, case.single[c] PROVE \A t, u \in Terms!Of(c, scene) : t = u
    <2>1. Terms!Of(c, scene) = {t \in Terms!Of(c, imp) : \A u \in Terms!Of(c, imp) : ~(u < t)}
      BY <1>0, <1>1, TrimmedOnly
    <2>2. Terms!Of(c, imp) \in SUBSET {1, 2, 3}
      BY <1>0 DEF Terms!Of, Terms!Term
    <2> QED
      BY <2>1, <2>2
  <1>2. ASSUME NEW c \in Terms!Category
        PROVE  /\ Terms!Of(c, scene) \in SUBSET Terms!Term
               /\ Cardinality(Terms!Of(c, scene)) <= Terms!Limit(c)
               /\ case.single[c] /\ Terms!Of(c, scene) # {} => Cardinality(Terms!Of(c, scene)) = Terms!Limit(c)
    <2>1. Terms!Of(c, scene) \in SUBSET Terms!Term
      BY <1>0 DEF Terms!Of
    <2>2. CASE case.single[c]
      BY <1>1, <2>1, <2>2, OneAtMost, LimitIs
    <2>3. CASE ~case.single[c]
      BY <2>1, <2>3, TermCardinality, LimitIs
    <2> QED
      BY <2>1, <2>2, <2>3
  <1>3. ASSUME NEW l \in Terms!Offered, l[2] \in selected \ scene
        PROVE  Cardinality(Terms!Of(Terms!CategoryOf(l[2]), scene)) = Terms!Limit(Terms!CategoryOf(l[2]))
    <2>1. case.term[l[2]] = "on" /\ Terms!CategoryOf(l[2]) \in Terms!Category
      BY OfferedCounts
    <2>2. case.single[Terms!CategoryOf(l[2])] /\ Terms!Of(Terms!CategoryOf(l[2]), scene) # {}
      BY <1>3, <2>1, SelectedInScene
    <2> QED
      BY <1>2, <2>1, <2>2
  <1>4. Terms!Missing(scene) \subseteq Terms!Warned(selected)
    BY DEF Terms!Warned
  <1>5. ASSUME NEW x \in Terms!Excludes, {x[1], x[2]} \subseteq scene \cap selected PROVE x \in Terms!Conflicts(selected)
    <2>1. \A t \in scene \cap selected : t \in Terms!Known(selected)
      <3>1. \A t \in scene : case.term[t] = "on"
        BY SceneSteps
      <3> QED
        BY <3>1, SelectedInScene
    <2> QED
      BY <1>5, <2>1 DEF Terms!Conflicts
  <1> QED
    BY <1>2, <1>3, <1>4, <1>5

-----------------------------------------------------------------------------
WordsType == [group : BOOLEAN, cat : [Terms!Category -> Terms!States], single : [Terms!Category -> BOOLEAN],
              stray : SUBSET Terms!Category, term : [Terms!Term -> Terms!States], link : [Terms!Category \X Terms!Term -> Terms!States],
              changes : 0..MaxChanges]
Saved == {Terms!Idle} \cup [saves : {"category"}, cat : Terms!Category, single : BOOLEAN, was : Terms!States, wasSingle : BOOLEAN]
                \cup [saves : {"term"}, cat : Terms!Category, term : Terms!Term, was : Terms!States, wasLink : Terms!States]

WordsInv == case \in WordsType /\ answer \in [Handler -> Saved] /\ Terms!CategoriesHaveGroups

LEMMA ExampleGood ==
    ASSUME NEW link \in [Terms!Category \X Terms!Term -> Terms!States], NEW n \in 0..MaxChanges
    PROVE  Terms!Example(link, n) \in WordsType /\ Terms!Example(link, n).group
  <1>1. [c \in Terms!Category |-> c = 1] \in [Terms!Category -> BOOLEAN]
    OBVIOUS
  <1>2. [c \in Terms!Category |-> "on"] \in [Terms!Category -> Terms!States] /\ [t \in Terms!Term |-> "on"] \in [Terms!Term -> Terms!States]
    BY DEF Terms!States
  <1>3. [l \in Terms!Category \X Terms!Term |-> IF l \in Terms!Seeded THEN "on" ELSE link[l]] \in [Terms!Category \X Terms!Term -> Terms!States]
    BY DEF Terms!States
  <1> QED
    BY <1>1, <1>2, <1>3 DEF Terms!Example, WordsType

LEMMA WordsInit == Terms!Init => WordsInv
  <1> SUFFICES ASSUME Terms!Init PROVE WordsInv
    OBVIOUS
  <1>1. [l \in Terms!Category \X Terms!Term |-> "none"] \in [Terms!Category \X Terms!Term -> Terms!States] /\ 0 \in 0..MaxChanges
    BY BoundsAssumption DEF Terms!States
  <1>2. case \in WordsType /\ case.group
    BY <1>1, ExampleGood DEF Terms!Init
  <1>3. answer \in [Handler -> Saved]
    BY DEF Terms!Init, Saved
  <1> QED
    BY <1>2, <1>3 DEF WordsInv, Terms!CategoriesHaveGroups

LEMMA WordsChangedGood ==
    ASSUME WordsInv, case.changes < MaxChanges
    PROVE  /\ Terms!Changed \in WordsType /\ Terms!Changed.group = case.group /\ Terms!Changed.cat = case.cat
           /\ Terms!Changed.stray = case.stray
           /\ Terms!Changed = [case EXCEPT !.changes = case.changes + 1] /\ case.changes + 1 \in 0..MaxChanges
  <1>1. case \in WordsType /\ case.changes + 1 \in 0..MaxChanges
    BY BoundsAssumption DEF WordsInv, WordsType
  <1> QED
    BY <1>1 DEF Terms!Changed, WordsType

LEMMA WordsBeginsKept ==
    ASSUME WordsInv, case.changes < MaxChanges, NEW e \in Handler, NEW save \in Saved, Terms!Begins(e, save)
    PROVE  WordsInv'
  <1>1. case' = Terms!Changed /\ answer' = [answer EXCEPT ![e] = save]
    BY DEF Terms!Begins
  <1> QED
    BY <1>1, WordsChangedGood DEF WordsInv, Terms!CategoriesHaveGroups

LEMMA WordsWrittenType == ASSUME NEW r, NEW s \in Terms!States PROVE Terms!Written(r, s) \in Terms!States
  BY DEF Terms!Written, Terms!States

LEMMA WritesCategoryKept == ASSUME WordsInv, NEW e \in Handler, Terms!WritesCategory(e) PROVE WordsInv'
  <1>1. PICK save \in Saved : save = answer[e]
    BY DEF WordsInv
  <1>2. save.cat \in Terms!Category /\ save.single \in BOOLEAN /\ case \in WordsType
    BY <1>1 DEF Terms!WritesCategory, WordsInv, Saved, Terms!Idle
  <1>3. answer' \in [Handler -> Saved]
    BY DEF Terms!WritesCategory, Terms!Ends, WordsInv, Saved
  <1>4. CASE case' = case
    BY <1>3, <1>4 DEF WordsInv, Terms!CategoriesHaveGroups
  <1>5. CASE case' = [case EXCEPT !.cat[save.cat] = Terms!Written(save.was, @),
                          !.single[save.cat] = IF save.was # "none" /\ save.single = save.wasSingle THEN @ ELSE save.single,
                          !.stray = IF case.group THEN @ ELSE @ \cup {save.cat}]
    <2>1. PICK s : s = Terms!Written(save.was, case.cat[save.cat])
      OBVIOUS
    <2>2. PICK b : b = IF save.was # "none" /\ save.single = save.wasSingle THEN case.single[save.cat] ELSE save.single
      OBVIOUS
    <2>3. PICK y : y = IF case.group THEN case.stray ELSE case.stray \cup {save.cat}
      OBVIOUS
    <2>4. s \in Terms!States
      BY <1>2, <2>1, WordsWrittenType DEF WordsType
    <2>5. b \in BOOLEAN
      BY <1>2, <2>2 DEF WordsType
    <2>6. y \in SUBSET Terms!Category
      BY <1>2, <2>3 DEF WordsType
    <2>7. case' = [case EXCEPT !.cat = [case.cat EXCEPT ![save.cat] = s],
                                 !.single = [case.single EXCEPT ![save.cat] = b], !.stray = y]
      BY <1>5, <2>1, <2>2, <2>3
    <2>8. /\ case' \in WordsType /\ case'.group = case.group
          /\ case'.cat = [case.cat EXCEPT ![save.cat] = s] /\ case'.stray = y
      BY <1>2, <2>4, <2>5, <2>6, <2>7 DEF WordsType
    <2>9. case.cat \in [Terms!Category -> Terms!States]
      BY <1>2 DEF WordsType
    <2> QED
      BY <1>2, <1>3, <2>3, <2>8, <2>9 DEF WordsInv, Terms!CategoriesHaveGroups
  <1> QED
    BY <1>1, <1>4, <1>5 DEF Terms!WritesCategory

LEMMA WritesTermKept == ASSUME WordsInv, NEW e \in Handler, Terms!WritesTerm(e) PROVE WordsInv'
  <1>1. PICK save \in Saved : save = answer[e]
    BY DEF WordsInv
  <1>2. save.cat \in Terms!Category /\ save.term \in Terms!Term /\ case \in WordsType
    BY <1>1 DEF Terms!WritesTerm, WordsInv, Saved, Terms!Idle
  <1>3. answer' \in [Handler -> Saved]
    BY DEF Terms!WritesTerm, Terms!Ends, WordsInv, Saved
  <1> DEFINE l == <<save.cat, save.term>>
  <1>4. CASE case' = case
    BY <1>3, <1>4 DEF WordsInv, Terms!CategoriesHaveGroups
  <1>5. CASE case' = [case EXCEPT !.term[l[2]] = Terms!Written(save.was, @), !.link[l] = Terms!Written(save.wasLink, @)]
    <2>1. PICK s : s = Terms!Written(save.was, case.term[save.term])
      OBVIOUS
    <2>2. PICK k : k = Terms!Written(save.wasLink, case.link[l])
      OBVIOUS
    <2>3. s \in Terms!States /\ k \in Terms!States
      BY <1>2, <2>1, <2>2, WordsWrittenType DEF WordsType
    <2>4. case' = [case EXCEPT !.term = [case.term EXCEPT ![save.term] = s], !.link = [case.link EXCEPT ![l] = k]]
      BY <1>5, <2>1, <2>2
    <2>5. case' \in WordsType /\ case'.group = case.group /\ case'.cat = case.cat /\ case'.stray = case.stray
      BY <1>2, <2>3, <2>4 DEF WordsType
    <2> QED
      BY <1>3, <2>5 DEF WordsInv, Terms!CategoriesHaveGroups
  <1> QED
    BY <1>1, <1>4, <1>5 DEF Terms!WritesTerm

LEMMA UnlinkedType ==
    ASSUME case \in WordsType, NEW links
    PROVE  Terms!Unlinked(links) \in [Terms!Category \X Terms!Term -> Terms!States]
  BY DEF Terms!Unlinked, WordsType, Terms!States

LEMMA OffType == ASSUME NEW s \in Terms!States PROVE Terms!Off(s) \in Terms!States /\ Terms!Off(s) # "on"
  BY DEF Terms!Off, Terms!States

LEMMA WordsNext == WordsInv /\ [Terms!Next]_Terms!vars => WordsInv'
  <1> SUFFICES ASSUME WordsInv, [Terms!Next]_Terms!vars PROVE WordsInv'
    OBVIOUS
  <1>0. case \in WordsType
    BY DEF WordsInv
  <1>1. ASSUME NEW e \in Handler, case.changes < MaxChanges, Terms!ReadsCategory(e) PROVE WordsInv'
    <2>1. PICK c \in Terms!Category, s \in BOOLEAN :
             Terms!Begins(e, [saves |-> "category", cat |-> c, single |-> s, was |-> case.cat[c], wasSingle |-> case.single[c]])
      BY <1>1 DEF Terms!ReadsCategory
    <2>2. [saves |-> "category", cat |-> c, single |-> s, was |-> case.cat[c], wasSingle |-> case.single[c]] \in Saved
      BY <1>0 DEF WordsType, Saved
    <2> QED
      BY <1>1, <2>1, <2>2, WordsBeginsKept
  <1>2. ASSUME NEW e \in Handler, case.changes < MaxChanges, Terms!ReadsTerm(e) PROVE WordsInv'
    <2>1. PICK c \in Terms!Category, t \in Terms!Term :
             Terms!Begins(e, [saves |-> "term", cat |-> c, term |-> t, was |-> case.term[t], wasLink |-> case.link[<<c, t>>]])
      BY <1>2 DEF Terms!ReadsTerm
    <2>2. [saves |-> "term", cat |-> c, term |-> t, was |-> case.term[t], wasLink |-> case.link[<<c, t>>]] \in Saved
      BY <1>0 DEF WordsType, Saved
    <2> QED
      BY <1>2, <2>1, <2>2, WordsBeginsKept
  <1>3. CASE case.changes < MaxChanges /\ Terms!SavesGroup
    <2>1. case' = [Terms!Changed EXCEPT !.group = TRUE] /\ UNCHANGED answer
      BY <1>3 DEF Terms!SavesGroup
    <2>2. case' \in WordsType /\ case'.group
      BY <1>3, <2>1, WordsChangedGood DEF WordsType
    <2> QED
      BY <2>1, <2>2 DEF WordsInv, Terms!CategoriesHaveGroups
  <1>4. CASE case.changes < MaxChanges /\ Terms!RemovesGroup
    <2>1. PICK k : k = Terms!Unlinked(Terms!Category \X Terms!Term)
      OBVIOUS
    <2>2. PICK f : f = [c \in Terms!Category |-> Terms!Off(case.cat[c])]
      OBVIOUS
    <2>3. f \in [Terms!Category -> Terms!States] /\ \A c \in Terms!Category : f[c] # "on"
      BY <1>0, <2>2, OffType DEF WordsType
    <2>4. Terms!Changed \in WordsType /\ Terms!Changed.cat = case.cat
      BY <1>4, WordsChangedGood
    <2>5. case' = [Terms!Changed EXCEPT !.group = FALSE, !.cat = f, !.stray = {}, !.link = k] /\ UNCHANGED answer
      BY <1>4, <2>1, <2>2, <2>4 DEF Terms!RemovesGroup
    <2>6. k \in [Terms!Category \X Terms!Term -> Terms!States]
      BY <1>0, <2>1, UnlinkedType
    <2>7. case' \in WordsType /\ case'.cat = f
      BY <2>3, <2>4, <2>5, <2>6 DEF WordsType
    <2> QED
      BY <2>3, <2>5, <2>7 DEF WordsInv, Terms!CategoriesHaveGroups
  <1>5. CASE case.changes < MaxChanges /\ Terms!RemovesCategory
    <2>1. PICK c \in Terms!Category :
             case' = [Terms!Changed EXCEPT !.cat[c] = "off", !.stray = @ \ {c}, !.link = Terms!Unlinked(Terms!LinksOf(c)),
                              !.term = [t \in Terms!Term |-> IF case.link[<<c, t>>] = "none" THEN @[t] ELSE "off"]]
      BY <1>5 DEF Terms!RemovesCategory
    <2>2. PICK k : k = Terms!Unlinked(Terms!LinksOf(c))
      OBVIOUS
    <2>3. PICK g : g = [t \in Terms!Term |-> IF case.link[<<c, t>>] = "none" THEN Terms!Changed.term[t] ELSE "off"]
      OBVIOUS
    <2>4. Terms!Changed \in WordsType /\ Terms!Changed.cat = case.cat /\ Terms!Changed.stray = case.stray /\ Terms!Changed.group = case.group
      BY <1>5, WordsChangedGood
    <2>5. case' = [Terms!Changed EXCEPT !.cat = [case.cat EXCEPT ![c] = "off"], !.stray = case.stray \ {c},
                                   !.link = k, !.term = g]
      BY <2>1, <2>2, <2>3, <2>4
    <2>6. k \in [Terms!Category \X Terms!Term -> Terms!States] /\ g \in [Terms!Term -> Terms!States]
      BY <1>0, <2>2, <2>3, <2>4, UnlinkedType DEF WordsType, Terms!States
    <2>7. case.cat \in [Terms!Category -> Terms!States] /\ case.stray \in SUBSET Terms!Category
      BY <1>0 DEF WordsType
    <2>8. /\ case' \in WordsType /\ case'.cat = [case.cat EXCEPT ![c] = "off"] /\ case'.stray = case.stray \ {c}
          /\ case'.group = case.group
      BY <2>4, <2>5, <2>6, <2>7 DEF WordsType, Terms!States
    <2> QED
      BY <1>5, <2>7, <2>8 DEF WordsInv, Terms!CategoriesHaveGroups, Terms!RemovesCategory
  <1>6. CASE case.changes < MaxChanges /\ Terms!RemovesTerm
    <2>1. PICK t \in Terms!Term : case' = [Terms!Changed EXCEPT !.term[t] = "off", !.link = Terms!Unlinked(Terms!Category \X {t})]
      BY <1>6 DEF Terms!RemovesTerm
    <2>2. PICK k : k = Terms!Unlinked(Terms!Category \X {t})
      OBVIOUS
    <2>3. /\ Terms!Changed \in WordsType /\ Terms!Changed.cat = case.cat /\ Terms!Changed.stray = case.stray /\ Terms!Changed.group = case.group
          /\ Terms!Changed.term \in [Terms!Term -> Terms!States]
      BY <1>6, WordsChangedGood DEF WordsType
    <2>4. case' = [Terms!Changed EXCEPT !.term = [Terms!Changed.term EXCEPT ![t] = "off"], !.link = k]
      BY <2>1, <2>2
    <2>5. k \in [Terms!Category \X Terms!Term -> Terms!States]
      BY <1>0, <2>2, UnlinkedType
    <2>6. case' \in WordsType /\ case'.cat = case.cat /\ case'.stray = case.stray /\ case'.group = case.group
      BY <2>3, <2>4, <2>5 DEF WordsType, Terms!States
    <2> QED
      BY <1>6, <2>6 DEF WordsInv, Terms!CategoriesHaveGroups, Terms!RemovesTerm
  <1>7. CASE Terms!Restarts
    <2>1. case' \in WordsType /\ case'.group
      BY <1>0, <1>7, ExampleGood DEF Terms!Restarts, WordsType
    <2>2. answer' \in [Handler -> Saved]
      BY <1>7 DEF Terms!Restarts, Saved
    <2> QED
      BY <2>1, <2>2 DEF WordsInv, Terms!CategoriesHaveGroups
  <1>8. CASE UNCHANGED Terms!vars
    BY <1>8 DEF Terms!vars, WordsInv, Terms!CategoriesHaveGroups
  <1> QED
    BY <1>1, <1>2, <1>3, <1>4, <1>5, <1>6, <1>7, <1>8, WritesCategoryKept, WritesTermKept DEF Terms!Next

LEMMA WordsSafe == WordsInv => Terms!TypeOK /\ Terms!CategoriesHaveGroups
  BY DEF WordsInv, WordsType, Terms!TypeOK

-----------------------------------------------------------------------------
(* The system prompt: as long as no requests overlap, what one has read is *)
(* what is there, and the newest version is the text in force.             *)

Written  == {"shipped", "u1", "u2"}
VersionT == [text : Written, at : 0..MaxSaves]
PromptT  == [text : Wording!Texts \cup {"none"}, versions : Seq(VersionT), now : 0..MaxSaves, overlapped : BOOLEAN]
HandlerT == [pc : {"idle", "upgrade", "refresh", "stamp", "commit"}, text : Written \cup {"none"},
             read : Wording!Texts \cup {"none"}, at : 0..MaxSaves]

(* What a request is at: who saves has a text; and as long as no requests  *)
(* have overlapped, what it has read is what is there.                     *)
Doing(r) ==
    /\ r.pc \in {"refresh", "stamp", "commit"} => r.text # "none"
    /\ ~case.overlapped =>
          /\ r.pc \in {"stamp", "commit", "upgrade"} => r.read = case.text
          /\ r.pc = "upgrade" => case.versions = <<>>
          /\ r.pc = "refresh" => case.versions = <<>>
          /\ r.pc = "commit" => \A i \in DOMAIN case.versions : case.versions[i].at <= r.at
          /\ r.at <= case.now

Restorable == case.text \in {"none", "first", "shipped"} \/ \E i \in DOMAIN case.versions : case.versions[i].text = case.text

(* The history, as long as no requests have overlapped.                    *)
InOrder ==
    /\ \A i, j \in DOMAIN case.versions : i < j => case.versions[i].at <= case.versions[j].at
    /\ \A i \in DOMAIN case.versions : case.versions[i].at <= case.now
    /\ case.versions # <<>> => case.versions[Len(case.versions)].text = case.text

WordingInv ==
    /\ case \in PromptT /\ answer \in [Handler -> HandlerT]
    /\ Restorable
    /\ \A h \in Handler : Doing(answer[h])
    /\ ~case.overlapped => InOrder /\ \A g, h \in Handler : answer[g].pc # "idle" /\ answer[h].pc # "idle" => g = h

LEMMA VersionsGood ==
    ASSUME case \in PromptT
    PROVE  /\ case.versions \in Seq(VersionT) /\ Len(case.versions) \in Nat
           /\ DOMAIN case.versions = 1..Len(case.versions)
           /\ \A i \in DOMAIN case.versions : /\ case.versions[i] \in VersionT
                                              /\ case.versions[i].text \in Written
                                              /\ case.versions[i].at \in 0..MaxSaves
  <1>1. case.versions \in Seq(VersionT)
    BY DEF PromptT
  <1>2. \A i \in DOMAIN case.versions : case.versions[i] \in VersionT
    BY <1>1
  <1>3. \A v \in VersionT : v.text \in Written /\ v.at \in 0..MaxSaves
    BY DEF VersionT
  <1> QED
    BY <1>1, <1>2, <1>3

LEMMA WordingInit == Wording!Init => WordingInv
  <1> SUFFICES ASSUME Wording!Init PROVE WordingInv
    OBVIOUS
  <1>1. case \in PromptT /\ case.text \in {"none", "first"} /\ case.versions = <<>>
    BY BoundsAssumption DEF Wording!Init, PromptT, Wording!Texts
  <1>2. answer \in [Handler -> HandlerT] /\ \A h \in Handler : answer[h].pc = "idle" /\ answer[h].at = 0
    BY BoundsAssumption DEF Wording!Init, Wording!Idle, HandlerT
  <1> QED
    BY <1>1, <1>2 DEF WordingInv, Restorable, Doing, InOrder, PromptT

(* The versions are listed from the last, as long as they are in order.    *)
LEMMA LastIsNewest ==
    ASSUME case \in PromptT, InOrder, case.versions # <<>>
    PROVE  Wording!Newest = case.text
  <1> DEFINE v == case.versions
             n == Len(v)
  <1>1. v \in Seq(VersionT) /\ n \in Nat \ {0} /\ DOMAIN v = 1..n
    BY VersionsGood
  <1>2. \A i \in DOMAIN v : v[i].at \in Nat
    BY VersionsGood
  <1>3. \A j \in DOMAIN v \ {n} : Wording!Newer(n, j)
    BY <1>1, <1>2 DEF Wording!Newer, InOrder
  <1>4. \A i \in DOMAIN v : (\A j \in DOMAIN v \ {i} : Wording!Newer(i, j)) => i = n
    BY <1>1, <1>2, <1>3 DEF Wording!Newer
  <1>5. Wording!First = n
    BY <1>1, <1>3, <1>4 DEF Wording!First
  <1> QED
    BY <1>5 DEF Wording!Newest, InOrder

LEMMA WordingSafe == WordingInv => Wording!TypeOK /\ Wording!TextInForceListed
  <1> SUFFICES ASSUME WordingInv PROVE Wording!TypeOK /\ Wording!TextInForceListed
    OBVIOUS
  <1>1. Wording!TextInForceListed
    BY LastIsNewest DEF WordingInv, Wording!TextInForceListed, Restorable
  <1>2. Wording!TypeOK
    <2>1. case.text \in Wording!Texts \cup {"none"}
      BY DEF WordingInv, PromptT
    <2>2. case.overlapped \in BOOLEAN
      BY DEF WordingInv, PromptT
    <2>3. \A i \in DOMAIN case.versions : case.versions[i].text \in Wording!Texts
      BY VersionsGood DEF WordingInv, Written, Wording!Texts
    <2>4. HandlerT \subseteq [pc : {"idle", "upgrade", "refresh", "stamp", "commit"}, text : Wording!Texts \cup {"none"},
                                read : Wording!Texts \cup {"none"}, at : 0..MaxSaves]
      BY DEF HandlerT, Written, Wording!Texts
    <2>5. answer \in [Handler -> [pc : {"idle", "upgrade", "refresh", "stamp", "commit"}, text : Wording!Texts \cup {"none"},
                                read : Wording!Texts \cup {"none"}, at : 0..MaxSaves]]
      BY <2>4 DEF WordingInv
    <2> QED
      BY <2>1, <2>2, <2>3, <2>5, Zenon DEF Wording!TypeOK
  <1> QED
    BY <1>1, <1>2

(* A step of one request, by what it leaves of the others.                 *)
LEMMA WordingOne ==
    ASSUME WordingInv, NEW h \in Handler, NEW r \in HandlerT, answer' = [answer EXCEPT ![h] = r],
           case' \in PromptT, case'.now = case.now, case.overlapped => case'.overlapped,
           Restorable', Doing(r)', ~case'.overlapped => InOrder',
           \/ answer[h].pc # "idle"
           \/ /\ case'.text = case.text /\ case'.versions = case.versions
              /\ case'.overlapped \/ \A g \in Handler : answer[g].pc = "idle"
    PROVE  WordingInv'
  <1>1. answer' \in [Handler -> HandlerT] /\ answer'[h] = r /\ \A g \in Handler : g # h => answer'[g] = answer[g]
    BY DEF WordingInv
  <1>2. \A g \in Handler : ~case'.overlapped /\ g # h => answer[g].pc = "idle"
    BY DEF WordingInv
  <1>3. ASSUME NEW g \in Handler PROVE Doing(answer[g])'
    <2>1. CASE g = h
      BY <1>1, <2>1 DEF Doing
    <2>2. CASE g # h
      <3>1. PICK s \in HandlerT : s = answer[g] /\ s = answer'[g]
        BY <1>1, <2>2 DEF WordingInv
      <3>2. Doing(s) /\ (~case'.overlapped => s.pc = "idle")
        BY <1>2, <2>2, <3>1 DEF WordingInv
      <3>3. Doing(s)'
        BY <3>2 DEF Doing
      <3> QED
        BY <3>1, <3>3 DEF Doing
    <2> QED
      BY <2>1, <2>2
  <1>4. \A f, g \in Handler : ~case'.overlapped /\ answer'[f].pc # "idle" /\ answer'[g].pc # "idle" => f = g
    BY <1>1, <1>2
  <1> QED
    BY <1>1, <1>3, <1>4 DEF WordingInv

LEMMA IdleIs == Wording!Idle \in HandlerT /\ Wording!Idle.pc = "idle" /\ Wording!Idle.at = 0
  BY BoundsAssumption DEF Wording!Idle, HandlerT

LEMMA WordingHandlerGood ==
    ASSUME WordingInv, NEW h \in Handler
    PROVE  answer[h] \in HandlerT /\ Doing(answer[h]) /\ case \in PromptT
  BY DEF WordingInv

(* A request that leaves.                                                  *)
LEMMA LeavesKept ==
    ASSUME WordingInv, NEW h \in Handler, answer[h].pc # "idle", Wording!Leaves(h),
           case' \in PromptT, case'.now = case.now, case'.overlapped = case.overlapped,
           Restorable', ~case.overlapped => InOrder'
    PROVE  WordingInv'
  <1>1. PICK r : r = Wording!Idle
    OBVIOUS
  <1>2. r \in HandlerT /\ answer' = [answer EXCEPT ![h] = r]
    BY <1>1, IdleIs DEF Wording!Leaves
  <1>3. Doing(r)'
    <2>1. 0 <= case.now
      BY WordingHandlerGood DEF PromptT
    <2> QED
      BY <1>1, <2>1, IdleIs DEF Doing
  <1> QED
    BY <1>2, <1>3, WordingOne

LEMMA WordingBeginsKept == ASSUME WordingInv, NEW h \in Handler, Wording!Begins(h) PROVE WordingInv'
  <1>1. case \in PromptT /\ answer[h].pc = "idle"
    BY WordingHandlerGood DEF Wording!Begins
  <1>2. PICK text \in Wording!Offered \cup {"none"} :
          /\ text # "none" \/ case.text \in {"none", "first"}
          /\ answer' = [answer EXCEPT ![h] =
                 [pc |-> IF case.text \in {"none", "first"} THEN "upgrade" ELSE "stamp",
                  text |-> text, read |-> case.text, at |-> 0]]
    BY DEF Wording!Begins
  <1>3. text \in Written \cup {"none"}
    <2>1. Wording!Offered \subseteq Written
      BY <1>1, VersionsGood DEF Wording!Offered, Written
    <2> QED
      BY <1>2, <2>1
  <1>4. PICK r : r = [pc |-> IF case.text \in {"none", "first"} THEN "upgrade" ELSE "stamp",
                      text |-> text, read |-> case.text, at |-> 0]
    OBVIOUS
  <1>5. /\ r \in HandlerT /\ r.read = case.text /\ r.text = text /\ r.at = 0
        /\ (r.pc = "upgrade" /\ case.text \in {"none", "first"}) \/ (r.pc = "stamp" /\ text # "none")
    BY <1>1, <1>2, <1>3, <1>4, BoundsAssumption DEF HandlerT, PromptT
  <1>6. PICK o \in BOOLEAN : o = (case.overlapped \/ \E g \in Handler : answer[g].pc # "idle")
    OBVIOUS
  <1>7. case' = [case EXCEPT !.overlapped = o]
    BY <1>6 DEF Wording!Begins
  <1>8. /\ case' \in PromptT /\ case'.text = case.text /\ case'.versions = case.versions
        /\ case'.now = case.now /\ case'.overlapped = o
    BY <1>1, <1>6, <1>7 DEF PromptT
  <1>9. Restorable' /\ (~o => InOrder')
    BY <1>6, <1>8 DEF WordingInv, Restorable, InOrder
  <1>10. ~o /\ r.pc = "upgrade" => case.versions = <<>>
    <2>1. \A i \in DOMAIN case.versions : case.versions[i].text \in Written
      BY <1>1, VersionsGood
    <2>2. case.versions # <<>> => Len(case.versions) \in DOMAIN case.versions
      BY <1>1, VersionsGood
    <2> QED
      BY <1>5, <1>6, <2>1, <2>2 DEF WordingInv, InOrder, Written
  <1>11. Doing(r)'
    BY <1>1, <1>5, <1>8, <1>10 DEF Doing, PromptT
  <1> QED
    BY <1>2, <1>4, <1>5, <1>6, <1>8, <1>9, <1>11, WordingOne

LEMMA UpgradesKept == ASSUME WordingInv, NEW h \in Handler, Wording!Upgrades(h) PROVE WordingInv'
  <1>1. answer[h] \in HandlerT /\ Doing(answer[h]) /\ case \in PromptT /\ answer[h].pc = "upgrade"
    BY WordingHandlerGood DEF Wording!Upgrades
  <1>2. Wording!Upgraded(h) \in Wording!Texts \cup {"none"} /\ (Wording!Upgraded(h) = case.text \/ Wording!Upgraded(h) = "shipped")
    BY <1>1 DEF Wording!Upgraded, PromptT, Wording!Texts
  <1>3. /\ case' \in PromptT /\ case'.text = Wording!Upgraded(h) /\ case'.versions = case.versions
        /\ case'.now = case.now /\ case'.overlapped = case.overlapped
    BY <1>1, <1>2 DEF Wording!Upgrades, PromptT
  <1>4. Restorable'
    BY <1>2, <1>3 DEF WordingInv, Restorable
  <1>5. ~case.overlapped => case.versions = <<>> /\ InOrder'
    BY <1>1, <1>3 DEF Doing, InOrder
  <1>6. CASE Wording!Leaves(h)
    BY <1>1, <1>3, <1>4, <1>5, <1>6, LeavesKept
  <1>7. CASE answer[h].text # "none" /\ Wording!Goes(h, "refresh")
    <2>1. PICK r : r = [answer[h] EXCEPT !.pc = "refresh"]
      OBVIOUS
    <2>2. /\ r \in HandlerT /\ r.pc = "refresh" /\ r.text = answer[h].text /\ r.at = answer[h].at
          /\ answer' = [answer EXCEPT ![h] = r]
      BY <1>1, <1>7, <2>1 DEF HandlerT, Wording!Goes
    <2>3. Doing(r)'
      BY <1>1, <1>3, <1>5, <1>7, <2>2 DEF Doing
    <2> QED
      BY <1>1, <1>3, <1>4, <1>5, <2>2, <2>3, WordingOne
  <1> QED
    BY <1>6, <1>7 DEF Wording!Upgrades

LEMMA WordingPromptSame ==
    ASSUME WordingInv, UNCHANGED case
    PROVE  /\ case' \in PromptT /\ case'.text = case.text /\ case'.versions = case.versions
           /\ case'.now = case.now /\ case'.overlapped = case.overlapped
           /\ Restorable' /\ (~case.overlapped => InOrder')
  BY DEF WordingInv, Restorable, InOrder

LEMMA RefreshesKept == ASSUME WordingInv, NEW h \in Handler, Wording!Refreshes(h) PROVE WordingInv'
  <1>1. /\ answer[h] \in HandlerT /\ Doing(answer[h]) /\ case \in PromptT /\ answer[h].pc = "refresh"
        /\ UNCHANGED case
    BY WordingHandlerGood DEF Wording!Refreshes
  <1>2. PICK r : r = [answer[h] EXCEPT !.pc = "stamp", !.read = case.text]
    OBVIOUS
  <1>3. /\ r \in HandlerT /\ r.pc = "stamp" /\ r.text = answer[h].text /\ r.at = answer[h].at /\ r.read = case.text
        /\ answer' = [answer EXCEPT ![h] = r]
    BY <1>1, <1>2 DEF HandlerT, PromptT, Wording!Refreshes
  <1>4. Doing(r)'
    BY <1>1, <1>3 DEF Doing
  <1> QED
    BY <1>1, <1>3, <1>4, WordingPromptSame, WordingOne

LEMMA StampsKept == ASSUME WordingInv, NEW h \in Handler, Wording!Stamps(h) PROVE WordingInv'
  <1>1. /\ answer[h] \in HandlerT /\ Doing(answer[h]) /\ case \in PromptT /\ answer[h].pc = "stamp"
        /\ UNCHANGED case
    BY WordingHandlerGood DEF Wording!Stamps
  <1>2. PICK r : r = [answer[h] EXCEPT !.pc = "commit", !.at = case.now]
    OBVIOUS
  <1>3. /\ r \in HandlerT /\ r.pc = "commit" /\ r.text = answer[h].text /\ r.at = case.now /\ r.read = answer[h].read
        /\ answer' = [answer EXCEPT ![h] = r]
    BY <1>1, <1>2 DEF HandlerT, PromptT, Wording!Stamps
  <1>4. Doing(r)'
    BY <1>1, <1>3 DEF Doing, WordingInv, InOrder, PromptT
  <1> QED
    BY <1>1, <1>3, <1>4, WordingPromptSame, WordingOne

LEMMA WordingCommitsKept == ASSUME WordingInv, NEW h \in Handler, Wording!Commits(h) PROVE WordingInv'
  <1>1. PICK r \in HandlerT : r = answer[h]
    BY WordingHandlerGood
  <1>2. Doing(r) /\ case \in PromptT /\ r.pc = "commit" /\ r.text \in Written /\ Wording!Leaves(h)
    BY <1>1, WordingHandlerGood DEF Wording!Commits, Doing, HandlerT
  <1>3. PICK v : v = [text |-> r.text, at |-> r.at]
    OBVIOUS
  <1>4. PICK s : s = IF r.text = r.read THEN case.text ELSE r.text
    OBVIOUS
  <1>5. case' = [case EXCEPT !.text = s, !.versions = Append(case.versions, v)]
    BY <1>1, <1>3, <1>4 DEF Wording!Commits, Wording!Versions
  <1>6. v \in VersionT /\ v.text = r.text /\ v.at = r.at
    BY <1>2, <1>3 DEF VersionT, HandlerT
  <1>7. s \in Wording!Texts \cup {"none"}
    BY <1>2, <1>4 DEF PromptT, Written, Wording!Texts
  <1> DEFINE n == Len(case.versions)
  <1>8. /\ case' \in PromptT /\ case'.text = s /\ case'.now = case.now /\ case'.overlapped = case.overlapped
        /\ case'.versions = Append(case.versions, v)
    <2>1. Append(case.versions, v) \in Seq(VersionT)
      BY <1>2, <1>6, VersionsGood
    <2> QED
      BY <1>2, <1>5, <1>7, <2>1 DEF PromptT
  <1>9. /\ n \in Nat /\ DOMAIN case.versions = 1..n /\ DOMAIN case'.versions = 1..(n + 1)
        /\ Len(case'.versions) = n + 1 /\ case'.versions[n + 1] = v
        /\ \A i \in 1..n : case'.versions[i] = case.versions[i]
    BY <1>2, <1>6, <1>8, VersionsGood
  <1>10. Restorable'
    <2>1. CASE r.text = r.read
      BY <1>4, <1>8, <1>9, <2>1 DEF WordingInv, Restorable
    <2>2. CASE r.text # r.read
      BY <1>4, <1>6, <1>8, <1>9, <2>2 DEF Restorable
    <2> QED
      BY <2>1, <2>2
  <1>11. ASSUME ~case.overlapped PROVE InOrder'
    <2>1. s = r.text /\ r.at <= case.now /\ \A i \in 1..n : case.versions[i].at <= r.at
      BY <1>2, <1>4, <1>9, <1>11 DEF Doing
    <2>2. InOrder
      BY <1>11 DEF WordingInv
    <2> QED
      BY <1>6, <1>8, <1>9, <2>1, <2>2 DEF InOrder
  <1> QED
    BY <1>1, <1>2, <1>8, <1>10, <1>11, LeavesKept

LEMMA PassesKept == ASSUME WordingInv, Wording!Passes PROVE WordingInv'
  <1>1. case \in PromptT /\ case.now + 1 \in 0..MaxSaves
    BY BoundsAssumption DEF WordingInv, PromptT, Wording!Passes
  <1>2. /\ case' \in PromptT /\ case'.text = case.text /\ case'.versions = case.versions
        /\ case'.now = case.now + 1 /\ case'.overlapped = case.overlapped /\ UNCHANGED answer
    BY <1>1 DEF Wording!Passes, PromptT
  <1>3. Restorable'
    BY <1>2 DEF WordingInv, Restorable
  <1>4. ~case.overlapped => InOrder'
    <2>1. \A i \in DOMAIN case.versions : case.versions[i].at \in Nat
      BY <1>1, VersionsGood
    <2> QED
      BY <1>1, <1>2, <2>1 DEF WordingInv, InOrder, PromptT
  <1>5. ASSUME NEW h \in Handler PROVE Doing(answer[h])'
    BY <1>1, <1>2, WordingHandlerGood DEF Doing, HandlerT, PromptT
  <1> QED
    BY <1>2, <1>3, <1>4, <1>5 DEF WordingInv

LEMMA WordingNext == WordingInv /\ [Wording!Next]_Wording!vars => WordingInv'
  <1> SUFFICES ASSUME WordingInv, [Wording!Next]_Wording!vars PROVE WordingInv'
    OBVIOUS
  <1>1. CASE UNCHANGED Wording!vars
    BY <1>1, WordingPromptSame DEF Wording!vars, WordingInv, Doing
  <1> QED
    BY <1>1, PassesKept, WordingBeginsKept, UpgradesKept, RefreshesKept, StampsKept, WordingCommitsKept
       DEF Wording!Next

-----------------------------------------------------------------------------
(* The file of instructions: as long as no requests overlap, the file is   *)
(* what was last agreed on.                                                *)

GoodSets == {s \in Instructions!Sets : \A w \in Instructions!Workflow : Instructions!OneCore(s, w)}
GoodContent == [state : {"nothing", "blank", "torn", "whole"}, set : GoodSets]
DiskT  == [path : {0} \cup Instructions!Nodes, tmp : {0} \cup Instructions!Nodes, old : BOOLEAN, holds : [Instructions!Nodes -> GoodContent]]
CountT == [saves : Nat, deaths : Nat, overlapped : BOOLEAN]
Thens  == {"read", "change", "answer"}
Req    == {Instructions!Idle} \cup [pc : {"read"}, op : AskedChanges] \cup [pc : {"change"}, op : AskedChanges, set : GoodSets]
          \cup [pc : {"open", "rename"}, op : AskedChanges, set : GoodSets, then : Thens]
          \cup [pc : {"write"}, op : AskedChanges, set : GoodSets, then : Thens, node : Instructions!Nodes]

(* What a request holds, as long as none has overlapped another.           *)
Knows(r) ==
    /\ r.pc = "change" => r.set = agreed
    /\ r.pc \in {"open", "write", "rename"} =>
          IF r.then = "answer" THEN Instructions!Accepted(agreed, r.op) /\ r.set = Instructions!Changed(agreed, r.op) ELSE r.set = agreed
    /\ r.pc = "write" => case.tmp # 0 /\ r.node = case.tmp /\ case.holds[case.tmp].state = "blank"
    /\ r.pc = "rename" => case.tmp # 0 /\ case.holds[case.tmp] = Instructions!Whole(r.set)

FileAgreed ==
    /\ case.path = 0 => agreed = Instructions!Seed
    /\ case.path # 0 => case.holds[case.path] = Instructions!Whole(agreed)

FileInv ==
    /\ case \in DiskT /\ answer \in [Handler -> Req] /\ agreed \in GoodSets /\ count \in CountT
    /\ case.tmp # 0 => case.tmp # case.path
    /\ ~count.overlapped =>
          /\ \A g, h \in Handler : ~Instructions!In(g, "idle") /\ ~Instructions!In(h, "idle") => g = h
          /\ \A h \in Handler : Knows(answer[h])
          /\ FileAgreed

(* The cardinality of Instructions is that of the library.               *)
LEMMA InstructionsCardinality == \A S : Instructions!Cardinality(S) = Cardinality(S)
  BY DEF Cardinality, Instructions!Cardinality

-----------------------------------------------------------------------------
LEMMA CodesFinite ==
    /\ \A s, w : IsFiniteSet({c \in Instructions!Code : s[w][c] = "CORE"}) /\ Cardinality({c \in Instructions!Code : s[w][c] = "CORE"}) \in Nat
    /\ \A x \in SUBSET Instructions!Code : IsFiniteSet(x) /\ Cardinality(x) \in Nat
    /\ \A c \in Instructions!Code : Cardinality({c}) = 1
  <1>1. IsFiniteSet(Instructions!Code)
    <2>1. Instructions!Code = {"a"} \cup {"b"}
      BY DEF Instructions!Code
    <2>2. IsFiniteSet({"a"}) /\ IsFiniteSet({"b"})
      BY FS_Singleton
    <2> QED
      BY <2>1, <2>2, FS_Union
  <1>2. ASSUME NEW s, NEW w
        PROVE  IsFiniteSet({c \in Instructions!Code : s[w][c] = "CORE"}) /\ Cardinality({c \in Instructions!Code : s[w][c] = "CORE"}) \in Nat
    <2>1. {c \in Instructions!Code : s[w][c] = "CORE"} \in SUBSET Instructions!Code
      OBVIOUS
    <2> QED
      BY <1>1, <2>1, FS_Subset, FS_CardinalityType
  <1>3. ASSUME NEW x \in SUBSET Instructions!Code PROVE IsFiniteSet(x) /\ Cardinality(x) \in Nat
    BY <1>1, FS_Subset, FS_CardinalityType
  <1> QED
    BY <1>2, <1>3, FS_Singleton

LEMMA SeedGood == Instructions!Seed \in GoodSets
  <1>1. Instructions!Seed \in Instructions!Sets
    BY DEF Instructions!Seed, Instructions!Sets, Instructions!Role, Instructions!Workflow, Instructions!Code
  <1>2. ASSUME NEW w \in Instructions!Workflow PROVE Instructions!OneCore(Instructions!Seed, w)
    <2>1. CASE w = "w1"
      <3>1. {c \in Instructions!Code : Instructions!Seed[w][c] = "CORE"} = {"a"}
        BY <2>1 DEF Instructions!Seed, Instructions!Code, Instructions!Workflow
      <3> QED
        BY <3>1, CodesFinite, InstructionsCardinality DEF Instructions!OneCore, Instructions!Code
    <2>2. CASE w # "w1"
      <3>1. {c \in Instructions!Code : Instructions!Seed[w][c] = "CORE"} = {}
        BY <1>2, <2>2 DEF Instructions!Seed, Instructions!Code, Instructions!Workflow
      <3> QED
        BY <3>1, FS_EmptySet, InstructionsCardinality DEF Instructions!OneCore
    <2> QED
      BY <2>1, <2>2
  <1> QED
    BY <1>1, <1>2 DEF GoodSets

LEMMA OpTypes ==
    ASSUME NEW op \in AskedChanges
    PROVE  /\ op.kind \in {"save", "delete", "copy"} /\ op.w \in Instructions!Workflow
           /\ op.kind = "save" => op.code \in Instructions!Code /\ op.role \in Instructions!Role
           /\ op.kind = "delete" => op.code \in Instructions!Code
           /\ op.kind = "copy" => op.from \in Instructions!Workflow
  BY ChangesAssumption DEF Instructions!Saves, Instructions!Deletes, Instructions!Copies,
     Instructions!Workflow

(* An accepted change leaves every other workflow as it is.                *)
LEMMA FileChangedGood ==
    ASSUME NEW s \in GoodSets, NEW op \in AskedChanges, Instructions!Accepted(s, op)
    PROVE  Instructions!Changed(s, op) \in GoodSets
  <1>1. s \in Instructions!Sets /\ \A w \in Instructions!Workflow : Instructions!OneCore(s, w)
    BY DEF GoodSets
  <1>2. PICK d : d = Instructions!Changed(s, op)
    OBVIOUS
  <1>3. d \in Instructions!Sets /\ \A w \in Instructions!Workflow : w # op.w => d[w] = s[w]
    <2>1. CASE op.kind = "save"
      <3>1. d = [s EXCEPT ![op.w] = [c \in Instructions!Code |-> IF c = op.code THEN op.role
                                                  ELSE IF c = op.from THEN "none" ELSE s[op.w][c]]]
        BY <1>2, <2>1 DEF Instructions!Changed
      <3> QED
        BY <1>1, <2>1, <3>1, OpTypes DEF Instructions!Sets
    <2>2. CASE op.kind = "delete"
      <3>1. d = [s EXCEPT ![op.w] = [s[op.w] EXCEPT ![op.code] = "none"]]
        BY <1>2, <2>2 DEF Instructions!Changed
      <3> QED
        BY <1>1, <2>2, <3>1, OpTypes DEF Instructions!Sets
    <2>3. CASE op.kind = "copy"
      <3>1. d = [s EXCEPT ![op.w] = s[op.from]]
        BY <1>2, <2>3 DEF Instructions!Changed
      <3> QED
        BY <1>1, <2>3, <3>1, OpTypes DEF Instructions!Sets
    <2> QED
      BY <2>1, <2>2, <2>3, OpTypes
  <1>4. Instructions!OneCore(d, op.w)
    <2>1. CASE op.kind # "delete"
      BY <1>2, <2>1 DEF Instructions!Accepted
    <2>2. CASE op.kind = "delete"
      <3>1. d = [s EXCEPT ![op.w] = [s[op.w] EXCEPT ![op.code] = "none"]]
        BY <1>2, <2>2 DEF Instructions!Changed
      <3>2. PICK x : x = {c \in Instructions!Code : d[op.w][c] = "CORE"}
        OBVIOUS
      <3>3. PICK y : y = {c \in Instructions!Code : s[op.w][c] = "CORE"}
        OBVIOUS
      <3>4. IsFiniteSet(y) /\ Cardinality(y) \in Nat /\ Cardinality(x) \in Nat
        <4>1. x \in SUBSET Instructions!Code /\ y \in SUBSET Instructions!Code
          BY <3>2, <3>3
        <4> QED
          BY <4>1, CodesFinite
      <3>5. x \in SUBSET y
        BY <1>1, <2>2, <3>1, <3>2, <3>3, OpTypes DEF Instructions!Sets
      <3>6. Cardinality(x) <= Cardinality(y)
        BY <3>4, <3>5, FS_Subset
      <3>7. Cardinality(y) <= 1
        BY <1>1, <3>3, OpTypes, InstructionsCardinality DEF Instructions!OneCore
      <3>8. Cardinality(x) <= 1
        BY <3>4, <3>6, <3>7
      <3> QED
        BY <3>2, <3>8, InstructionsCardinality DEF Instructions!OneCore
    <2> QED
      BY <2>1, <2>2
  <1>5. \A w \in Instructions!Workflow : w # op.w => Instructions!OneCore(d, w)
    BY <1>1, <1>3 DEF Instructions!OneCore
  <1> QED
    BY <1>2, <1>3, <1>4, <1>5 DEF GoodSets

(* There is always a node that nobody uses.                                *)
LEMMA FreeGood ==
    ASSUME NEW h \in Handler, ~Instructions!In(h, "write")
    PROVE  Instructions!Free \in Instructions!Nodes /\ Instructions!Free \notin Instructions!Used
  <1> DEFINE W == {g \in Handler : Instructions!In(g, "write")}
             I == {answer[g].node : g \in W}
             f == [g \in W |-> answer[g].node]
             n == Cardinality(Handler)
  <1>1. n \in Nat /\ IsFiniteSet(Instructions!Nodes) /\ Cardinality(Instructions!Nodes) = n + 2
    <2>1. n \in Nat
      BY FiniteAssumption, FS_CardinalityType
    <2>2. 1 \in Int /\ n + 2 \in Int /\ ~(1 > n + 2) /\ (n + 2) - 1 + 1 = n + 2
      BY <2>1
    <2>3. IsFiniteSet(1..(n + 2)) /\ Cardinality(1..(n + 2)) = (n + 2) - 1 + 1
      BY <2>2, FS_Interval, Zenon
    <2> QED
      BY <2>1, <2>2, <2>3, InstructionsCardinality DEF Instructions!Nodes
  <1>2. IsFiniteSet(W) /\ Cardinality(W) \in Nat /\ Cardinality(W) < n
    <2>1. W \in SUBSET Handler /\ W # Handler
      OBVIOUS
    <2> QED
      BY <1>1, <2>1, FiniteAssumption, FS_Subset, FS_CardinalityType
  <1>3. IsFiniteSet(I) /\ Cardinality(I) \in Nat /\ Cardinality(I) <= Cardinality(W)
    <2>1. f \in Surjection(W, I)
      BY DEF Surjection
    <2> QED
      BY <1>2, <2>1, FS_Surjection, FS_CardinalityType
  <1> HIDE DEF W, I, f, n
  <1>4. PICK p : p = {case.path} \cup {case.tmp}
    OBVIOUS
  <1>5. IsFiniteSet(p) /\ Cardinality(p) \in Nat /\ Cardinality(p) <= 2
    <2>1. IsFiniteSet({case.path}) /\ Cardinality({case.path}) = 1
      BY FS_Singleton
    <2>2. IsFiniteSet(p) /\ (Cardinality(p) = 1 \/ Cardinality(p) = 2)
      BY <1>4, <2>1, FS_AddElement
    <2> QED
      BY <2>2
  <1>6. Instructions!Used = p \cup I
    BY <1>4 DEF Instructions!Used, I, W
  <1>7. IsFiniteSet(Instructions!Used) /\ Cardinality(Instructions!Used) \in Nat /\ Cardinality(Instructions!Used) <= Cardinality(p) + Cardinality(I)
    <2>1. IsFiniteSet(p \cap I) /\ Cardinality(p \cap I) \in Nat
      BY <1>5, FS_Intersection, FS_CardinalityType
    <2>2. IsFiniteSet(p \cup I) /\ Cardinality(p \cup I) = Cardinality(p) + Cardinality(I) - Cardinality(p \cap I)
      BY <1>3, <1>5, FS_Union
    <2> QED
      BY <1>3, <1>5, <1>6, <2>1, <2>2, FS_CardinalityType
  <1>8. ~(Instructions!Nodes \subseteq Instructions!Used)
    <2> SUFFICES ASSUME Instructions!Nodes \subseteq Instructions!Used PROVE FALSE
      OBVIOUS
    <2>1. Instructions!Nodes \in SUBSET Instructions!Used
      OBVIOUS
    <2>2. Cardinality(Instructions!Nodes) <= Cardinality(Instructions!Used)
      BY <1>7, <2>1, FS_Subset
    <2> QED
      BY <1>1, <1>2, <1>3, <1>5, <1>7, <2>2
  <1>9. \E m \in Instructions!Nodes : m \notin Instructions!Used
    BY <1>8
  <1> QED
    BY <1>9 DEF Instructions!Free

-----------------------------------------------------------------------------
LEMMA ReqCases ==
    ASSUME NEW r \in Req
    PROVE  /\ r.pc = "idle" => r = Instructions!Idle
           /\ r.pc # "idle" => r.op \in AskedChanges
           /\ r.pc \in {"change", "open", "write", "rename"} => r.set \in GoodSets
           /\ r.pc \in {"open", "write", "rename"} => r.then \in Thens
           /\ r.pc = "write" => r.node \in Instructions!Nodes
           /\ r.pc \in {"idle", "read", "change", "open", "write", "rename"}
  BY DEF Req, Instructions!Idle

LEMMA FileHandlerGood ==
    ASSUME FileInv, NEW h \in Handler
    PROVE  /\ answer[h] \in Req /\ case \in DiskT /\ agreed \in GoodSets
           /\ ~count.overlapped => Knows(answer[h]) /\ FileAgreed
           /\ ~count.overlapped /\ ~Instructions!In(h, "idle") => \A g \in Handler : g # h => Instructions!In(g, "idle")
  BY DEF FileInv

(* A step of one request.                                                  *)
LEMMA FileOne ==
    ASSUME FileInv, NEW h \in Handler, NEW r \in Req, Instructions!Goes(h, r), ~Instructions!In(h, "idle"),
           case' \in DiskT, case'.tmp # 0 => case'.tmp # case'.path, agreed' \in GoodSets, UNCHANGED count,
           ~count.overlapped => Knows(r)' /\ FileAgreed'
    PROVE  FileInv'
  <1>1. answer' \in [Handler -> Req] /\ answer'[h] = r /\ \A g \in Handler : g # h => answer'[g] = answer[g]
    BY DEF FileInv, Instructions!Goes
  <1>2. ASSUME ~count.overlapped, NEW g \in Handler, g # h PROVE Instructions!In(g, "idle") /\ answer'[g] = answer[g]
    BY <1>1, <1>2, FileHandlerGood
  <1>3. ASSUME ~count.overlapped, NEW g \in Handler PROVE Knows(answer[g])'
    <2>1. CASE g = h
      BY <1>1, <1>3, <2>1 DEF Knows, Instructions!Accepted, Instructions!Changed
    <2>2. CASE g # h
      BY <1>2, <1>3, <2>2 DEF Knows, Instructions!In
    <2> QED
      BY <2>1, <2>2
  <1>4. ~count.overlapped => \A f, g \in Handler : ~Instructions!In(f, "idle")' /\ ~Instructions!In(g, "idle")' => f = g
    BY <1>2 DEF Instructions!In
  <1> QED
    BY <1>1, <1>3, <1>4 DEF FileInv

LEMMA DiskSame == ASSUME FileInv, UNCHANGED <<case, agreed>> PROVE case' \in DiskT /\ agreed' \in GoodSets
                                        /\ (case'.tmp # 0 => case'.tmp # case'.path) /\ (FileAgreed => FileAgreed')
  BY DEF FileInv, FileAgreed

LEMMA IdleKnows == Instructions!Idle \in Req /\ Instructions!Idle.pc = "idle" /\ Knows(Instructions!Idle)'
  BY DEF Instructions!Idle, Req, Knows

LEMMA FileInit == Instructions!Init => FileInv
  <1> SUFFICES ASSUME Instructions!Init PROVE FileInv
    OBVIOUS
  <1>1. PICK path \in {0, 1}, aged \in BOOLEAN :
           case = [path |-> path, tmp |-> 0, old |-> path = 1 /\ aged,
                   holds |-> [n \in Instructions!Nodes |-> [state |-> IF n = path THEN "whole" ELSE "nothing", set |-> Instructions!Seed]]]
    BY DEF Instructions!Init
  <1>2. 1 \in Instructions!Nodes /\ 0 \notin Instructions!Nodes
    <2>1. Cardinality(Handler) \in Nat
      BY FiniteAssumption, FS_CardinalityType
    <2> QED
      BY <2>1, InstructionsCardinality DEF Instructions!Nodes
  <1>3. [n \in Instructions!Nodes |-> [state |-> IF n = path THEN "whole" ELSE "nothing", set |-> Instructions!Seed]] \in [Instructions!Nodes -> GoodContent]
    BY SeedGood DEF GoodContent
  <1>4. case \in DiskT /\ case.tmp = 0 /\ case.path = path
    <2>1. (path = 1 /\ aged) \in BOOLEAN
      OBVIOUS
    <2> QED
      BY <1>1, <1>2, <1>3, <2>1 DEF DiskT
  <1>5. answer \in [Handler -> Req] /\ \A h \in Handler : answer[h] = Instructions!Idle
    BY IdleKnows DEF Instructions!Init
  <1>6. count \in CountT
    BY DEF Instructions!Init, CountT
  <1>7. FileAgreed
    BY <1>1, <1>2, <1>4 DEF Instructions!Init, FileAgreed, Instructions!Whole
  <1>8. \A h \in Handler : Knows(answer[h]) /\ Instructions!In(h, "idle")
    BY <1>5 DEF Knows, Instructions!Idle, Instructions!In
  <1> QED
    BY <1>4, <1>5, <1>6, <1>7, <1>8, SeedGood DEF FileInv, Instructions!Init

LEMMA FileBegins == ASSUME FileInv, NEW h \in Handler, Instructions!Begins(h) PROVE FileInv'
  <1>1. PICK op \in AskedChanges : Instructions!Goes(h, [pc |-> "read", op |-> op])
    BY DEF Instructions!Begins
  <1>2. PICK r : r = [pc |-> "read", op |-> op]
    OBVIOUS
  <1>3. r \in Req /\ r.pc = "read" /\ answer' = [answer EXCEPT ![h] = r]
    BY <1>1, <1>2 DEF Req, Instructions!Goes
  <1>4. answer' \in [Handler -> Req] /\ answer'[h] = r /\ \A g \in Handler : g # h => answer'[g] = answer[g]
    BY <1>3 DEF FileInv
  <1>5. PICK o \in BOOLEAN : o = (count.overlapped \/ \E g \in Handler : ~Instructions!In(g, "idle"))
    OBVIOUS
  <1>6. count' = [count EXCEPT !.saves = count.saves + 1, !.overlapped = o]
    BY <1>5 DEF Instructions!Begins
  <1>7. count' \in CountT /\ count'.overlapped = o
    <2>1. count \in CountT
      BY DEF FileInv
    <2>2. PICK n : n = count.saves + 1
      OBVIOUS
    <2>3. n \in Nat
      BY <2>1, <2>2 DEF CountT
    <2>4. count' = [count EXCEPT !.saves = n, !.overlapped = o]
      BY <1>6, <2>2
    <2> QED
      BY ONLY <1>5, <2>1, <2>3, <2>4, Zenon DEF CountT
  <1>8. UNCHANGED <<case, agreed>>
    BY DEF Instructions!Begins
  <1>9. ASSUME ~o, NEW g \in Handler PROVE Knows(answer[g])' /\ (g # h => Instructions!In(g, "idle")')
    <2>1. CASE g = h
      BY <1>3, <1>4, <2>1 DEF Knows
    <2>2. CASE g # h
      BY <1>4, <1>5, <1>9, <2>2 DEF Knows, Instructions!In
    <2> QED
      BY <2>1, <2>2
  <1> QED
    BY <1>4, <1>5, <1>7, <1>8, <1>9, DiskSame DEF FileInv

LEMMA FileReads == ASSUME FileInv, NEW h \in Handler, Instructions!Reads(h) PROVE FileInv'
  <1>1. /\ answer[h] \in Req /\ case \in DiskT /\ agreed \in GoodSets /\ answer[h].pc = "read" /\ ~Instructions!In(h, "idle")
        /\ UNCHANGED <<case, agreed, count>> /\ answer[h].op \in AskedChanges
        /\ ~count.overlapped => FileAgreed
    BY FileHandlerGood, ReqCases DEF Instructions!Reads, Instructions!In
  <1> DEFINE op == answer[h].op
             found == case.holds[case.path]
  <1>2. CASE case.path = 0 /\ Instructions!Goes(h, [pc |-> "open", op |-> op, set |-> Instructions!Seed, then |-> "read"])
    <2>1. PICK r : r = [pc |-> "open", op |-> op, set |-> Instructions!Seed, then |-> "read"]
      OBVIOUS
    <2>2. r \in Req /\ Instructions!Goes(h, r)
      BY <1>1, <1>2, <2>1, SeedGood DEF Req, Thens
    <2>3. ~count.overlapped => Knows(r)'
      BY <1>1, <1>2, <2>1 DEF Knows, FileAgreed
    <2> QED
      BY <1>1, <2>2, <2>3, DiskSame, FileOne
  <1>3. CASE Instructions!Goes(h, Instructions!Idle)
    BY <1>1, <1>3, IdleKnows, DiskSame, FileOne
  <1>4. CASE case.path # 0 /\ found.state = "whole" /\ Instructions!Goes(h, [pc |-> "open", op |-> op, set |-> found.set, then |-> "change"])
    <2>1. PICK r : r = [pc |-> "open", op |-> op, set |-> found.set, then |-> "change"]
      OBVIOUS
    <2>2. found.set \in GoodSets
      BY <1>1, <1>4 DEF DiskT, GoodContent
    <2>3. r \in Req /\ Instructions!Goes(h, r)
      BY <1>1, <1>4, <2>1, <2>2 DEF Req, Thens
    <2>4. ~count.overlapped => Knows(r)'
      BY <1>1, <1>4, <2>1 DEF Knows, FileAgreed, Instructions!Whole
    <2> QED
      BY <1>1, <2>3, <2>4, DiskSame, FileOne
  <1>5. CASE case.path # 0 /\ found.state = "whole" /\ Instructions!Goes(h, [pc |-> "change", op |-> op, set |-> found.set])
    <2>1. PICK r : r = [pc |-> "change", op |-> op, set |-> found.set]
      OBVIOUS
    <2>2. found.set \in GoodSets
      BY <1>1, <1>5 DEF DiskT, GoodContent
    <2>3. r \in Req /\ Instructions!Goes(h, r)
      BY <1>1, <1>5, <2>1, <2>2 DEF Req
    <2>4. ~count.overlapped => Knows(r)'
      BY <1>1, <1>5, <2>1 DEF Knows, FileAgreed, Instructions!Whole
    <2> QED
      BY <1>1, <2>3, <2>4, DiskSame, FileOne
  <1> QED
    BY <1>2, <1>3, <1>4, <1>5 DEF Instructions!Reads

LEMMA FileChanges == ASSUME FileInv, NEW h \in Handler, Instructions!Changes(h) PROVE FileInv'
  <1>1. PICK q \in Req : q = answer[h]
    BY FileHandlerGood
  <1>2. /\ q.pc = "change" /\ ~Instructions!In(h, "idle") /\ UNCHANGED <<case, agreed, count>> /\ q.op \in AskedChanges /\ q.set \in GoodSets
        /\ ~count.overlapped => q.set = agreed /\ FileAgreed
    BY <1>1, FileHandlerGood, ReqCases DEF Instructions!Changes, Instructions!In, Knows
  <1>3. CASE Instructions!Goes(h, Instructions!Idle)
    BY <1>2, <1>3, IdleKnows, DiskSame, FileOne
  <1>4. CASE Instructions!Accepted(q.set, q.op) /\ Instructions!Goes(h, [pc |-> "open", op |-> q.op, set |-> Instructions!Changed(q.set, q.op), then |-> "answer"])
    <2>1. PICK r : r = [pc |-> "open", op |-> q.op, set |-> Instructions!Changed(q.set, q.op), then |-> "answer"]
      OBVIOUS
    <2>2. Instructions!Changed(q.set, q.op) \in GoodSets
      BY <1>2, <1>4, FileChangedGood
    <2>3. r \in Req /\ Instructions!Goes(h, r)
      BY <1>2, <1>4, <2>1, <2>2 DEF Req, Thens
    <2>4. r.pc = "open" /\ r.op = q.op /\ r.set = Instructions!Changed(q.set, q.op) /\ r.then = "answer"
      BY <2>1
    <2>5. ~count.overlapped => Instructions!Accepted(agreed, r.op) /\ r.set = Instructions!Changed(agreed, r.op)
      BY <1>2, <1>4, <2>4
    <2>6. ~count.overlapped => Knows(r)'
      BY <1>2, <2>4, <2>5 DEF Knows
    <2> QED
      BY <1>2, <2>3, <2>6, DiskSame, FileOne
  <1> QED
    BY <1>1, <1>3, <1>4 DEF Instructions!Changes

LEMMA FileOpens == ASSUME FileInv, NEW h \in Handler, Instructions!Opens(h) PROVE FileInv'
  <1>1. PICK q \in Req : q = answer[h]
    BY FileHandlerGood
  <1>2. /\ q.pc = "open" /\ ~Instructions!In(h, "idle") /\ ~Instructions!In(h, "write") /\ case \in DiskT /\ UNCHANGED <<agreed, count>>
        /\ q.op \in AskedChanges /\ q.set \in GoodSets /\ q.then \in Thens /\ agreed \in GoodSets
        /\ ~count.overlapped => Knows(q) /\ FileAgreed
    BY <1>1, FileHandlerGood, ReqCases DEF Instructions!Opens, Instructions!In
  <1>3. PICK t : t = Instructions!Target
    OBVIOUS
  <1>4. t \in Instructions!Nodes /\ t # case.path /\ t # 0
    <2>1. Cardinality(Handler) \in Nat
      BY FiniteAssumption, FS_CardinalityType
    <2>2. 0 \notin Instructions!Nodes
      BY <2>1 DEF Instructions!Nodes
    <2>3. CASE case.tmp # 0
      BY <1>2, <1>3, <2>2, <2>3 DEF Instructions!Target, DiskT, FileInv
    <2>4. CASE case.tmp = 0
      <3>1. t = Instructions!Free /\ Instructions!Free \in Instructions!Nodes /\ Instructions!Free \notin Instructions!Used
        BY <1>2, <1>3, <2>4, FreeGood DEF Instructions!Target
      <3> QED
        BY <2>2, <3>1 DEF Instructions!Used
    <2> QED
      BY <2>3, <2>4
  <1>5. PICK c : c = [state |-> "blank", set |-> Instructions!Seed]
    OBVIOUS
  <1>6. c \in GoodContent /\ c.state = "blank"
    BY <1>5, SeedGood DEF GoodContent
  <1>7. case' = [case EXCEPT !.tmp = t, !.holds = [case.holds EXCEPT ![t] = c]]
    BY <1>3, <1>5 DEF Instructions!Opens
  <1>8. /\ case' \in DiskT /\ case'.tmp = t /\ case'.path = case.path /\ case'.holds = [case.holds EXCEPT ![t] = c]
        /\ case.holds \in [Instructions!Nodes -> GoodContent]
    BY <1>2, <1>4, <1>6, <1>7 DEF DiskT
  <1>9. PICK r : r = [pc |-> "write", op |-> q.op, set |-> q.set, then |-> q.then, node |-> t]
    OBVIOUS
  <1>10. r \in Req /\ Instructions!Goes(h, r)
    BY <1>1, <1>2, <1>3, <1>4, <1>9 DEF Req, Instructions!Opens
  <1>11. /\ r.pc = "write" /\ r.op = q.op /\ r.set = q.set /\ r.then = q.then /\ r.node = t
    BY <1>9
  <1>12. ~count.overlapped => Knows(r)'
    BY <1>2, <1>4, <1>6, <1>8, <1>11 DEF Knows
  <1>13. ~count.overlapped => FileAgreed'
    BY <1>2, <1>4, <1>8 DEF FileAgreed, Instructions!Whole, DiskT
  <1> QED
    BY <1>2, <1>4, <1>8, <1>10, <1>12, <1>13, FileOne

LEMMA FileWrites == ASSUME FileInv, NEW h \in Handler, Instructions!Writes(h) PROVE FileInv'
  <1>1. PICK q \in Req : q = answer[h]
    BY FileHandlerGood
  <1>2. /\ q.pc = "write" /\ ~Instructions!In(h, "idle") /\ case \in DiskT /\ UNCHANGED <<agreed, count>>
        /\ q.op \in AskedChanges /\ q.set \in GoodSets /\ q.then \in Thens /\ q.node \in Instructions!Nodes /\ agreed \in GoodSets
        /\ ~count.overlapped => Knows(q) /\ FileAgreed
    BY <1>1, FileHandlerGood, ReqCases DEF Instructions!Writes, Instructions!In
  <1>3. PICK c \in {Instructions!Whole(q.set)} \cup
               (IF case.holds[q.node].state = "blank" \/ case.holds[q.node] = Instructions!Whole(q.set) THEN {}
                ELSE {[state |-> "torn", set |-> Instructions!Seed]}) : case' = [case EXCEPT !.holds[q.node] = c]
    BY <1>1 DEF Instructions!Writes
  <1>4. c \in GoodContent
    BY <1>2, <1>3, SeedGood DEF GoodContent, Instructions!Whole
  <1>5. /\ case' \in DiskT /\ case'.tmp = case.tmp /\ case'.path = case.path
        /\ case'.holds = [case.holds EXCEPT ![q.node] = c] /\ case.holds \in [Instructions!Nodes -> GoodContent]
    BY <1>2, <1>3, <1>4 DEF DiskT
  <1>6. PICK r : r = [pc |-> "rename", op |-> q.op, set |-> q.set, then |-> q.then]
    OBVIOUS
  <1>7. r \in Req /\ Instructions!Goes(h, r)
    BY <1>1, <1>2, <1>6 DEF Req, Instructions!Writes
  <1>8. r.pc = "rename" /\ r.op = q.op /\ r.set = q.set /\ r.then = q.then
    BY <1>6
  <1>9. ~count.overlapped => q.node = case.tmp /\ case.tmp # 0 /\ c = Instructions!Whole(q.set)
    BY <1>2, <1>3 DEF Knows
  <1>10. ~count.overlapped => Knows(r)'
    BY <1>2, <1>5, <1>8, <1>9 DEF Knows, Instructions!Whole
  <1>11. case.tmp # 0 => case.tmp # case.path
    BY DEF FileInv
  <1>12. ~count.overlapped => FileAgreed'
    BY <1>2, <1>5, <1>9, <1>11 DEF FileAgreed, Instructions!Whole, DiskT
  <1> QED
    BY <1>2, <1>5, <1>7, <1>10, <1>11, <1>12, FileOne

LEMMA FileRenames == ASSUME FileInv, NEW h \in Handler, Instructions!Renames(h) PROVE FileInv'
  <1>1. PICK q \in Req : q = answer[h]
    BY FileHandlerGood
  <1>2. /\ q.pc = "rename" /\ ~Instructions!In(h, "idle") /\ case \in DiskT /\ UNCHANGED count
        /\ q.op \in AskedChanges /\ q.set \in GoodSets /\ q.then \in Thens /\ agreed \in GoodSets
        /\ ~count.overlapped => Knows(q) /\ FileAgreed
    BY <1>1, FileHandlerGood, ReqCases DEF Instructions!Renames, Instructions!In
  <1>3. case' = IF case.tmp = 0 THEN case ELSE [case EXCEPT !.path = case.tmp, !.tmp = 0, !.old = FALSE]
    BY DEF Instructions!Renames
  <1>4. /\ case' \in DiskT /\ case'.holds = case.holds
        /\ case.tmp # 0 => case'.path = case.tmp /\ case'.tmp = 0
        /\ case.tmp = 0 => case' = case
    BY <1>2, <1>3 DEF DiskT
  <1>5. agreed' = IF q.then = "answer" /\ Instructions!Accepted(agreed, q.op) THEN Instructions!Changed(agreed, q.op) ELSE agreed
    BY <1>1 DEF Instructions!Renames
  <1>6. agreed' \in GoodSets
    BY <1>2, <1>5, FileChangedGood
  <1>7. ~count.overlapped => case.tmp # 0 /\ case.holds[case.tmp] = Instructions!Whole(q.set) /\ agreed' = q.set
    BY <1>2, <1>5 DEF Knows
  <1>8. ~count.overlapped => FileAgreed'
    BY <1>4, <1>7 DEF FileAgreed, Instructions!Whole
  <1>9. case'.tmp # 0 => case'.tmp # case'.path
    BY <1>4 DEF FileInv
  <1>10. CASE Instructions!Goes(h, Instructions!Idle)
    BY <1>2, <1>4, <1>6, <1>8, <1>9, <1>10, IdleKnows, FileOne
  <1>11. CASE Instructions!Goes(h, [pc |-> "read", op |-> q.op])
    <2>1. PICK r : r = [pc |-> "read", op |-> q.op]
      OBVIOUS
    <2>2. r \in Req /\ r.pc = "read" /\ Instructions!Goes(h, r)
      BY <1>2, <1>11, <2>1 DEF Req
    <2>3. Knows(r)'
      BY <2>2 DEF Knows
    <2> QED
      BY <1>2, <1>4, <1>6, <1>8, <1>9, <2>2, <2>3, FileOne
  <1>12. CASE Instructions!Goes(h, [pc |-> "change", op |-> q.op, set |-> q.set])
    <2>1. PICK r : r = [pc |-> "change", op |-> q.op, set |-> q.set]
      OBVIOUS
    <2>2. r \in Req /\ r.pc = "change" /\ r.set = q.set /\ Instructions!Goes(h, r)
      BY <1>2, <1>12, <2>1 DEF Req
    <2>3. ~count.overlapped => Knows(r)'
      BY <1>7, <2>2 DEF Knows
    <2> QED
      BY <1>2, <1>4, <1>6, <1>8, <1>9, <2>2, <2>3, FileOne
  <1> QED
    BY <1>1, <1>10, <1>11, <1>12 DEF Instructions!Renames

LEMMA FileDies == ASSUME FileInv, Instructions!Dies PROVE FileInv'
  <1>1. count' \in CountT /\ count'.overlapped = count.overlapped
    <2>1. count \in CountT
      BY DEF FileInv
    <2> QED
      BY <2>1 DEF Instructions!Dies, CountT
  <1>2. answer' \in [Handler -> Req] /\ \A h \in Handler : answer'[h] = Instructions!Idle
    BY IdleKnows DEF Instructions!Dies
  <1>3. UNCHANGED <<case, agreed>>
    BY DEF Instructions!Dies
  <1>4. \A h \in Handler : Knows(answer[h])' /\ Instructions!In(h, "idle")'
    BY <1>2 DEF Knows, Instructions!Idle, Instructions!In
  <1>5. ~count.overlapped => FileAgreed'
    BY <1>3, DiskSame DEF FileInv
  <1> QED
    BY <1>1, <1>2, <1>3, <1>4, <1>5, DiskSame DEF FileInv

LEMMA FileNext == FileInv /\ [Instructions!Next]_Instructions!vars => FileInv'
  <1> SUFFICES ASSUME FileInv, [Instructions!Next]_Instructions!vars PROVE FileInv'
    OBVIOUS
  <1>1. CASE UNCHANGED Instructions!vars
    <2>1. UNCHANGED <<case, answer, agreed, count>>
      BY <1>1 DEF Instructions!vars
    <2>2. ~count.overlapped => \A h \in Handler : Knows(answer[h])'
      BY <2>1 DEF FileInv, Knows, Instructions!Accepted, Instructions!Changed
    <2> QED
      BY <2>1, <2>2, DiskSame DEF FileInv, Instructions!In
  <1> QED
    BY <1>1, FileBegins, FileReads, FileChanges, FileOpens, FileWrites, FileRenames, FileDies
       DEF Instructions!Next

LEMMA FileSafe == FileInv => Instructions!TypeOK /\ Instructions!InstructionsWhole
  <1> SUFFICES ASSUME FileInv PROVE Instructions!TypeOK /\ Instructions!InstructionsWhole
    OBVIOUS
  <1>1. case \in DiskT /\ agreed \in Instructions!Sets
    BY DEF FileInv, GoodSets
  <1>2. \A w \in Instructions!Workflow : case.path # 0 => Instructions!OneCore(case.holds[case.path].set, w)
    BY <1>1 DEF DiskT, GoodContent, GoodSets
  <1>3. case \in [path : {0} \cup Instructions!Nodes, tmp : {0} \cup Instructions!Nodes, old : BOOLEAN, holds : [Instructions!Nodes -> Instructions!Content]]
    <2>1. GoodContent \subseteq Instructions!Content
      BY DEF GoodContent, Instructions!Content, GoodSets
    <2> QED
      BY <1>1, <2>1 DEF DiskT
  <1>4. Instructions!TypeOK
    BY <1>1, <1>3, ChangesAssumption DEF Instructions!TypeOK, FileInv
  <1> QED
    BY <1>2, <1>4 DEF Instructions!InstructionsWhole, FileInv, FileAgreed
=============================================================================
