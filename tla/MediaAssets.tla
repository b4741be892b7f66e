----------------------------- MODULE MediaAssets -----------------------------
(***************************************************************************)
(* Where the input images of tasks are: rows of the assets table point to  *)
(* local files or S3 objects, which uploads store, cleanups delete, and    *)
(* dispatchers and migrations copy to other keys, while RunPod jobs read   *)
(* the keys that they were given.  Rows and objects change in separate     *)
(* steps.  The storage backend is S3; local files are of earlier times.    *)
(***************************************************************************)
EXTENDS Naturals, FiniteSets

CONSTANTS
    Asset,
    Task,           \* tasks of a batch; a task's key is named by the task
    DeleteSource,   \* the layout migration is run with --delete-source
    Faults          \* subset of {"dies", "diesMoving"}

None  == "none"
NoRow == {None, "deleted"}
Stale == {"staging", "legacy"}              \* uploads/..., jobs/...: not yet of a batch
Key   == {"local"} \cup Stale \cup Task

(* No task is called like another key.                                     *)
ASSUME TasksAreNamed == Task \cap ({"local"} \cup Stale \cup NoRow) = {}

VARIABLES
    row,        \* assets: where the row says the image is, or NoRow
    objects,    \* the files and objects that are there
    input,      \* task_input_assets: the input of each task, or None
    drafts,     \* assets that prompt drafts were made for
    web,        \* per asset, its upload or cleanup under way
    disp,       \* per task, its dispatch by one of the processes
    mig,        \* the migration under way
    reads       \* per task, the key its running job was given, or None

vars == <<row, objects, input, drafts, web, disp, mig, reads>>

NoDispatch  == [pc |-> "idle", from |-> None]
NoMigration == [pc |-> "idle", todo |-> {}, from |-> [a \in Asset |-> None], to |-> [a \in Asset |-> None]]

Rows    == [Asset -> Key \cup NoRow]
Objects == Asset \X Key
Inputs  == [Task -> Asset \cup {None}]

TypeOK ==
    /\ row \in Rows
    /\ objects \subseteq Objects
    /\ input \in Inputs
    /\ drafts \subseteq Asset
    /\ web \in [Asset -> {"idle", "stored", "delete", "deleteLocal", "unlink"}]
    /\ disp \in [Task -> [pc: {"idle", "copy", "delete", "commit", "hand"}, from: Key \cup {None}]]
    /\ mig \in [pc: {"idle", "copy", "delete"}, todo: SUBSET Asset,
                from: [Asset -> Key \cup NoRow], to: [Asset -> Key \cup {None}]]
    /\ reads \in [Task -> Key \cup {None}]

Init ==
    /\ row \in [Asset -> {None, "local"} \cup Stale]
    /\ objects = { k \in Objects : row[k[1]] = k[2] }
    /\ input = [t \in Task |-> None] /\ drafts = {}
    /\ web = [a \in Asset |-> "idle"]
    /\ disp = [t \in Task |-> NoDispatch] /\ mig = NoMigration
    /\ reads = [t \in Task |-> None]

Tasks(a) == { t \in Task : input[t] = a }

-----------------------------------------------------------------------------
(* Uploads and cleanups                                                    *)

(* _create_s3_upload_from_data_url: the object, then the row.              *)
Uploads(a) ==
    /\ web[a] = "idle" /\ row[a] = None
    /\ objects' = objects \cup {<<a, "staging">>} /\ web' = [web EXCEPT ![a] = "stored"]
    /\ UNCHANGED <<row, input, drafts, disp, mig, reads>>

UploadCommits(a) ==
    /\ web[a] = "stored"
    /\ row' = [row EXCEPT ![a] = "staging"] /\ web' = [web EXCEPT ![a] = "idle"]
    /\ UNCHANGED <<objects, input, drafts, disp, mig, reads>>

(* The browser puts the object at a presigned key, of a task to come.      *)
ClientPuts(a, t) ==
    /\ objects' = objects \cup {<<a, t>>}
    /\ UNCHANGED <<row, input, drafts, web, disp, mig, reads>>

(* complete_s3_upload: a row, new or not, for an object that is there.  Its *)
(* asset id is not one that create_upload made and has not stored yet.     *)
CompletesUpload(a, t) ==
    /\ <<a, t>> \in objects /\ row[a] # "deleted" /\ web[a] # "stored"
    /\ row' = [row EXCEPT ![a] = t]
    /\ UNCHANGED <<objects, input, drafts, web, disp, mig, reads>>

(* Drafts and tasks are made for assets that have a row.                   *)
MakesDraft(a) ==
    /\ row[a] \notin NoRow /\ drafts' = drafts \cup {a}
    /\ UNCHANGED <<row, objects, input, web, disp, mig, reads>>

MakesTask(t, a) ==
    /\ row[a] \notin NoRow /\ input[t] = None
    /\ input' = [input EXCEPT ![t] = a]
    /\ UNCHANGED <<row, objects, drafts, web, disp, mig, reads>>

(* delete_unsubmitted_upload: looks, deletes the row, which the foreign    *)
(* key of a task's input refuses, and then the file if the row named one.  *)
CleanupLooks(a) ==
    /\ web[a] = "idle" /\ row[a] \notin NoRow /\ a \notin drafts /\ Tasks(a) = {}
    /\ web' = [web EXCEPT ![a] = IF row[a] = "local" THEN "deleteLocal" ELSE "delete"]
    /\ UNCHANGED <<row, objects, input, drafts, disp, mig, reads>>

Deleted(a) == row[a] \notin NoRow /\ Tasks(a) = {}

CleanupDeletes(a) ==
    /\ web[a] \in {"delete", "deleteLocal"}
    /\ IF Deleted(a)
       THEN /\ row' = [row EXCEPT ![a] = "deleted"] /\ drafts' = drafts \ {a}
            /\ web' = [web EXCEPT ![a] = IF @ = "deleteLocal" THEN "unlink" ELSE "idle"]
       ELSE UNCHANGED <<row, drafts>> /\ web' = [web EXCEPT ![a] = "idle"]
    /\ UNCHANGED <<objects, input, disp, mig, reads>>

CleanupUnlinks(a) ==
    /\ web[a] = "unlink"
    /\ objects' = objects \ {<<a, "local">>} /\ web' = [web EXCEPT ![a] = "idle"]
    /\ UNCHANGED <<row, input, drafts, disp, mig, reads>>

-----------------------------------------------------------------------------
(* Dispatch: ensure_s3_input_asset_scoped, then the key goes to RunPod     *)

DispatchAt(t, pc)   == disp[t].pc = pc
DispatchGoes(t, pc) == disp' = [disp EXCEPT ![t] = IF pc = "idle" THEN NoDispatch ELSE [@ EXCEPT !.pc = pc]]

(* A task has one dispatch at a time, and may run again.                   *)
DispatchReads(t) ==
    /\ DispatchAt(t, "idle") /\ reads[t] = None
    /\ input[t] # None /\ row[input[t]] \notin NoRow
    /\ disp' = [disp EXCEPT ![t] = [pc |-> IF row[input[t]] \in {"local", t} THEN "hand" ELSE "copy",
                                    from |-> row[input[t]]]]
    /\ UNCHANGED <<row, objects, input, drafts, web, mig, reads>>

Source(t) == <<input[t], disp[t].from>>
Target(t) == <<input[t], t>>

Copied_Unchecked(t) == TRUE
Copied(t)           == Source(t) \in objects

DeletesSource_Always(t) == TRUE
DeletesSource(t)        == disp[t].from = "staging"

(* copy_stored_object: an object that is gone cannot be copied, and the    *)
(* dispatch fails, to be tried again.                                      *)
DispatchCopies(t) ==
    /\ DispatchAt(t, "copy")
    /\ objects' = objects \cup (IF Source(t) \in objects THEN {Target(t)} ELSE {})
    /\ DispatchGoes(t, IF ~Copied(t) THEN "idle" ELSE IF DeletesSource(t) THEN "delete" ELSE "commit")
    /\ UNCHANGED <<row, input, drafts, web, mig, reads>>

DispatchDeletes(t) ==
    /\ DispatchAt(t, "delete")
    /\ objects' = objects \ {Source(t)}
    /\ DispatchGoes(t, "commit")
    /\ UNCHANGED <<row, input, drafts, web, mig, reads>>

DispatchCommits(t) ==
    /\ DispatchAt(t, "commit")
    /\ row' = [row EXCEPT ![input[t]] = t]
    /\ DispatchGoes(t, "hand")
    /\ UNCHANGED <<objects, input, drafts, web, mig, reads>>

(* asset_to_runpod_image and the POST: the key that the row has by now, or *)
(* the bytes of a local file.                                              *)
DispatchHands(t) ==
    /\ DispatchAt(t, "hand")
    /\ reads' = [reads EXCEPT ![t] = IF row[input[t]] = "local" THEN None ELSE row[input[t]]]
    /\ DispatchGoes(t, "idle")
    /\ UNCHANGED <<row, objects, input, drafts, web, mig>>

JobEnds(t) ==
    /\ reads[t] # None /\ reads' = [reads EXCEPT ![t] = None]
    /\ UNCHANGED <<row, objects, input, drafts, web, disp, mig>>

-----------------------------------------------------------------------------
(* Migrations                                                              *)

(* Of several tasks of an asset, its oldest names the new key; any here.   *)
KeysFor(a, others) == IF Tasks(a) = {} THEN others ELSE Tasks(a)

Plans(chosen, others) ==
    /\ mig.pc = "idle" /\ chosen # {}
    /\ \E to \in [Asset -> Key \cup {None}] :
          /\ \A a \in Asset : IF a \in chosen THEN to[a] \in KeysFor(a, others) ELSE to[a] = None
          /\ mig' = [pc |-> "copy", todo |-> chosen, from |-> [a \in Asset |-> IF a \in chosen THEN row[a] ELSE None],
                     to |-> to]
    /\ UNCHANGED <<row, objects, input, drafts, web, disp, reads>>

(* migrate_local_media_to_s3, and migrate_s3_media_to_final_layout of what *)
(* is linked to a task and not yet at a key of the final layout.           *)
PlansToS3    == Plans({ a \in Asset : row[a] = "local" }, {"staging"})
PlansLayout  == Plans({ a \in Asset : row[a] \in Stale /\ Tasks(a) # {} }, {})

(* An object that is gone is reported, and its row left alone.             *)
MigrationCopies(a) ==
    /\ mig.pc = "copy" /\ a \in mig.todo
    /\ IF <<a, mig.from[a]>> \in objects
       THEN /\ objects' = objects \cup {<<a, mig.to[a]>>}
            /\ mig' = IF DeleteSource /\ mig.from[a] # "local" THEN [mig EXCEPT !.pc = "delete", !.todo = @ \ {a}]
                                                               ELSE [mig EXCEPT !.todo = @ \ {a}]
       ELSE /\ mig' = [mig EXCEPT !.todo = @ \ {a}, !.to[a] = None]
            /\ UNCHANGED objects
    /\ UNCHANGED <<row, input, drafts, web, disp, reads>>

MigrationDeletes ==
    /\ mig.pc = "delete"
    /\ objects' = objects \ { <<a, mig.from[a]>> : a \in { x \in Asset : mig.to[x] # None } \ mig.todo }
    /\ mig' = [mig EXCEPT !.pc = "copy"]
    /\ UNCHANGED <<row, input, drafts, web, disp, reads>>

(* One commit for all rows: a row that is gone fails it as a whole.        *)
MigrationCommits ==
    /\ mig.pc = "copy" /\ mig.todo = {}
    /\ row' = IF \E a \in Asset : mig.to[a] # None /\ row[a] \in NoRow THEN row
              ELSE [a \in Asset |-> IF mig.to[a] = None THEN row[a] ELSE mig.to[a]]
    /\ mig' = NoMigration
    /\ UNCHANGED <<objects, input, drafts, web, disp, reads>>

-----------------------------------------------------------------------------
(* Uploads, cleanups, migrations and dispatches stop anywhere; a dispatch  *)
(* only between its copy and its commit if "diesMoving".                   *)
Dies ==
    /\ "dies" \in Faults
    /\ \/ \E a \in Asset : web[a] # "idle" /\ web' = [web EXCEPT ![a] = "idle"] /\ UNCHANGED <<disp, mig>>
       \/ \E t \in Task : /\ disp[t].pc \in {"copy", "delete", "hand"} \cup (IF "diesMoving" \in Faults THEN {"commit"} ELSE {})
                          /\ DispatchGoes(t, "idle") /\ UNCHANGED <<web, mig>>
       \/ mig.pc # "idle" /\ mig' = NoMigration /\ UNCHANGED <<web, disp>>
    /\ UNCHANGED <<row, objects, input, drafts, reads>>

Next ==
    \/ \E a \in Asset :
          \/ Uploads(a) \/ UploadCommits(a) \/ MakesDraft(a)
          \/ CleanupLooks(a) \/ CleanupDeletes(a) \/ CleanupUnlinks(a) \/ MigrationCopies(a)
          \/ \E t \in Task : ClientPuts(a, t) \/ CompletesUpload(a, t) \/ MakesTask(t, a)
    \/ \E t \in Task :
          \/ DispatchReads(t) \/ DispatchCopies(t) \/ DispatchDeletes(t) \/ DispatchCommits(t) \/ DispatchHands(t)
          \/ JobEnds(t)
    \/ PlansToS3 \/ PlansLayout \/ MigrationDeletes \/ MigrationCommits
    \/ Dies

Spec == Init /\ [][Next]_vars

-----------------------------------------------------------------------------
(* Every row points to an image that is there, past overlapping moves,     *)
(* cleanups and migrations and what dies within them; while a dispatch     *)
(* moves the image its new key is there already.                           *)
EveryAssetReadable ==
    \A a \in Asset : row[a] \notin NoRow =>
        \/ <<a, row[a]>> \in objects
        \/ \E t \in Task : disp[t].pc = "commit" /\ input[t] = a /\ Target(t) \in objects

(* A job that was given a key past staging finds its input there, whatever *)
(* is moved for other tasks of the same image meanwhile.  (A staging key   *)
(* is handed out only when the local migration overtakes a dispatch.)      *)
InputsReadable == \A t \in Task : reads[t] \notin {None, "staging"} => <<input[t], reads[t]>> \in objects
=============================================================================
