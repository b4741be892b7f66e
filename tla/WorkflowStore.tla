---------------------------- MODULE WorkflowStore ----------------------------
(***************************************************************************)
(* The store of one workflow: revisions are registered with their files,   *)
(* activated (their files promoted to the directory the studio runs from), *)
(* deactivated and archived; files of the directory are imported into the  *)
(* database; and every start copies what the image bundles.  The database  *)
(* and the files change in separate steps and the process may stop between *)
(* them.  Workflows share only the file of segment defaults.               *)
(***************************************************************************)
EXTENDS Naturals, Sequences

CONSTANTS
    Admin,      \* requests and imports that may be handled at one time
    Upload,     \* versions of the workflow that admins may register
    Bundled,    \* what each image bundles, a version or Nothing: not empty
    Nothing,
    MaxStops    \* bound: times the process stops after it has started

Version == (Upload \cup {Bundled[i] : i \in DOMAIN Bundled}) \ {Nothing}

(* A file: the version it is of, as bundled or in the canonical form that  *)
(* releases are written in; missing; or cut off while it was copied.       *)
Canonical(v) == [of |-> v, bundled |-> FALSE]
Raw(v)       == [of |-> v, bundled |-> TRUE]
Missing      == [of |-> Nothing, bundled |-> FALSE]
CutOff       == [of |-> Nothing, bundled |-> TRUE]
File         == [of: Version, bundled: BOOLEAN]
Files        == [workflow: File \cup {Missing, CutOff}, param: File \cup {Missing}]
NoFiles      == [workflow |-> Missing, param |-> Missing]

VARIABLES
    definition, \* workflow_definitions: its status and current revision
    revision,   \* workflow_revisions: the versions of the two files of each
    release,    \* releases/<workflow>/<revision>: per number, the files
    runtime,    \* the files the studio runs from
    defaults,   \* segment-defaults.json: the version its entry is of
    recorded,   \* workflow-seed-manifest.json: the bundled version last copied
    image,      \* the image that runs
    up,         \* whether requests are served
    admin,      \* what each request is at
    stops       \* stops so far

vars == <<definition, revision, release, runtime, defaults, recorded, image, up, admin, stops>>
database == <<definition, revision>>
started  == <<image, up, recorded, stops>>

NoDefinition == [status |-> "none", current |-> 0]
Definitions  == [status: {"none", "INACTIVE", "ACTIVE", "ARCHIVED"}, current: Nat]
Content      == [workflow: Version, param: Version]
NoContent    == [workflow |-> Nothing, param |-> Nothing]
Requests ==
    [pc: {"idle", "write", "write2", "commit", "promote", "promote2", "sync", "activate", "decide"},
     imports: BOOLEAN, number: Nat, content: Content \cup {NoContent}, loaded: Definitions,
     status: {"none", "INACTIVE", "ARCHIVED"}]

Idle == [pc |-> "idle", imports |-> FALSE, number |-> 0,
         content |-> NoContent, loaded |-> NoDefinition, status |-> "none"]

TypeOK ==
    /\ definition \in Definitions /\ definition.current <= Len(revision)
    /\ revision \in Seq(Content)
    /\ \A n \in DOMAIN release : n \in Nat \ {0} /\ release[n] \in Files
    /\ runtime \in Files
    /\ defaults \in Version \cup {Nothing}
    /\ recorded \in Version \cup {Nothing}
    /\ image \in DOMAIN Bundled /\ up \in BOOLEAN /\ stops \in 0..MaxStops
    /\ admin \in [Admin -> Requests]

(* The database and the volume are empty and the first image starts.       *)
Init ==
    /\ definition = NoDefinition /\ revision = <<>>
    /\ release = <<>>
    /\ runtime = NoFiles /\ defaults = Nothing /\ recorded = Nothing
    /\ image = 1 /\ up = FALSE /\ stops = 0
    /\ admin = [a \in Admin |-> Idle]

-----------------------------------------------------------------------------
(* Registration and import                                                 *)

FilesOf(n)     == IF n \in DOMAIN release THEN release[n] ELSE NoFiles
Written(n, fs) == [m \in DOMAIN release \cup {n} |-> IF m = n THEN fs ELSE release[m]]
HasContent(c)  == \E n \in DOMAIN revision : revision[n] = c

(* A definition that is inserted holds its row until it is committed.      *)
Inserting == \E a \in Admin : admin[a].pc \in {"write", "write2", "commit"} /\ admin[a].loaded.status = "none"

NextRevision == Len(revision) + 1

At(a, pc) == up /\ admin[a].pc = pc
Goes(a, pc) == admin' = [admin EXCEPT ![a].pc = pc]
Ends(a)     == admin' = [admin EXCEPT ![a] = Idle]

Reads(a, imports, c) ==
    /\ At(a, "idle") /\ (definition.status = "none" => ~Inserting)
    /\ admin' = [admin EXCEPT ![a] =
                    [Idle EXCEPT !.pc = IF HasContent(c) THEN "commit" ELSE "write", !.imports = imports,
                                 !.number = IF HasContent(c) THEN 0 ELSE NextRevision,
                                 !.content = c, !.loaded = definition]]
    /\ UNCHANGED <<database, release, runtime, defaults, started>>

(* register_admin_workflow up to the files; a missing param config is made *)
(* from the workflow.                                                      *)
Register(a) == \E v \in Upload : Reads(a, FALSE, [workflow |-> v, param |-> v])

Importable_Present == runtime.workflow # Missing
Importable         == runtime.workflow \in File

(* plan_workflow_import, and apply_workflow_import up to the files: a file *)
(* that cannot be parsed is not imported.                                  *)
Import(a) ==
    /\ Importable
    /\ Reads(a, TRUE, [workflow |-> runtime.workflow.of,
                       param |-> IF runtime.param = Missing THEN runtime.workflow.of ELSE runtime.param.of])

WritesWorkflow(a) ==
    /\ At(a, "write")
    /\ LET n == admin[a].number
       IN  release' = Written(n, [FilesOf(n) EXCEPT !.workflow = Canonical(admin[a].content.workflow)])
    /\ Goes(a, "write2")
    /\ UNCHANGED <<database, runtime, defaults, started>>

WritesParam(a) ==
    /\ At(a, "write2")
    /\ LET n == admin[a].number
       IN  release' = Written(n, [FilesOf(n) EXCEPT !.param = Canonical(admin[a].content.param)])
    /\ Goes(a, "commit")
    /\ UNCHANGED <<database, runtime, defaults, started>>

(* What the request writes of the definition: only what it changes of the  *)
(* row that it read.                                                       *)
Defined(r, n) ==
    CASE r.loaded.status = "none" /\ r.imports /\ Bundled[image] # Nothing -> [status |-> "ACTIVE", current |-> n]
      [] r.loaded.status = "none" /\ (r.imports => Bundled[image] = Nothing) -> [status |-> "INACTIVE", current |-> 0]
      [] r.loaded.status = "ARCHIVED" /\ ~r.imports -> [definition EXCEPT !.status = "INACTIVE"]
      [] r.loaded.status = "ACTIVE" /\ r.imports /\ r.loaded.current = 0 -> [definition EXCEPT !.current = n]
      [] OTHER -> definition

RevisionOf(c) == CHOOSE n \in DOMAIN revision : revision[n] = c

(* Two unique indexes, of the number and of the content, refuse the second *)
(* of two registrations.                                                   *)
Commits(a) ==
    LET r == admin[a]
    IN  /\ At(a, "commit")
        /\ \/ /\ r.number = 0
              /\ definition' = Defined(r, RevisionOf(r.content)) /\ UNCHANGED revision
           \/ /\ r.number = NextRevision /\ ~HasContent(r.content)
              /\ revision' = Append(revision, r.content) /\ definition' = Defined(r, r.number)
        /\ Ends(a)
        /\ UNCHANGED <<release, runtime, defaults, started>>

(* A file cannot be written, and both are removed; or the commit fails, for *)
(* the indexes or for another reason: a registration removes its files, an *)
(* import leaves them.                                                     *)
Fails(a) ==
    /\ \E pc \in {"write", "write2", "commit"} : At(a, pc)
    /\ release' = IF admin[a].number = 0 \/ (admin[a].imports /\ admin[a].pc = "commit")
                  THEN release ELSE Written(admin[a].number, NoFiles)
    /\ Ends(a)
    /\ UNCHANGED <<database, runtime, defaults, started>>

-----------------------------------------------------------------------------
(* Activation, deactivation and archiving                                  *)

(* verify_release_files                                                    *)
Verified(n) == release[n] = [workflow |-> Canonical(revision[n].workflow), param |-> Canonical(revision[n].param)]

AfterVerified_Commit == "activate"
AfterVerified        == "promote"

(* set_admin_workflow_active: the revision asked for, or the latest.       *)
Activate(a) ==
    /\ At(a, "idle") /\ definition.status # "none"
    /\ \E n \in DOMAIN revision :
          /\ n \in DOMAIN release /\ Verified(n)
          /\ admin' = [admin EXCEPT ![a] = [Idle EXCEPT !.pc = AfterVerified, !.number = n, !.loaded = definition]]
    /\ UNCHANGED <<database, release, runtime, defaults, started>>

Promotable(n) == release[n].workflow # Missing /\ release[n].param # Missing

PromotesWorkflow(a) ==
    /\ At(a, "promote")
    /\ IF Promotable(admin[a].number)
       THEN Goes(a, "promote2") /\ runtime' = [runtime EXCEPT !.workflow = release[admin[a].number].workflow]
       ELSE Ends(a) /\ UNCHANGED runtime
    /\ UNCHANGED <<database, release, defaults, started>>

PromotesParam(a) ==
    /\ At(a, "promote2")
    /\ IF release[admin[a].number].param # Missing
       THEN Goes(a, "sync") /\ runtime' = [runtime EXCEPT !.param = release[admin[a].number].param]
       ELSE Ends(a) /\ UNCHANGED runtime
    /\ UNCHANGED <<database, release, defaults, started>>

(* sync_workflow_segment_defaults, of the file that is there by now.       *)
SyncsDefaults(a) ==
    /\ At(a, "sync")
    /\ defaults' = runtime.workflow.of
    /\ Goes(a, "activate")
    /\ UNCHANGED <<database, release, runtime, started>>

Activates(a) ==
    /\ At(a, "activate")
    /\ definition' = [status |-> IF admin[a].loaded.status = "ACTIVE" THEN definition.status ELSE "ACTIVE",
                      current |-> IF admin[a].loaded.current = admin[a].number THEN definition.current
                                  ELSE admin[a].number]
    /\ Ends(a)
    /\ UNCHANGED <<revision, release, runtime, defaults, started>>

(* Deactivation, and archive_admin_workflow of what is not active.         *)
Decide(a) ==
    /\ At(a, "idle") /\ definition.status # "none"
    /\ \E s \in {"INACTIVE", "ARCHIVED"} :
          /\ s = "ARCHIVED" => definition.status # "ACTIVE"
          /\ admin' = [admin EXCEPT ![a] = [Idle EXCEPT !.pc = "decide", !.loaded = definition, !.status = s]]
    /\ UNCHANGED <<database, release, runtime, defaults, started>>

Decides(a) ==
    /\ At(a, "decide")
    /\ definition' = IF admin[a].loaded.status = admin[a].status THEN definition
                     ELSE [definition EXCEPT !.status = admin[a].status]
    /\ Ends(a)
    /\ UNCHANGED <<revision, release, runtime, defaults, started>>

-----------------------------------------------------------------------------
(* Starts                                                                  *)

Seed == Raw(Bundled[image])

Copied_Always == Bundled[image] # Nothing

(* A file that is missing is copied; one that is there only if it is what  *)
(* the last image bundled, and this image bundles something else.          *)
Copied ==
    /\ Bundled[image] # Nothing
    /\ \/ runtime.workflow = Missing
       \/ recorded # Nothing /\ runtime.workflow = Raw(recorded) /\ Seed # Raw(recorded)

(* bootstrap_workflow_store: the copy, then the manifest.  The process may *)
(* stop while it copies, and before the manifest is written.               *)
Start ==
    /\ ~up
    /\ IF Copied
       THEN \/ /\ runtime' = [runtime EXCEPT !.workflow = Seed]
               /\ recorded' = Bundled[image] /\ up' = TRUE
            \/ /\ \E f \in {Seed, CutOff} : runtime' = [runtime EXCEPT !.workflow = f]
               /\ UNCHANGED <<recorded, up>>
       ELSE up' = TRUE /\ UNCHANGED <<runtime, recorded>>
    /\ UNCHANGED <<database, release, defaults, image, admin, stops>>

(* The process stops, with its requests, and may be deployed anew.         *)
Stop ==
    /\ up /\ stops < MaxStops
    /\ stops' = stops + 1 /\ up' = FALSE
    /\ image' \in image..Len(Bundled)
    /\ admin' = [a \in Admin |-> Idle]
    /\ UNCHANGED <<database, release, runtime, defaults, recorded>>

-----------------------------------------------------------------------------
Next ==
    \/ Start \/ Stop
    \/ \E a \in Admin :
          \/ Register(a) \/ Import(a) \/ WritesWorkflow(a) \/ WritesParam(a) \/ Commits(a) \/ Fails(a)
          \/ Activate(a) \/ PromotesWorkflow(a) \/ PromotesParam(a) \/ SyncsDefaults(a) \/ Activates(a)
          \/ Decide(a) \/ Decides(a)

Spec == Init /\ [][Next]_vars

-----------------------------------------------------------------------------
(* A workflow that users can select has its file where the studio runs it  *)
(* from, whatever was interrupted: the files come before the database.     *)
SelectablePromoted == definition.status = "ACTIVE" => definition.current > 0 /\ runtime.workflow # Missing

(* write_release_files, verify_release_files: the files of every revision  *)
(* that is registered are what was registered, past interrupted and failed *)
(* registrations that used its number.  One registration at a time.        *)
ReleaseIntact == \A n \in DOMAIN revision : n \in DOMAIN release /\ Verified(n)

(* bootstrap_workflow_store: no start, and no new image, takes back what   *)
(* an admin promoted, also when the manifest is older than the file.       *)
OperatorKept ==
    [][\A f \in {"workflow", "param"} :
          runtime[f] \in File /\ ~runtime[f].bundled /\ ~up => runtime'[f] = runtime[f]]_vars
=============================================================================
