-------------------------------- MODULE Studio --------------------------------
(***************************************************************************)
(* The parts of the studio beside each other: those of StudioParts and     *)
(* those that answer a question by a function of what they are asked, the  *)
(* patching of a job's workflow, the dashboard, the lists of a batch and   *)
(* its archives.  A behaviour is one of a single part; prompts come as     *)
(* several requests in one process, where jobs may take too long, or as    *)
(* one in several processes.                                               *)
(***************************************************************************)
EXTENDS StudioParts

Patch    == INSTANCE WorkflowJobs WITH job <- case, sent <- answer
Board    == INSTANCE DashboardCases WITH world <- case, shown <- answer
Views    == INSTANCE TaskViewCases WITH batch <- case, did <- answer
Archive  == INSTANCE BatchArchive WITH upload <- case, sent <- answer

Asking == {"patch", "dashboard", "views", "accounts", "outputs", "archive", "cuts",
           "collections", "vocabulary", "instructions", "systemPrompt"}
Parts  == {"media", "workflow", "prompts", "sharedPrompts"} \cup Asking

StudioInit ==
    /\ part \in Parts /\ Init /\ Workflow!Init /\ Prompts!Init
    /\ part # "media" => row = [a \in Asset |-> "none"]
    /\ \/ part = "patch" /\ Patch!Init
       \/ part = "dashboard" /\ Board!Init
       \/ part = "views" /\ Views!Init
       \/ part = "accounts" /\ Access!Init
       \/ part = "outputs" /\ Outputs!Init
       \/ part = "archive" /\ Archive!Init
       \/ part = "cuts" /\ Sheets!Init
       \/ part = "collections" /\ Shelf!Init
       \/ part = "vocabulary" /\ Terms!Init
       \/ part = "instructions" /\ Instructions!Init
       \/ part = "systemPrompt" /\ Wording!Init
       \/ part \notin Asking /\ case = "none" /\ answer = "none"
    /\ part # "instructions" => agreed = "none" /\ count = "none"

Requested == IF part = "prompts" THEN Request ELSE {OneRequest}
Running   == IF part = "prompts" THEN {OneApp} ELSE App
Prompting == part \in {"prompts", "sharedPrompts"} /\ UNCHANGED <<part, vars, workflowVars, caseVars>>

StudioNext ==
    \/ part = "media" /\ Next /\ UNCHANGED <<part, workflowVars, promptVars, caseVars>>
    \/ part = "workflow" /\ Workflow!Next /\ UNCHANGED <<part, vars, promptVars, caseVars>>
    \/ Prompting /\ \E r \in Requested : Prompts!Generates(r) \/ Prompts!JobStarts(r) \/ Prompts!JobEnds(r)
    \/ Prompting /\ \E p \in Running : Prompts!Monitor(p)
    \/ Prompting /\ part = "prompts" /\ \E r \in Requested : Prompts!Ages(r)
    \/ part = "instructions" /\ Instructions!Next /\ UNCHANGED <<part, vars, workflowVars, promptVars>>
    \/ part \in Asking /\ UNCHANGED <<part, vars, workflowVars, promptVars, agreed, count>> /\
          \/ part = "patch" /\ Patch!Prepare
          \/ part = "dashboard" /\ Board!Next
          \/ part = "views" /\ Views!Next
          \/ part = "accounts" /\ Access!Next
          \/ part = "outputs" /\ Outputs!Next
          \/ part = "archive" /\ Archive!Next
          \/ part = "cuts" /\ Sheets!Next
          \/ part = "collections" /\ Shelf!Next
          \/ part = "vocabulary" /\ Terms!Next
          \/ part = "systemPrompt" /\ Wording!Next

(* The handlers and the monitors go on.  A job ends, or else its time      *)
(* passes; a call that is made again and again is answered.                *)
StudioSpec ==
    /\ StudioInit /\ [][StudioNext]_studioVars
    /\ WF_promptVars(\E r \in Requested : Prompts!Submits(r) \/ Prompts!Records(r))
    /\ WF_promptVars(part = "prompts" /\ \E r \in Requested : Prompts!Ages(r))
    /\ WF_promptVars(part = "sharedPrompts" /\ Prompts!JobEnds(OneRequest))
    /\ \A p \in App : WF_promptVars(p \in Running /\ Prompts!Monitor(p))
    /\ \A r \in Request : SF_promptVars(part = "prompts" /\ Prompts!Hears(OneApp, r))
    /\ \A p \in App : SF_promptVars(part = "sharedPrompts" /\ Prompts!Hears(p, OneRequest))

(* The type invariants of the parts.                                       *)
StudioTypeOK ==
    /\ TypeOK /\ Workflow!TypeOK /\ Prompts!TypeOK
    /\ part = "patch" => Patch!TypeOK
    /\ part = "accounts" => Access!TypeOK
    /\ part = "outputs" => Outputs!TypeOK
    /\ part = "collections" => Shelf!TypeOK
    /\ part = "vocabulary" => Terms!TypeOK
    /\ part = "instructions" => Instructions!TypeOK
    /\ part = "systemPrompt" => Wording!TypeOK

(* A workflow that users can select has its files, and every revision that *)
(* was registered is what was registered; no start takes back what an      *)
(* admin promoted: as WorkflowStore states them of its code.               *)
WorkflowKept == Workflow!SelectablePromoted /\ Workflow!ReleaseIntact
OperatorKept == Workflow!OperatorKept

(* As stated, of their code, in WorkflowPatch, Dashboard and AccountAccess. *)
PatchedAsAsked == part = "patch" => Patch!InputsInPlace /\ Patch!PolicyMet
DashboardTrue  == part = "dashboard" => Board!CountsAgree /\ Board!CostsTrue
AdminStands    == part = "accounts" => Access!AdminStands

(* The lists, counters and selections of one screen agree with what the    *)
(* others show and with what is stored: of batches and tasks as stated in  *)
(* TaskViews, of the cuts of a page as in CutSheets, of collections as in  *)
(* Collections; a download has the shape of what was uploaded, as stated   *)
(* in BatchArchive; and what is offered for a retry is not refused.        *)
ViewsAgree ==
    /\ part = "views" => Views!StatusesAgree /\ Views!CountersAgree /\ Views!PagesComplete /\ Views!OffersKept
    /\ part = "cuts" => Sheets!SelectsWhatIsListed
    /\ part = "collections" => Shelf!PagesWhole
    /\ part = "archive" => Archive!ArchiveShaped

(* What prompts are written by keeps its rules whatever admins save: scenes *)
(* their limits (Vocabulary), the file of instructions its form            *)
(* (InstructionFile), and the text in force is one that can be restored    *)
(* (SystemPrompt).                                                         *)
RulesKept ==
    /\ part = "vocabulary" => Terms!SceneInLimits /\ Terms!CategoriesHaveGroups
    /\ part = "instructions" => Instructions!InstructionsWhole
    /\ part = "systemPrompt" => Wording!TextInForceListed

(* What users have made is kept, and kept as they made it: no video, but   *)
(* for one the manifest misnames, is lost or takes another's place in the  *)
(* worker's bucket (OutputImport), none goes with a collection that was    *)
(* deleted as empty, and a collection keeps its order (Collections); a cut *)
(* that was handed over counts as used (CutSheets).                        *)
WorkKept ==
    /\ part = "outputs" => Outputs!OutputsKept
    /\ part = "collections" => Shelf!DeletesOnlyLatecomers /\ Shelf!ShownAsAdded
    /\ part = "cuts" => Sheets!UseIsSeen

(* A prompt that was asked for comes to an end its user sees, and one that *)
(* the model wrote is shown, as PromptRequests states it: of one request,  *)
(* since what holds of the one holds of the other.                         *)
PromptsArrive == Prompts!RequestEnds(OneRequest) /\ Prompts!AnswerShown(OneRequest)
=============================================================================
