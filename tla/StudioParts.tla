------------------------------ MODULE StudioParts -----------------------------
(***************************************************************************)
(* Parts of the studio that share no state: the images that jobs read, the *)
(* store of a workflow, the prompts a language model writes, the accounts, *)
(* the outputs a worker leaves, the cuts of a page, the collections of     *)
(* outputs, and what prompts are written by: terms, instructions and the   *)
(* system prompt.                                                          *)
(***************************************************************************)
EXTENDS MediaAssets, Sequences

CONSTANTS
    Admin, Upload, Bundled, Nothing, MaxStops,                  \* WorkflowStore
    Request, OneRequest, App, OneApp, PromptFaults,             \* PromptRequests, as several requests or processes or one
    Handler,                                                    \* of any other part: the requests under way at once
    Coll, MaxRequests, MaxFaults, MaxImages, MaxUse, MaxChanges, MaxSaves, MaxDeaths,
    AskedChanges                                                \* of the instructions

VARIABLES
    part,                                                       \* the part that runs
    definition, revision, release, runtime, defaults,
    recorded, image, up, admin, stops,                          \* WorkflowStore
    request, outputs, handler, job, old, pass,                  \* PromptRequests
    case, answer,                                               \* of any other part: its rows, and its requests
    agreed, count                                               \* of the instructions

Workflow == INSTANCE WorkflowStore
Prompts  == INSTANCE PromptRequests WITH row <- request, Faults <- PromptFaults
Access   == INSTANCE AccountAccess WITH accounts <- case, saving <- answer
Outputs  == INSTANCE OutputImport WITH bucket <- case, importing <- answer, Importer <- App
Sheets   == INSTANCE CutSheets WITH cuts <- case, clerk <- answer, Clerk <- Handler
Shelf    == INSTANCE Collections WITH shelf <- case, clerk <- answer
Terms    == INSTANCE Vocabulary WITH words <- case, editor <- answer, Editor <- Handler
Wording  == INSTANCE SystemPrompt WITH prompt <- case, handler <- answer
Instructions == INSTANCE InstructionFile WITH disk <- case, handler <- answer, Asked <- AskedChanges

(* There is an image; no upload is called like nothing.                    *)
ASSUME BundledAssumption == Bundled \in Seq({Bundled[i] : i \in DOMAIN Bundled}) /\ Bundled # <<>>
ASSUME UploadAssumption  == Nothing \notin Upload
ASSUME OneAssumption     == OneRequest \in Request /\ OneApp \in App
ASSUME FiniteAssumption  == IsFiniteSet(App) /\ IsFiniteSet(Handler)
ASSUME ChangesAssumption == AskedChanges \subseteq Instructions!Saves \cup Instructions!Deletes \cup Instructions!Copies
ASSUME BoundsAssumption  ==
    /\ MaxStops \in Nat /\ MaxFaults \in Nat /\ MaxRequests \in Nat
    /\ MaxChanges \in Nat /\ MaxSaves \in Nat /\ MaxDeaths \in Nat

workflowVars == <<definition, revision, release, runtime, defaults, recorded, image, up, admin, stops>>
promptVars   == <<request, outputs, handler, job, old, pass>>
caseVars     == <<case, answer, agreed, count>>
studioVars   == <<part, vars, workflowVars, promptVars, caseVars>>
=============================================================================
