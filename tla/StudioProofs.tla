----------------------------- MODULE StudioProofs -----------------------------
(***************************************************************************)
(* The parts of Studio side by side: the type invariant of all, and of     *)
(* each what Studio states of it but for what is counted and listed (the   *)
(* patching of a workflow, the dashboard, lists and archives).  A step is  *)
(* one of a single part and leaves the state of the others as it is.       *)
(***************************************************************************)
EXTENDS Studio, StudioPartsProofs

PartsInv ==
    /\ part = "patch" => Patch!TypeOK
    /\ part = "accounts" => AccessInv
    /\ part = "outputs" => OutInv
    /\ part = "cuts" => CutsInv
    /\ part = "collections" => ShelfInv
    /\ part = "vocabulary" => WordsInv
    /\ part = "instructions" => FileInv
    /\ part = "systemPrompt" => WordingInv
StudioInv == TInv /\ StoreInv /\ PromptInv /\ PartsInv

LEMMA RefusedSays == ASSUME NEW sent, NEW why, sent = Patch!Refused(why) PROVE sent.refused = why
  BY DEF Patch!Refused

LEMMA StudioStarts == StudioInit => StudioInv /\ IntactInv
  <1> SUFFICES ASSUME StudioInit PROVE StudioInv /\ IntactInv
    OBVIOUS
  <1>1. TInv /\ StoreInv /\ IntactInv /\ PromptInv
    BY TypedInit, InitStore, PromptInit DEF StudioInit
  <1>2. PartsInv
    <2>1. part = "patch" => Patch!Init
      BY DEF StudioInit, Asking
    <2>2. part = "accounts" => Access!Init
      BY DEF StudioInit, Asking
    <2>3. part = "outputs" => Outputs!Init
      BY DEF StudioInit, Asking
    <2>4. part = "cuts" => Sheets!Init
      BY DEF StudioInit, Asking
    <2>5. part = "collections" => Shelf!Init
      BY DEF StudioInit, Asking
    <2>6. part = "vocabulary" => Terms!Init
      BY DEF StudioInit, Asking
    <2>7. part = "instructions" => Instructions!Init
      BY DEF StudioInit, Asking
    <2>8. part = "systemPrompt" => Wording!Init
      BY DEF StudioInit, Asking
    <2>9. Patch!Init => Patch!TypeOK
      <3>1. Patch!Init => answer.refused = "not yet"
        BY RefusedSays DEF Patch!Init, Patch!Unsent
      <3> QED
        BY <3>1 DEF Patch!TypeOK
    <2> QED
      BY <2>1, <2>2, <2>3, <2>4, <2>5, <2>6, <2>7, <2>8, <2>9,
         AccessInit, OutInit, CutsInit, ShelfInit, WordsInit, FileInit, WordingInit DEF PartsInv
  <1> QED
    BY <1>1, <1>2 DEF StudioInv

LEMMA PatchStep == ASSUME Patch!TypeOK, Patch!Prepare \/ UNCHANGED answer PROVE Patch!TypeOK'
  <1>1. PICK nodes, images, prompts, seeds, snapshot :
           \/ UNCHANGED answer
           \/ \E why \in {"images", "size", "policy"} : answer' = Patch!Refused(why)
           \/ answer' = [refused |-> Patch!None, images |-> images, prompts |-> prompts, nodes |-> nodes,
                         seeds |-> seeds, snapshot |-> snapshot]
    BY DEF Patch!Prepare
  <1>2. CASE UNCHANGED answer
    BY <1>2 DEF Patch!TypeOK
  <1>3. ASSUME NEW why \in {"images", "size", "policy"}, answer' = Patch!Refused(why) PROVE Patch!TypeOK'
    <2>1. answer'.refused = why
      BY <1>3, RefusedSays
    <2> QED
      BY <2>1 DEF Patch!TypeOK
  <1>4. CASE answer' = [refused |-> Patch!None, images |-> images, prompts |-> prompts, nodes |-> nodes,
                        seeds |-> seeds, snapshot |-> snapshot]
    <2>1. answer'.refused = Patch!None
      BY <1>4
    <2> QED
      BY <2>1 DEF Patch!TypeOK
  <1> QED
    BY <1>1, <1>2, <1>3, <1>4

(* What the steps of one part leave alone stays as it was.                 *)
LEMMA OthersStay ==
    ASSUME StudioInv
    PROVE  /\ UNCHANGED vars => TInv'
           /\ UNCHANGED workflowVars => StoreInv'
           /\ UNCHANGED promptVars => PromptInv'
           /\ UNCHANGED <<part, caseVars>> => PartsInv'
  <1>1. UNCHANGED vars => TInv'
    BY TypedStep DEF StudioInv
  <1>2. UNCHANGED workflowVars => StoreInv'
    BY StoreStep DEF StudioInv, workflowVars, Workflow!vars
  <1>3. UNCHANGED promptVars => PromptInv'
    BY PromptSame DEF StudioInv, promptVars, Prompts!vars
  <1>4. ASSUME UNCHANGED <<part, caseVars>> PROVE PartsInv'
    <2>1. /\ UNCHANGED part /\ UNCHANGED answer /\ UNCHANGED Access!vars /\ UNCHANGED Outputs!vars /\ UNCHANGED Sheets!vars
          /\ UNCHANGED Shelf!vars /\ UNCHANGED Terms!vars /\ UNCHANGED Instructions!vars /\ UNCHANGED Wording!vars
      BY <1>4 DEF caseVars, Access!vars, Outputs!vars, Sheets!vars, Shelf!vars, Terms!vars,
         Instructions!vars, Wording!vars
    <2> QED
      BY <2>1, PatchStep, AccessStep, OutNext, CutsNext, ShelfNext, WordsNext, FileNext, WordingNext
         DEF StudioInv, PartsInv
  <1> QED
    BY <1>1, <1>2, <1>3, <1>4

(* A step of the part that asks is one of that part.                       *)
LEMMA AskingStep ==
    ASSUME StudioInv, UNCHANGED part,
           \/ part = "instructions" /\ Instructions!Next
           \/ part = "patch" /\ Patch!Prepare
           \/ part \in {"dashboard", "views", "archive"}
           \/ part = "accounts" /\ Access!Next
           \/ part = "outputs" /\ Outputs!Next
           \/ part = "cuts" /\ Sheets!Next
           \/ part = "collections" /\ Shelf!Next
           \/ part = "vocabulary" /\ Terms!Next
           \/ part = "systemPrompt" /\ Wording!Next
    PROVE  PartsInv'
  BY PatchStep, AccessStep, OutNext, CutsNext, ShelfNext, WordsNext, FileNext, WordingNext DEF StudioInv,
     PartsInv

LEMMA PromptingStep ==
    ASSUME StudioInv,
           \/ \E r \in Requested : Prompts!Generates(r) \/ Prompts!JobStarts(r) \/ Prompts!JobEnds(r) \/ Prompts!Ages(r)
           \/ \E p \in Running : Prompts!Monitor(p)
    PROVE  PromptInv'
  <1>1. Requested \subseteq Request /\ Running \subseteq App
    BY OneAssumption DEF Requested, Running
  <1> QED
    BY <1>1, PromptHandler, PromptJobs, PromptMonitor DEF StudioInv

LEMMA StudioSteps == ASSUME StudioInv, [StudioNext]_studioVars PROVE StudioInv'
  <1>1. CASE part = "media" /\ Next /\ UNCHANGED <<part, workflowVars, promptVars, caseVars>>
    BY <1>1, TypedStep, OthersStay DEF StudioInv
  <1>2. CASE part = "workflow" /\ Workflow!Next /\ UNCHANGED <<part, vars, promptVars, caseVars>>
    BY <1>2, StoreStep, OthersStay DEF StudioInv
  <1>3. CASE Prompting /\ \/ \E r \in Requested : Prompts!Generates(r) \/ Prompts!JobStarts(r) \/ Prompts!JobEnds(r) \/ Prompts!Ages(r)
                          \/ \E p \in Running : Prompts!Monitor(p)
    <2>1. UNCHANGED vars /\ UNCHANGED workflowVars /\ UNCHANGED <<part, caseVars>>
      BY <1>3 DEF Prompting
    <2> QED
      BY <1>3, <2>1, PromptingStep, OthersStay DEF StudioInv
  <1>4. CASE UNCHANGED <<part, vars, workflowVars, promptVars>> /\ PartsInv'
    <2>1. UNCHANGED vars /\ UNCHANGED workflowVars /\ UNCHANGED promptVars
      BY <1>4
    <2> QED
      BY <1>4, <2>1, OthersStay DEF StudioInv
  <1>5. CASE UNCHANGED studioVars
    <2>1. UNCHANGED vars /\ UNCHANGED workflowVars /\ UNCHANGED promptVars /\ UNCHANGED <<part, caseVars>>
      BY <1>5 DEF studioVars
    <2> QED
      BY <2>1, OthersStay DEF StudioInv
  <1>6. CASE part = "instructions" /\ Instructions!Next /\ UNCHANGED <<part, vars, workflowVars, promptVars>>
    <2>1. UNCHANGED part
      BY <1>6
    <2> QED
      BY <1>4, <1>6, <2>1, AskingStep
  <1>7. CASE part \in Asking /\ UNCHANGED <<part, vars, workflowVars, promptVars, agreed, count>> /\
                (\/ part = "patch" /\ Patch!Prepare
                 \/ part = "dashboard" /\ Board!Next
                 \/ part = "views" /\ Views!Next
                 \/ part = "accounts" /\ Access!Next
                 \/ part = "outputs" /\ Outputs!Next
                 \/ part = "archive" /\ Archive!Next
                 \/ part = "cuts" /\ Sheets!Next
                 \/ part = "collections" /\ Shelf!Next
                 \/ part = "vocabulary" /\ Terms!Next
                 \/ part = "systemPrompt" /\ Wording!Next)
    <2>1. UNCHANGED part /\ UNCHANGED <<part, vars, workflowVars, promptVars>>
      BY <1>7
    <2> QED
      BY <1>4, <1>7, <2>1, AskingStep
  <1> QED
    BY <1>1, <1>2, <1>3, <1>5, <1>6, <1>7 DEF StudioNext

(* A step of the store of a workflow, or none of it.                       *)
LEMMA StoreSteps == ASSUME [StudioNext]_studioVars PROVE [Workflow!Next]_Workflow!vars
  <1>1. CASE part = "workflow" /\ Workflow!Next
    BY <1>1
  <1>2. CASE UNCHANGED workflowVars
    BY <1>2 DEF workflowVars, Workflow!vars
  <1> QED
    BY <1>1, <1>2 DEF StudioNext, Prompting, studioVars

LEMMA StudioHolds == StudioSpec => []StudioInv
<1>1. StudioInit => StudioInv
  BY StudioStarts
<1>2. StudioInv /\ [StudioNext]_studioVars => StudioInv'
  BY StudioSteps
<1> QED
  BY <1>1, <1>2, PTL DEF StudioSpec

(* Every part keeps to its types, whatever its users, processes and jobs   *)
(* do in whatever order.                                                   *)
THEOREM StudioTyped == StudioSpec => []StudioTypeOK
<1>1. StudioInv => StudioTypeOK
  <2> SUFFICES ASSUME StudioInv PROVE StudioTypeOK
    OBVIOUS
  <2>1. TypeOK /\ Workflow!TypeOK /\ Prompts!TypeOK
    BY DEF StudioInv, TInv, StoreInv, PromptInv
  <2>2. part = "accounts" => Access!TypeOK
    BY DEF StudioInv, PartsInv, AccessInv
  <2> QED
    BY <2>1, <2>2, OutSafe, ShelfSafe, WordsSafe, FileSafe, WordingSafe DEF StudioTypeOK, StudioInv, PartsInv
<1> QED
  BY <1>1, StudioHolds, PTL

(* A workflow that users can select has its files, however registrations,  *)
(* imports, activations and starts interleave                              *)
(* (register_admin_workflow, set_admin_workflow_active).                   *)
THEOREM SelectableHasFiles == StudioSpec => []Workflow!SelectablePromoted
<1>1. StudioInv => Workflow!SelectablePromoted
  BY DEF StudioInv, StoreInv, DefinitionMeans
<1> QED
  BY <1>1, StudioHolds, PTL

(* As long as no two administrators register at once, that workflow has    *)
(* its files and every revision is what was registered: nothing that       *)
(* activations, imports, failures and starts do changes a release.         *)
THEOREM StoreKeeps == StudioSpec /\ []OneRegisters => []WorkflowKept
<1>1. StudioInit => IntactInv
  BY StudioStarts
<1>2. StudioInv /\ IntactInv /\ OneRegisters /\ [StudioNext]_studioVars => IntactInv'
  BY StoreSteps, IntactStep DEF StudioInv
<1>3. StudioInv /\ IntactInv => WorkflowKept
  BY DEF StudioInv, StoreInv, DefinitionMeans, IntactInv, WorkflowKept
<1> QED
  BY <1>1, <1>2, <1>3, StudioHolds, PTL DEF StudioSpec

(* A start of the application, whatever its image bundles, takes back      *)
(* nothing that an administrator promoted.                                 *)
THEOREM OperatorsFilesKept == StudioSpec => OperatorKept
<1>1. StudioInv /\ [StudioNext]_studioVars =>
        [\A f \in {"workflow", "param"} : runtime[f] \in Workflow!File /\ ~runtime[f].bundled /\ ~up => runtime'[f] = runtime[f]]_Workflow!vars
  BY StoreSteps, OperatorStep DEF StudioInv
<1> QED
  BY <1>1, StudioHolds, PTL DEF StudioSpec, OperatorKept, Workflow!OperatorKept

(* However many requests save accounts and roles at once: once somebody    *)
(* has logged in, the default administrator is there, active and may do    *)
(* everything, while nobody is between a save and the answer to it.        *)
THEOREM AdministratorStands == StudioSpec => []AdminStands
<1>1. StudioInv => AdminStands
  BY AccessSafe DEF StudioInv, PartsInv, AdminStands
<1> QED
  BY <1>1, StudioHolds, PTL

(* Scenes keep their limits, the file of instructions its form, and the    *)
(* text in force can be restored, for any number of editors and changes.   *)
THEOREM RulesStand == StudioSpec => []RulesKept
<1>1. StudioInv => RulesKept
  BY SceneKept, WordsSafe, FileSafe, WordingSafe DEF StudioInv, PartsInv, RulesKept
<1> QED
  BY <1>1, StudioHolds, PTL

(* No output is lost or takes another's place, however many importers copy *)
(* at once and fail between steps - but for one under its name already     *)
(* that the manifest calls otherwise, which the import deletes; an         *)
(* addition comes last in a collection, no delete takes with it what was   *)
(* there when it looked; a cut that was handed over counts as used.        *)
THEOREM WorkStands == StudioSpec => []WorkKept
<1>1. StudioInv => WorkKept
  BY OutSafe, ShelfSafe, CutsSafe DEF StudioInv, PartsInv, WorkKept
<1> QED
  BY <1>1, StudioHolds, PTL
=============================================================================
