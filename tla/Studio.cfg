SPECIFICATION StudioSpec
CONSTANTS
    Asset = {x}
    Task = {t1, t2}
    DeleteSource = FALSE
    Faults = {"dies"}
    Admin = {"a1"}
    Upload = {"u1"}
    Bundled <- Images
    Nothing = "none"
    MaxStops = 2
    Request = {"r1", "r2"}
    OneRequest = "r1"
    App = {"p", "q"}
    OneApp = "p"
    PromptFaults = {"lostReply", "noReply", "cold"}
    Handler = {"h1", "h2"}
    Coll = {"c1"}
    MaxRequests = 4
    MaxFaults = 1
    MaxImages = 3
    MaxUse = 2
    MaxChanges = 3
    MaxSaves = 2
    MaxDeaths = 1
    AskedChanges <- Changes
INVARIANTS
    StudioTypeOK
    WorkflowKept
    EveryAssetReadable
    InputsReadable
    PatchedAsAsked
    DashboardTrue
    AdminStands
    ViewsAgree
    RulesKept
    WorkKept
PROPERTIES
    OperatorKept
    PromptsArrive
CHECK_DEADLOCK FALSE
