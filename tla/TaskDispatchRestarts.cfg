\* Crashes, lost replies, swallowed database errors and vanished jobs, for a
\* prompt that is run once and requeued once.
SPECIFICATION Spec
CONSTANTS
    a = a
    b = b
    t1 = t1
    t2 = t2
    t3 = t3
    u = u
    v = v
    NoTask = NoTask
    App = {a}
    Task = {t1}
    Batch = {}
    User = {u, v}
    Owner <- SameOwner
    LegacyJob <- NoLegacy
    MaxPerUser = 1
    MaxTotal = 1
    MinAttempts = 2
    Faults = {"crash", "dbError", "gone", "late", "lostReply"}
    Requests = {"create", "cancel", "status", "draft"}
    MaxGen = 2
    MaxJobs = 2
INVARIANTS
    SuccessIsReal
PROPERTIES
    EndIsFinal
    PriorOutputKept
