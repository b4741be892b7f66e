\* Two processes on one database.
SPECIFICATION Spec
CONSTANTS
    a = a
    b = b
    t1 = t1
    t2 = t2
    t3 = t3
    u = u
    v = v
    NoTask = NoTask
    App = {a, b}
    Task = {t1}
    Batch = {}
    User = {u, v}
    Owner <- SameOwner
    LegacyJob <- NoLegacy
    MaxPerUser = 1
    MaxTotal = 1
    MinAttempts = 2
    Faults = {"late"}
    Requests = {"create", "status", "rework", "bulk"}
    MaxGen = 2
    MaxJobs = 3
INVARIANTS
    SubmittedOnce
    NoStrandedTask
SYMMETRY EitherProcess
