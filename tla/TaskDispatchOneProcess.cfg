\* One process that never dies, three tasks of one owner: a legacy row, an
\* interactive and a batch task; claims may go stale under a slow call.
SPECIFICATION Spec
CONSTANTS
    a = a
    b = b
    t1 = t1
    t2 = t2
    t3 = t3
    u = u
    v = v
    NoTask = NoTask
    App = {a}
    Task = {t1, t2, t3}
    Batch = {t3}
    User = {u, v}
    Owner <- SameOwner
    LegacyJob <- OneLegacy
    MaxPerUser = 1
    MaxTotal = 2
    MinAttempts = 2
    Faults = {"late", "slowCall"}
    Requests = {"create", "cancel", "status"}
    MaxGen = 1
    MaxJobs = 3
INVARIANTS
    TypeOK
    ActiveWithinPolicy
    CancelStopsProvider
PROPERTIES
    KeepsLifecycle
