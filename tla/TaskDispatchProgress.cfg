\* Nobody looks at an interactive and a batch task: do they end?
SPECIFICATION LiveSpec
CONSTANTS
    a = a
    b = b
    t1 = t1
    t2 = t2
    t3 = t3
    u = u
    v = v
    NoTask = NoTask
    App = {a}
    Task = {t1, t2}
    Batch = {t2}
    User = {u, v}
    Owner <- TwoOwners
    LegacyJob <- NoLegacy
    MaxPerUser = 1
    MaxTotal = 1
    MinAttempts = 2
    Faults = {"late"}
    Requests = {"create"}
    MaxGen = 1
    MaxJobs = 2
PROPERTIES
    EveryTaskEnds
