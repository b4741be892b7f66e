SPECIFICATION LiveSpec
CONSTANTS
    u1 = u1
    q1 = q1
    q2 = q2
    a1 = a1
    a2 = a2
    path1 = path1
    path2 = path2
    Job = {1, 2}
    User = {u1}
    Request = {q1, q2}
    App = {a1, a2}
    Path = {path1, path2}
    Source <- Sources
    Faults = {"noSource", "unreadable", "breaks"}
    MaxCrashes = 1
INVARIANTS
    TypeOK
    OneActivePerUser
    CompletedIsWhole
PROPERTIES
    StoppedForGood
    EveryJobEnds
CHECK_DEADLOCK FALSE
