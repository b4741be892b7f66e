SPECIFICATION LiveSpec
CONSTANTS
    a1 = a1
    a2 = a2
    b1 = b1
    b2 = b2
    d1 = d1
    d2 = d2
    App = {a1}
    Item = {1, 2}
    Draft = {d1, d2}
    Batch = {b1}
    DraftOf <- OwnDraft
    BatchOf <- OneBatch
    Folder = {}
    MAX_MATERIALIZE_ATTEMPTS = 1
    Faults = {"prepareError", "slow"}
    MaxTask = 2
    MaxClaims = 2
    MaxCrashes = 1
    MaxReworks = 1
    MaxSpent = 1
INVARIANTS
    OneTaskPerDraft
PROPERTIES
    EveryItemSettles
    ShownFollows
CHECK_DEADLOCK FALSE
