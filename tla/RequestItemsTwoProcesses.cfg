SPECIFICATION Spec
CONSTANTS
    a1 = a1
    a2 = a2
    b1 = b1
    b2 = b2
    d1 = d1
    d2 = d2
    App = {a1, a2}
    Item = {1}
    Draft = {d1, d2}
    Batch = {b1}
    DraftOf <- OwnDraft
    BatchOf <- OneBatch
    Folder = {}
    MAX_MATERIALIZE_ATTEMPTS = 2
    Faults = {"recordError", "writeError", "slow"}
    MaxTask = 2
    MaxClaims = 2
    MaxCrashes = 0
    MaxReworks = 0
    MaxSpent = 1
SYMMETRY Processes
PROPERTIES
    ClaimFenced
CHECK_DEADLOCK FALSE
