\* One process that may die once, calls that take too long, and everything
\* users ask for but the cancellation of a batch.
SPECIFICATION Spec
CONSTANTS
    a = a
    b = b
    b1 = b1
    b2 = b2
    d1 = d1
    d2 = d2
    NoApp = NoApp
    NoDraft = NoDraft
    App = {a}
    Batch = {b1}
    Draft = {d1, d2}
    BatchOf <- OneBatch
    Faults = {"createError", "dbError", "slow"}
    Requests = {"retry", "draftRetry", "edit", "repair", "rework", "view"}
    MaxTasks = 2
    MaxCrashes = 1
INVARIANTS
    TypeOK
    OneTaskPerDraft
    Promotable
