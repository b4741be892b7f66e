\* Two processes, which may die twice, and failing promotions: does a batch close,
\* and not too early?
SPECIFICATION LiveSpec
CONSTANTS
    a = a
    b = b
    b1 = b1
    b2 = b2
    d1 = d1
    d2 = d2
    NoApp = NoApp
    NoDraft = NoDraft
    App = {a, b}
    Batch = {b1}
    Draft = {d1}
    BatchOf <- OneBatch
    Faults = {"createError", "dbError"}
    Requests = {"cancel", "view"}
    MaxTasks = 2
    MaxCrashes = 2
INVARIANTS
    OneTaskUnlessCancelled
PROPERTIES
    EveryBatchSettles
    CompleteMeansDone
