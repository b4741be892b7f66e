SPECIFICATION LiveSpec
CONSTANTS
    p1 = p1
    p2 = p2
    p3 = p3
    none = none
    small = small
    large = large
    o1 = o1
    o2 = o2
    Pod = {p1, p2, p3}
    NoPod = none
    Volume <- AnyPods
    GPUs <- BothGPUs
    LowVram = {}
    StartRetries = 1
    Operator = {o1, o2}
    May <- OnlyStops
    Faults = {"refused", "config", "slow", "vanishes"}
    MaxRequests = 1
    MaxWrites = 1
INVARIANTS
    SingleRunning
PROPERTIES
    DeletesOnlySpares
    EveryRequestAnswers
CHECK_DEADLOCK FALSE
