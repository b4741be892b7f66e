\* One operator alone, when the reply of a call may be lost.
SPECIFICATION Spec
CONSTANTS
    p1 = p1
    p2 = p2
    p3 = p3
    none = none
    small = small
    large = large
    o1 = o1
    o2 = o2
    Pod = {p1, p2, p3}
    NoPod = none
    Volume <- AnyPods
    GPUs <- BothGPUs
    LowVram = {}
    StartRetries = 1
    Operator = {o1}
    May <- OneOperator
    Faults = {"refused", "lost", "late"}
    MaxRequests = 1
    MaxWrites = 1
INVARIANTS
    SingleRunning
CHECK_DEADLOCK FALSE
