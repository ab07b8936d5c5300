SPECIFICATION ChainSpec
CONSTANTS
    Callers = {c1, c2}
    Replicas = {c1, c2}
    ReplicaOf <- OwnProcess
    Keys = {k1, k2}
    NoKey = NoKey
    Faults = {}
CHECK_DEADLOCK FALSE
INVARIANT
    NoNonceConflict
