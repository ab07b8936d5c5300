SPECIFICATION Spec
CONSTANTS
    c1 = c1
    c2 = c2
    p1 = p1
    p2 = p2
    k1 = k1
    k2 = k2
    Callers = {c1}
    Replicas = {p1}
    ReplicaOf <- OneProcess
    Keys = {k1}
    NoKey = NoKey
    Faults = {}
    Requests = {r1}
    SubmitReplica <- OnFirst
    UsesChain = {}
    UnknownId = UnknownId
    NoId = NoId
    Pollers = {}
    PollReplica <- PollsOnFirst
CHECK_DEADLOCK FALSE
INVARIANT
    StatusIsCurrent
