SPECIFICATION FairSpec
CONSTANTS
    c1 = c1
    c2 = c2
    p1 = p1
    p2 = p2
    k1 = k1
    k2 = k2
    Callers = {c1, c2}
    Replicas = {p1}
    ReplicaOf <- OneProcess
    Keys = {k1}
    NoKey = NoKey
    Faults = {"confirmation", "crash", "malformed", "commandTemplate"}
    Requests = {r1, r2}
    SubmitReplica <- OnFirst
    UsesChain = {r1}
    UnknownId = UnknownId
    NoId = NoId
    Pollers = {}
    PollReplica <- PollsOnFirst
CHECK_DEADLOCK FALSE
INVARIANT
    ErrorMeansNothingDone
PROPERTIES
    RefinesRelayerPromise
    EveryMailIsAnswered
    ReplyIsReported
    ReplySucceeds
