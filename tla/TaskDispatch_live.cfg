SPECIFICATION LiveSpec
CONSTANTS
    n1 = n1
    k1 = k1
    k2 = k2
    t1 = t1
    p1 = p1
    MaxInFlight = 2
    Node = {n1}
    Task = {t1, t2}
    Key = {k1, k2}
    Admin = {a1}
    Poll = {p1, p2}
    NodeOf <- OneNode
    KeyOf <- TwoKeys
    NoTask = NoTask
    MaxChunk = 1
    Ends = {"succeeded", "failed"}
    FaultSets <- NoneOrServer
INVARIANTS
    SuccessLogged
PROPERTIES
    EveryTaskCloses
    QueueDrains
CHECK_DEADLOCK FALSE
