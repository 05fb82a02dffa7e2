SPECIFICATION DeliverySpec
CONSTANTS
    n1 = n1
    k1 = k1
    k2 = k2
    t1 = t1
    p1 = p1
    MaxInFlight = 2
    Node = {n1}
    Task = {t1}
    Key = {k1, k2}
    Admin = {a1}
    Poll = {p1, p2}
    NodeOf <- OneNode
    KeyOf <- TwoKeys
    NoTask = NoTask
    MaxChunk = 0
    Ends = {"succeeded"}
    FaultSets <- LateOrLost
SYMMETRY PollSymmetry
INVARIANTS
    TypeOK
    AtMostOnce
    TruthfulSuccess
PROPERTIES
    ImplementsLife
CHECK_DEADLOCK FALSE
