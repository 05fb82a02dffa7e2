SPECIFICATION LiveSpec
CONSTANTS
    f1 = f1
    f2 = f2
    n1 = n1
    n2 = n2
    t1 = t1
    r1 = r1
    None = None
    Feature = {f1}
    Node = {n1, n2}
    Target = {t1, t2}
    Release = {r1}
    Req = {q1}
    FeatureOf <- OneFeature
    NodeOf <- TwoNodes
    Deployed <- Fresh
    BackedUp = {f1}
    CanRollBack = {f1}
    Production = TRUE
    Actions = {"update", "install", "health_check"}
    Choices <- BothOrOne
    Desired = {}
    Requests = {"cancel", "continue"}
    MaxOp = 1
    Faults = {"timeout"}
    x1 = x1
    x2 = x2
    Text = {x1, x2}
    Seed = x2
    Gone = Gone
    Unset = Unset
    Writer = {w1, w2}
    y1 = y1
    Syncer = {y1, y2}
    Action = {"install"}
    MaxChange = 2
    MaxTrouble = 1
    MaxOperation = 1
INVARIANTS
    RunsFrozen
    NoDrift
PROPERTIES
    OperationEnds
    ImplementsLife
    SyncDelivers
CHECK_DEADLOCK FALSE
