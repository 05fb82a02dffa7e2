SPECIFICATION Spec
CONSTANTS
    f1 = f1
    f2 = f2
    n1 = n1
    n2 = n2
    t1 = t1
    r1 = r1
    None = None
    Feature = {f1}
    Node = {n1, n2}
    Target = {t1}
    Release = {r1, r2}
    Req = {q1}
    FeatureOf <- OneFeature
    NodeOf <- TwoNodes
    Deployed <- WithR1
    BackedUp = {}
    CanRollBack = {f1}
    Production = FALSE
    Actions = {"update"}
    Choices <- EachTarget
    Desired = {}
    Requests = {}
    MaxOp = 2
    Faults = {}
PROPERTIES
    RollbackRestores
CHECK_DEADLOCK FALSE
