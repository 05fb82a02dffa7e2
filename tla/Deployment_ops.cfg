SPECIFICATION Spec
CONSTANTS
    f1 = f1
    f2 = f2
    n1 = n1
    n2 = n2
    t1 = t1
    r1 = r1
    None = None
    Feature = {f1}
    Node = {n1, n2}
    Target = {t1, t2}
    Release = {}
    Req = {q1}
    FeatureOf <- OneFeature
    NodeOf <- TwoNodes
    Deployed <- Fresh
    BackedUp = {f1}
    CanRollBack = {f1}
    Production = FALSE
    Actions = {"backup"}
    Choices <- BothOrOne
    Desired = {}
    Requests = {"cancel", "continue"}
    MaxOp = 2
    Faults = {"restart"}
INVARIANTS
    TypeOK
    SucceededHidesNothing
    OneActivePerFeature
PROPERTIES
    FailureStops
CHECK_DEADLOCK FALSE
