SPECIFICATION Spec
CONSTANTS
    f1 = f1
    f2 = f2
    n1 = n1
    n2 = n2
    t1 = t1
    r1 = r1
    None = None
    Feature = {f1, f2}
    Node = {n1, n2}
    Target = {t1, t2}
    Release = {r1, r2}
    Req = {q1}
    FeatureOf <- TwoFeatures
    NodeOf <- TwoNodes
    Deployed <- WithR1
    BackedUp = {f2}
    CanRollBack = {f1}
    Production = TRUE
    Actions = {"update"}
    Choices <- EachTarget
    Desired = {}
    Requests = {"cancel", "continue", "edit"}
    MaxOp = 2
    Faults = {"timeout", "restart"}
INVARIANTS
    RecordedWasDeployed
    TasksInOrder
CHECK_DEADLOCK FALSE
