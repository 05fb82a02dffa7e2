SPECIFICATION FairSpec
CONSTANTS
    a1 = a1
    a2 = a2
    None = None
    Agent = {a1, a2}
    NodeId = {n1, n2}
    Admin = {d1, d2}
    Serve = {s1, s2}
    Patches <- Patching
    World <- Worlds
    MaxGen = 2
INVARIANTS
    TypeOK
    SignableNode
PROPERTIES
    DecisionsStick
    StatusFollows
    ApprovedJoins
CHECK_DEADLOCK FALSE
