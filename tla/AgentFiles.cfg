SPECIFICATION AgentFilesSpec
CONSTANTS
    Lease = {l1}
    Call = {c1}
    Slot = {s1}
    NoLease = NoLease
    MaxTime = 5
    Cap = 2
    MaxDuration = 2
    TokenExpiry = 4
    MaxSession = 1
    Faults <- AllFaults
    Release = {v1, v2, v3}
    Missing = Missing
    MaxFault = 2
INVARIANTS
    TypeOK
    WithinCap
    WithinToken
    SecretsContained
    LeftoversHarmless
PROPERTIES
    IssuedOnce
    SessionsGated
    KeysGo
    NothingLost
CHECK_DEADLOCK FALSE
