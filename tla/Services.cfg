SPECIFICATION ServicesSpec
CONSTANTS
    Stream = {"stdout"}
    ChanCap = 1
    PipeCap = 1
    MaxWrite = 3
    Limit = 2
    Faults <- AllFaults
    Command = {c1, c2}
    Content = {v1, v2}
    Absent = Absent
    Snap = {s1, s2}
    MaxEdit = 2
    RegFaults <- AgentFaults
    Login = {h1, h2}
    Change = {k1}
    Session = {w1}
    Password = {p1, p2}
    MaxFailures = 2
    Window = 2
    LockDuration = 2
    SessionTTL = 1
    MaxSeconds = 2
    MaxGuess = 6
    Editor = {e1, e2}
    Caller = {r1}
    Permission = {"send"}
    Needed = "send"
    MaxRevision = 3
    Requester = {t1}
    Everyone = Everyone
    PerToken = 1
    Global = 2
    Minute = 3
    Idle = 3
    MaxTick = 7
    KeptLease = {l1, l2}
    KeptTask = {j1, j2}
    Schedule = Schedule
    Manual = {m1}
    BatchLimit = 1
    Asked <- DataTypes
    Beginnings <- LeasesOrMore
INVARIANTS
    ServicesTypeOK
    LoginsGuarded
    QuotaKept
PROPERTIES
    ClosingIsLast
    EverythingEnds
    RegistryFollows
    TokenBooksTrue
    CleanupSound
CHECK_DEADLOCK FALSE
