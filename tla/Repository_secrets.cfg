SPECIFICATION RepositorySpec
CONSTANTS
    Text = {x1}
    Seed = Gone
    Gone = Gone
    Unset = Unset
    Writer = {w1}
    Syncer = {y1}
    Action = {"install"}
    MaxChange = 1
    MaxTrouble = 0
    MaxOperation = 1
PROPERTIES
    RefusedOnlyIfRotated
CHECK_DEADLOCK FALSE
