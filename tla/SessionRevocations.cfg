SPECIFICATION FairSpec
CONSTANTS
    Processes = {app, other}
    App = app
    Sessions = {s1}
    Origins = {s1, s2}
    None = None
    MaxTries = 2
    MaxIssue = 2
    MaxFaults = 2
INVARIANTS NoSessionForgotten OnlyPendingAreSent
PROPERTIES EventuallyRevoked
CHECK_DEADLOCK FALSE
