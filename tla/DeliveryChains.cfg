\* Chains of commands behind a finish, under cores with and without the
\* planner: requests built by one are answered under the other.
SPECIFICATION Spec
CONSTANTS
    Domains <- MCCommandDomains
    Users = {alice}
    NoUser = NoUser
    Cores = {TRUE, FALSE}
    MaxOps = 3
    MaxClock = 3
    MaxRevision = 0
    MaxRequests = 1
    PerDomain = 2
    Total = 1
    BootPerDomain = 2
    BootTotal = 1
INVARIANTS
    QueueAlwaysPlannable
    CompletionNeverRefused
    ExactReplay
PROPERTIES
    ParentsHoldTheirDependents
\* The bounds stop the model where the program would go on.
CHECK_DEADLOCK FALSE
