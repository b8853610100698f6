\* Four domains, a planning core: edits, sync, resolution and resets.
SPECIFICATION Spec
CONSTANTS
    Domains <- MCFourDomains
    Users = {alice}
    NoUser = NoUser
    Cores = {TRUE}
    MaxOps = 3
    MaxClock = 3
    MaxRevision = 0
    MaxRequests = 1
    PerDomain = 2
    Total = 2
    BootPerDomain = 2
    BootTotal = 2
INVARIANTS
    NeverSentProofSound
    PossiblyDeliveredIsReplayable
PROPERTIES
    NoSilentLoss
    ResolutionFreezesQueue
    EditsShowAtOnce
\* The bounds stop the model where the program would go on.
CHECK_DEADLOCK FALSE
