SPECIFICATION FairSpec
CONSTANTS
    Accounts = {a1}
    Payloads = {p1}
    None = None
    Slots = {s1, s2}
    MaxSessions = 2
    MaxGeneration = 2
    MaxEpoch = 1
    RetryAttempts = 1
INVARIANTS  MemoryMirrorsStore SignedOutStaysOut
PROPERTIES QueuedSyncEnds
CHECK_DEADLOCK FALSE
