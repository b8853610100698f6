SPECIFICATION FairSpec
CONSTANTS
    MaxTokens = 2
    MaxGeneration = 3
    MaxFaults = 2
    MaxStops = 1
INVARIANTS ConfirmedNeverAuthenticates DeletedIsFenced
PROPERTIES OnlyAskedForIsForgotten ObligationSettles
CHECK_DEADLOCK FALSE
