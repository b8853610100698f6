SPECIFICATION Spec
CONSTANTS
    MaxTokens = 1
    MaxGeneration = 2
    MaxFaults = 0
    MaxStops = 1
PROPERTIES ScrubFollowsDelete
CHECK_DEADLOCK FALSE
