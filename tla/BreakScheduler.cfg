SPECIFICATION Spec
CONSTANTS
    MaxCommands = 4
    MaxForeign = 1
    MaxChoices = 1
    LongEvery = 2
CHECK_DEADLOCK FALSE
PROPERTIES
    DroppedBreakGoesWhole
    PassedFinishGetsNoBreak
    BreakFollowsCompletedFocus
    ChoiceStands
