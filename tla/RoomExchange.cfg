SPECIFICATION FairSpec
CONSTANTS
    Device = {d1, d2}
    Creator = d1
    Old = {d2}
    Retargeters = {d1}
    Editors = {d1, d2}
    BatchLimit = 1
    PeerLimit = 2
    MaxEdits = 2
    MaxClashes = 1
    MaxDrops = 1
INVARIANT EditsKept
PROPERTIES LogSpec Convergence HeldIsPublished
CHECK_DEADLOCK FALSE
