SPECIFICATION Spec
CONSTANTS
    MaxRooms = 1
    MaxEdits = 2
    MaxMoves = 2
    MaxFaults = 0
    MaxLate = 1
CHECK_DEADLOCK FALSE
INVARIANTS
    EditsAtHome
