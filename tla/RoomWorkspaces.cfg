SPECIFICATION Spec
CONSTANTS
    MaxRooms = 2
    MaxEdits = 2
    MaxMoves = 3
    MaxFaults = 1
    MaxLate = 0
CHECK_DEADLOCK FALSE
INVARIANTS
    EditsAtHome
    NumbersFresh
PROPERTIES
    JoinSettles
    CloudReturns
