SPECIFICATION FairSpec
CONSTANTS
    None = None
    Sessions = {s1, s2}
    Disturbances = {"edit", "restart"}
    MaxDisturbances = 3
CHECK_DEADLOCK FALSE
INVARIANTS CameraReturned
PROPERTIES RestoredOnTerminal SessionEnds
