SPECIFICATION Spec
CONSTANTS
    None = None
    Sessions = {s1, s2}
    Disturbances = {"edit", "rotate", "rollback", "geometry", "restart", "overtake"}
    MaxDisturbances = 1
SYMMETRY Symmetry
CHECK_DEADLOCK FALSE

PROPERTY CapturesInEnrollment
