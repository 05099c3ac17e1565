SPECIFICATION FairSpec
CONSTANTS
    None = None
    a = a
    b = b
    Sessions = {s1, s2}
    Requests = {r1, r2}
    Faces <- MCFaces
    Similar <- MCSimilar
    MaxCaptures = 1
CHECK_DEADLOCK FALSE
INVARIANTS NoTwoPersonsAlike NamedHasPerson
PROPERTY NamingEnds NamingIsFinal
