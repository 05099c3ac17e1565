SPECIFICATION Spec
CONSTANTS
    w1 = w1
    w2 = w2
    image1 = image1
    image2 = image2
    NoImage = NoImage
    None = None
    Workers <- TwoWorkers
    Images <- TwoImages
    MaxRevision = 2
    LiveReload = TRUE
    SerializedRecords = TRUE
    MaxFaults = 1

SYMMETRY Symmetry
CHECK_DEADLOCK FALSE
INVARIANTS
    AppliedIsDesired
    HeldIsUpgrade
PROPERTIES
    ImplementsDesiredState
