SPECIFICATION Spec
CONSTANTS
    w1 = w1
    w2 = w2
    image1 = image1
    image2 = image2
    NoImage = NoImage
    None = None
    Workers <- OneWorker
    Images <- TwoImages
    MaxRevision = 3
    LiveReload = TRUE
    SerializedRecords = FALSE
    MaxFaults = 2
SYMMETRY Symmetry
CHECK_DEADLOCK FALSE
INVARIANTS
    HeldServesApplied
    AppliedInputs
    AppliedResources
