SPECIFICATION FairSpec
CONSTANTS
    w1 = w1
    w2 = w2
    image1 = image1
    image2 = image2
    NoImage = NoImage
    None = None
    Workers <- OneWorker
    Images <- TwoImages
    MaxRevision = 2
    LiveReload = TRUE
    SerializedRecords = TRUE
    MaxFaults = 2

CHECK_DEADLOCK FALSE
PROPERTIES
    Converges
