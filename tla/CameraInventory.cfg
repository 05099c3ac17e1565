SPECIFICATION FairSpec
CONSTANTS
    c1 = c1
    c2 = c2
    d1 = d1
    d2 = d2
    s1 = s1
    None = None
    Cameras <- TwoCameras
    Docs <- TwoDocs
    Streams <- OneStream
    Serialized = TRUE
    Listings <- Changes
    FirstListing <- FirstMirrored
    MaxDisturbances = 3
INVARIANTS
    DesiredServable
PROPERTIES
    CredentialsReachRuntime
    MirrorConverges
