SPECIFICATION Spec
CONSTANTS
    Layouts <- Screens
    Requests <- Pairs
    Hint <- Spots
    BARRIER_DEPTH = 4
    RELEASE_INSET = 2
    MaxU32 = 8
INVARIANTS
    PlacementTypeOK
    StripsGuardBarriers
    OriginsAreTrue
    OnlyStrayBarriersDropped
    ZonesAreStable
    RegionIsBoundingBox
PROPERTIES
    ReleasesClearOfStrip
    ReturnsWhereItLeft
