SPECIFICATION PortalSpec
CONSTANTS
    Session = {s1, s2}
    BarrierId = {b1}
    Layouts <- OneLayout
    OnEdge <- Edges
    BarrierSets <- AllBarriers
    Faults = {}
    MaxConns = 2
    MaxCmds = 1
    MaxCalls = 1
    MaxZoneSets = 2
    MaxActivations = 2
    MaxQueued = 1
    Methods = {"CreateSession2", "Start", "SetPointerBarriers", "ConnectToEIS", "Enable", "Disable", "Disarm", "Close", "Release", "ForceRelease"}
INVARIANTS
    PortalTypeOK
    ActiveIsAuthorised
    ActivationsDistinct
    DeactivatedWasAnnounced
PROPERTIES
    AnnouncedInOrder
SYMMETRY Symmetry
