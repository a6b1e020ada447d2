SPECIFICATION PortalSpec
CONSTANTS
    Session = {s1}
    BarrierId = {b1}
    Layouts <- TwoLayouts
    OnEdge <- Edges
    BarrierSets <- AllBarriers
    Faults = {"eis", "output"}
    MaxConns = 1
    MaxCmds = 1
    MaxCalls = 2
    MaxZoneSets = 3
    MaxActivations = 1
    MaxQueued = 1
    Methods = {"CreateSession", "GetZones", "SetPointerBarriers", "ConnectToEIS", "Enable"}
INVARIANTS
    BarriersMatchZones
PROPERTIES
    LossEndsRun
    DeadConnectionEndsRun
