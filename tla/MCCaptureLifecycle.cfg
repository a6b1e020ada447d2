SPECIFICATION Spec
CONSTANTS
    Session = {s1}
    BarrierId = {b1}
    Layouts <- OneLayout
    OnEdge <- Edges
    BarrierSets <- AllBarriers
    Device = {"pointer"}
    Faults = {"eis"}
    MaxConns = 1
    MaxCmds = 1
    MaxCalls = 1
    MaxZoneSets = 1
    MaxActivations = 1
    MaxQueued = 1
    MaxEvents = 1
    MaxInputs = 1
    Methods = {"CreateSession", "SetPointerBarriers", "ConnectToEIS", "Enable", "Close",
               "ForceRelease"}
INVARIANTS
    EisTypeOK
PROPERTIES
    ForceReleaseWorks
CHECK_DEADLOCK FALSE
