SPECIFICATION SetUpSpec
CONSTANTS
    Session = {s1}
    BarrierId = {b1}
    Layouts <- OneLayout
    OnEdge <- Edges
    BarrierSets <- AllBarriers
    Device = {"pointer"}
    Faults = {"eis"}
    MaxConns = 1
    MaxCmds = 2
    MaxCalls = 0
    MaxZoneSets = 1
    MaxActivations = 2
    MaxQueued = 2
    MaxEvents = 2
    MaxInputs = 0
    Methods = {"Enable"}
INVARIANTS
    CaptureHasLiveConnection
