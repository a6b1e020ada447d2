SPECIFICATION ThreadSpec
CONSTANTS
    Session = {s1}
    BarrierId = {b1, b2}
    SomeEdges = {b1}
    Layouts <- TwoLayouts
    OnEdge <- Edges
    MaxConns = 1
    MaxCmds = 1
    MaxEvents = 1
    MaxInputs = 2
    Faults = {"output", "layer", "pointer", "unlock", "panic", "eis"}
INVARIANTS
    ThreadTypeOK
    GrabsFollowCapture
PROPERTIES
    InputConserved
    ImplementsPointerGrab
    SilentCaptureEnds
