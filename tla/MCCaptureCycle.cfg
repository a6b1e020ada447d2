SPECIFICATION SetUpSpec
CONSTANTS
    Session = {s1, s2}
    BarrierId = {b1}
    Layouts <- OneLayout
    OnEdge <- Edges
    BarrierSets <- AllBarriers
    Device = {"pointer"}
    Faults = {"unlock", "panic", "eis"}
    MaxConns = 2
    MaxCmds = 1
    MaxCalls = 0
    MaxZoneSets = 2
    MaxActivations = 2
    MaxQueued = 1
    MaxEvents = 2
    MaxInputs = 1
    Methods = {"Enable", "Release"}
INVARIANTS
    ChannelsTypeOK
    StreamMatchesActivation
    SequencesRise
    EdgesStayArmed
    OnlyActiveIsFed
SYMMETRY Symmetry
