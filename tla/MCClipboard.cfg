SPECIFICATION Spec
CONSTANTS
    Session = {s1, s2}
    Task = {t1, t2}
    MaxSelections = 3
    MaxPastes = 3
    MAX_PENDING_TRANSFERS = 2
    MaxAtLoss = 2
INVARIANTS
    ClipboardTypeOK
    TransfersInOrder
    OwnerHoldsSelection
    ClientsKnowSelection
    ReadsAreFresh
PROPERTIES
    ImplementsPendingPastes
SYMMETRY Symmetry
CHECK_DEADLOCK FALSE
ACTION_CONSTRAINT LossWhenSettled
