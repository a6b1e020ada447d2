SPECIFICATION Spec
CONSTANTS
    Session = {s1}
    Task = {t1}
    MaxSelections = 4
    MaxPastes = 0
    MAX_PENDING_TRANSFERS = 1
    MaxAtLoss = 0
INVARIANTS
    OwnerCanAnswer
CHECK_DEADLOCK FALSE
