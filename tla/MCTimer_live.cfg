SPECIFICATION FairSpec
CONSTANTS
    Svc = svc
    NULL = NULL
    Clients = {k1}
    Handles = {h1}
    Cells = {c1, c2}
    AutoResets = {TRUE, FALSE}
    TriggerFlags = {FALSE}
    Reentrant = TRUE
    RacingDelete = FALSE
    MaxLate = 0
INVARIANTS TypeOK HandlesAreGood ActiveQueued CellSafety
PROPERTIES CallsReturn DestructorEnds
CHECK_DEADLOCK FALSE
