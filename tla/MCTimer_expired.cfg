SPECIFICATION Spec
CONSTANTS
    Svc = svc
    NULL = NULL
    Clients = {k1}
    Handles = {h1}
    Cells = {c1, c2}
    AutoResets = {TRUE, FALSE}
    TriggerFlags = {FALSE}
    Reentrant = FALSE
    RacingDelete = FALSE
    MaxLate = 2
SYMMETRY Symmetry
INVARIANTS ExpiredTimerIsActive
CHECK_DEADLOCK FALSE
