SPECIFICATION Spec
CONSTANTS
    Svc = svc
    NULL = NULL
    Clients = {k1}
    Handles = {h1, h2}
    Cells = {c1, c2, c3}
    AutoResets = {TRUE}
    TriggerFlags = {TRUE, FALSE}
    Reentrant = TRUE
    RacingDelete = TRUE
    MaxLate = 2
SYMMETRY Symmetry
INVARIANTS OneLiveCell AtMostOneLateCall
CHECK_DEADLOCK FALSE
