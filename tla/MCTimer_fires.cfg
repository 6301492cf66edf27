SPECIFICATION TimedSpec
CONSTANTS
    Svc = svc
    NULL = NULL
    Clients = {k1}
    Handles = {h1}
    Cells = {c1, c2}
    AutoResets = {TRUE}
    TriggerFlags = {FALSE}
    Reentrant = FALSE
    RacingDelete = FALSE
    MaxLate = 2
PROPERTIES ActiveTimerFires
CHECK_DEADLOCK FALSE
