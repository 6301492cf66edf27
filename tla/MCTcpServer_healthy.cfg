SPECIFICATION Spec
CONSTANTS
    NULL = NULL
    Srv = srv
    Callers = {a1}
    Handles = {h1, h2}
    Conns = {c1, c2}
    MaxConnections = 2
    Calls = {"send", "close", "closeAll"}
    ConnectionCallback = TRUE
    WideSize = TRUE
SYMMETRY Symmetry
PROPERTIES HealthyIsKept
CHECK_DEADLOCK FALSE
