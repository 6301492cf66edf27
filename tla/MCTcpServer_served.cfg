SPECIFICATION FairSpec
CONSTANTS
    NULL = NULL
    Srv = srv
    Callers = {}
    Handles = {h1, h2}
    Conns = {c1, c2, c3}
    MaxConnections = 2
    Calls = {"send"}
    ConnectionCallback = TRUE
    WideSize = TRUE
INVARIANTS RecvIsReady
PROPERTIES OnlyEndedDropped DataDelivered EndIsNoticed
CHECK_DEADLOCK FALSE
