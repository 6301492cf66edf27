SPECIFICATION FairLifeSpec
CONSTANTS
    NULL = NULL
    Srv = srv
    Callers = {a1}
    Handles = {h1}
    Conns = {c1, c2}
    MaxConnections = 2
    Calls = {"send", "close", "closeAll"}
    ConnectionCallback = TRUE
    WideSize = TRUE
INVARIANTS TypeOK IteratorsValid ListedIsOpen CondemnedAreListed
PROPERTIES CallsReturn DestructorEnds
CHECK_DEADLOCK FALSE
