SPECIFICATION FairTcpSpec
CONSTANTS
    NULL = NULL
    Messages <- MCMessages
    Base = 4
    LengthBytes = 2
    SendRetry = 2
    MaxSends = 3
    MaxConnects = 2
INVARIANTS TypeOK IntactPrefix NothingHeldBack SocketsAccounted
PROPERTIES ImplementsChannel SendReturns
CHECK_DEADLOCK FALSE
