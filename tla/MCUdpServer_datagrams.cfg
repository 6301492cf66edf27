SPECIFICATION FairUdpSpec
CONSTANTS
    NULL = NULL
    Servers = {t1, t2}
    Room = 2
    MaxArrivals = 4
INVARIANTS GivenOnce GivenInOrder AtMostOneLateDatagram
PROPERTIES DatagramReceived
CHECK_DEADLOCK FALSE
