SPECIFICATION FairWaitSpec
CONSTANTS
    NULL = NULL
    Waiters = {w1, w2}
    Signallers = {s1, s2}
INVARIANTS OwedSeesFlag
PROPERTIES BroadcastReleases SignalReleases TimedWaitEnds
CHECK_DEADLOCK FALSE
