\* One application unregisters; the daemon crashes once, one datagram is lost.
CONSTANTS
    Pid = {p1}
    Port = {q1, q2}
    None = None
    Empty = Empty
    Room = 2
    MaxMissFeedback = 2
    MaxWait = 2
    MaxFd = 2
    MaxCrash = 1
    MaxFault = 1
SPECIFICATION FpSpec
INVARIANTS
    FcTypeOK
    
PROPERTIES
    UnregisterReturns
CHECK_DEADLOCK FALSE
