\* One application that feeds; the daemon crashes once, two datagrams are lost.
CONSTANTS
    Pid = {p1}
    Port = {q1, q2}
    None = None
    Empty = Empty
    Room = 2
    MaxMissFeedback = 2
    MaxWait = 0
    MaxFd = 4
    MaxCrash = 1
    MaxFault = 2
SPECIFICATION FpSpec
PROPERTIES
    Reconnects
CHECK_DEADLOCK FALSE
