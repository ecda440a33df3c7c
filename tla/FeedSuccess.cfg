\* Nothing is lost and the daemon never crashes.
CONSTANTS
    Pid = {p1}
    Port = {q1, q2}
    None = None
    Empty = Empty
    Room = 2
    MaxMissFeedback = 2
    MaxWait = 2
    MaxFd = 3
    MaxCrash = 0
    MaxFault = 0
SPECIFICATION FpSpec
INVARIANTS
    SuccessMeansGone
CHECK_DEADLOCK FALSE
