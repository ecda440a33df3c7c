\* Two descriptors to spend: the daemon crashes twice, nothing is lost.
CONSTANTS
    Pid = {p1}
    Port = {q1, q2}
    None = None
    Empty = Empty
    Room = 2
    MaxMissFeedback = 2
    MaxWait = 2
    MaxFd = 2
    MaxCrash = 2
    MaxFault = 0
SPECIFICATION FpSpec
PROPERTIES
    UnansweredRegisters
CHECK_DEADLOCK FALSE
