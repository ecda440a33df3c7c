\* No application ever fails; the daemon crashes once.
CONSTANTS
    Name = {a1}
    Cmd = {a1}
    Pid = {p1, p2, p3}
    NoPid = NoPid
    NoCmd = NoCmd
    Client <- MCClient
    Seconds = 2
    WirePeriod = {2}
    DefaultPeriod = 2
    MaxMissed = 3
    AgeCap = 7
    Reloaded <- MCReloaded
    SaveFault = {}
    Port = {q1, q2}
    None = None
    Empty = Empty
    Room = 2
    MaxMissFeedback = 2
    MaxWait = 1
    MaxFd = 6
    FeedPeriod <- MCFeedPeriod
    CommandOf <- MCCommandOf
    LongName = {}
    HangAtStart = FALSE
    PidReuse = FALSE
    MaxFailures = 0
    MaxCrashes = 1
    MaxDown = 1
SPECIFICATION SupSpec
INVARIANTS
    FeedingIsNotRestarted
CHECK_DEADLOCK FALSE
