\* An application may hang before it has registered; no daemon crashes.
CONSTANTS
    Name = {a1}
    Cmd = {a1}
    Pid = {p1, p2, p3}
    NoPid = NoPid
    NoCmd = NoCmd
    Client <- MCClient
    Seconds = 2
    WirePeriod = {2}
    DefaultPeriod = 2
    MaxMissed = 3
    AgeCap = 7
    Reloaded <- MCReloaded
    SaveFault = {}
    Port = {q1, q2}
    None = None
    Empty = Empty
    Room = 2
    MaxMissFeedback = 2
    MaxWait = 1
    MaxFd = 6
    FeedPeriod <- MCFeedPeriod
    CommandOf <- MCCommandOf
    LongName = {}
    HangAtStart = TRUE
    PidReuse = FALSE
    MaxFailures = 3
    MaxCrashes = 0
    MaxDown = 1
SPECIFICATION SupSpec
INVARIANTS
    OneInstance
CHECK_DEADLOCK FALSE
