\* One application, with a period longer than the default one, fails three times;
\* a save may fail, and the daemon crashes once.
CONSTANTS
    Name = {a1}
    Cmd = {a1}
    Pid = {p1, p2, p3}
    NoPid = NoPid
    NoCmd = NoCmd
    Client <- MCClient
    Seconds = 3
    WirePeriod = {3}
    DefaultPeriod = 2
    MaxMissed = 3
    AgeCap = 10
    Reloaded <- MCReloaded
    SaveFault = {"open"}
    Port = {q1, q2}
    None = None
    Empty = Empty
    Room = 2
    MaxMissFeedback = 2
    MaxWait = 1
    MaxFd = 6
    FeedPeriod <- MCFeedPeriod
    CommandOf <- MCCommandOf
    LongName = {}
    HangAtStart = FALSE
    PidReuse = FALSE
    MaxFailures = 3
    MaxCrashes = 1
    MaxDown = 1
SPECIFICATION SupSpec
INVARIANTS
    SupTypeOK
    OneInstance
    NoFalseRestart
    ConfirmedHasNode
PROPERTIES
    Converges
CHECK_DEADLOCK FALSE
