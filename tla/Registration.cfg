\* Every command of up to four characters, two restarts of the daemon.
CONSTANTS
    Byte = 16
    Null = Null
    Char <- MCChar
    AppName <- MCAppName
    MaxCmd = 4
    CmdLine <- MCCmdLine
    FeedPeriod = {0, 127, 128}
    ProcessId = {2, 32767}
    Key <- MCKey
    DefaultPeriod = 15
    MaxText = 6
    MaxComm = 2
    Unit = 2
    MaxLoads = 2
SPECIFICATION RegSpec
INVARIANTS
    CommandKept
    PlainAccepted
    NameKept
    PeriodKept
    FeedsRecognised
    ArgvFits
PROPERTIES
    ReloadStable
