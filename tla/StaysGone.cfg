\* No save ever fails.
CONSTANTS
    a = a
    b = b
    p1 = p1
    p2 = p2
    p3 = p3
    c = c
    Name = {a, b}
    Pid = {p1, p2, p3}
    Cmd = {c}
    NoPid = NoPid
    NoCmd = NoCmd
    Client <- MCClient
    WirePeriod = {0, 2}
    DefaultPeriod = 1
    MaxMissed = 1
    AgeCap = 3
    Reloaded <- MCReloaded
    SaveFault = {}
SPECIFICATION WdSpec
INVARIANTS
    UnregisteredStaysGone
