\* Two applications, one of them with two processes; every kind of failed save.
CONSTANTS
    a = a
    b = b
    p1 = p1
    p2 = p2
    p3 = p3
    c = c
    Name = {a, b}
    Pid = {p1, p2, p3}
    Cmd = {c}
    NoPid = NoPid
    NoCmd = NoCmd
    Client <- MCClient
    WirePeriod = {0, 2}
    DefaultPeriod = 1
    MaxMissed = 1
    AgeCap = 3
    Reloaded <- MCReloaded
    SaveFault = {"open", "torn", "crash"}
SPECIFICATION WdSpec
INVARIANTS
    WdTypeOK
    RegistryConsistent
    Persisted
    RegisteredIsMonitored
PROPERTIES
    StartsSpaced
    RegistryKept
