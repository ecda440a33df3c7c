\* Two updates of one application, with three faults of any kind.
CONSTANTS
    Updates <- MCUpdates
    MaxFaults = 3
SPECIFICATION UpSpec
CONSTRAINT Orderly
INVARIANTS
    UpTypeOK
    LockCovers
    OneIsWhole
    StartsWhole
PROPERTIES
    UpdateSettles
