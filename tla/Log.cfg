\* Two threads, a level without a buffer and one with a buffer of two bytes.
CONSTANTS
    Thread = {t1, t2}
    t1 = t1
    t2 = t2
    BufferSizes = {0, 2}
    FileMax = 2
    MaxNum = 2
    Size = {1, 2}
    MaxMessages = 4
    MaxSpoilt = 3
    MaxLost = 2
    MaxRestarts = 1
SPECIFICATION LogSpec
INVARIANTS
    LogTypeOK
    BufferFits
    LogIsSuffix
PROPERTIES
    WriteReturns
