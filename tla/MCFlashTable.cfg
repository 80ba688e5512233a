CONSTANTS
    PageSize = 3
    RegionPages = 2
    Regions = 2
    MagicAt = 1
    SerialAt = 2
    v = v
    w = w
    Valid = v
    Unknown = Unknown
    Mixed = Mixed
    Spill = 1
    MaxRequests = 2
    MaxCuts = 1
    Values <- MCValues
SPECIFICATION MCSpec
INVARIANTS DurableCells SoundAtRest LockExact FetchesCode
PROPERTIES ProgramIntact TableSettles
