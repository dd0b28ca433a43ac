SPECIFICATION StorageSpec
CONSTANTS
    Workers = {w1, w2}
    Sizes = {1}
    Times = {1, 2}
    Limit = 1
    PageSize = 1
    MaxTracks = 2
    MaxRequests = 3
    MaxGenerated = 1
    MaxSetbacks = 1
    Servers = {w1, w2}
    Missing = Missing
    Retention = 1
    Parts = 2
    MaxRows = 2
    MaxTime = 3
    MaxStops = 1
SYMMETRY Processes
CHECK_DEADLOCK FALSE
INVARIANT ExistingFileKept
