SPECIFICATION ServicesSpec
CONSTANTS
    Procs = {a1, a2}
    Loaders = {b1, b2}
    MaxLoads = 2
    MaxUploads = 2
    None = None
    TrackNames = {t1}
    Edits <- MCEdits
    Stamps = {0}
    MaxTime = 1
    MaxWrites = 2
    MaxAlbumKills = 1
    Desks = {a1, a2}
    Urls = {b1, b2}
    NoUrl = NoUrl
    FreeLimit = 1
    Payloads <- MCPayloads
    MaxBorn = 2
    MaxRadioCalls = 3
    MaxRadioKills = 1
    MaxPremiumChanges = 1
    Callers = {a1, a2}
    Nothing = Nothing
    CodeTTL = 1
    Cooldown = 1
    Window = 1
    MaxRegistrations = 1
    Rungs <- MCRungs
    MaxNow = 3
    MaxAccessCalls = 4
    MaxAccessKills = 1
    Sizes = {0, 2}
    Offsets = {0, 2}
    Absent = Absent
    Presigned = TRUE
    TokenTTL = 1
    LinkTTL = 2
    MaxSeconds = 4
    MaxGrants = 2
SYMMETRY Actors
CHECK_DEADLOCK FALSE
INVARIANTS
    ServicesTypeOK
    CoverIsCurrent
    StationsKept
    AccessKept
    PlaybackKept
PROPERTY AttachedTrackStays
