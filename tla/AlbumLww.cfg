SPECIFICATION AlbumsSpec
CONSTANTS
    Procs = {a1, a2}
    Loaders = {b1}
    MaxLoads = 0
    MaxUploads = 2
    None = None
    TrackNames = {t1}
    Edits <- MCEdits
    Stamps = {0, 1}
    MaxTime = 1
    MaxWrites = 2
    MaxAlbumKills = 1
CHECK_DEADLOCK FALSE
PROPERTY StaleWriteLoses
