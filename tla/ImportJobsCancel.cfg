SPECIFICATION ImportSpec
CONSTANTS
    j1 = j1
    j2 = j2
    urlA = urlA
    urlB = urlB
    Deployments = {FALSE}
    Jobs = {j1}
    Items = {1, 2}
    JobOf <- MCJobOf
    UrlOf <- MCUrlOf
    WithAlbum = {}
    BatchSize = 1
    Concurrency = 1
    AutoRetries = 2
    MaxActive = 1
    MaxSetbacks = 0
    MaxRetryCalls = 0
INVARIANTS
    CancelClearsItems
CHECK_DEADLOCK FALSE
