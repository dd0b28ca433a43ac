SPECIFICATION FairImportSpec
CONSTANTS
    j1 = j1
    j2 = j2
    urlA = urlA
    urlB = urlB
    Deployments = {TRUE, FALSE}
    Jobs = {j1}
    Items = {1, 2, 3}
    JobOf <- OneJobOf
    UrlOf <- MCUrlOf
    WithAlbum = {j1}
    BatchSize = 2
    Concurrency = 1
    AutoRetries = 2
    MaxActive = 1
    MaxSetbacks = 1
    MaxRetryCalls = 0
INVARIANTS
    ImportedOnce
    AttachedToAlbum
PROPERTIES
    JobEnds
\* In the instance all jobs end, kills and retries run out, and the server
\* only waits for requests.
CHECK_DEADLOCK FALSE
