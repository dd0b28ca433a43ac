SPECIFICATION ImportSpec
CONSTANTS
    j1 = j1
    j2 = j2
    urlA = urlA
    urlB = urlB
    Deployments = {TRUE, FALSE}
    Jobs = {j1, j2}
    Items = {1, 2, 3}
    JobOf <- MCJobOf
    UrlOf <- MCUrlOf
    WithAlbum = {}
    BatchSize = 1
    Concurrency = 1
    AutoRetries = 0
    MaxActive = 1
    MaxSetbacks = 1
    MaxRetryCalls = 1
INVARIANTS
    ImportTypeOK
    ImportedOnce
    NoWorkInCompletedJob
    CompletedIsDone
PROPERTIES
    CancelledIsFinal
    CompletedHidesNoFailure
\* In the instance all jobs end, kills and retries run out, and the server
\* only waits for requests.
CHECK_DEADLOCK FALSE
