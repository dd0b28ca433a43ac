SPECIFICATION FairSlopSpec
CONSTANTS
    MaxUser = 2
    MaxTime = 1
    UtcStart = 0
    LocalStart = 0
    DayLength = 1
    MaxSetbacks = 1
    BaseQuota = 1
    SeedAdmins = 0
    AdKeys = {1}
    AdReward = 2
    AdDailyLimit = 1
    TokensPerGb = 1
    RedeemSizes = {1}
    CostPerGeneration = 1
    MaxJobs = 2
INVARIANTS
    SlopTypeOK
    RefundMatchesCharge
    DeliveredIsPaid
    EveryJobSettled
PROPERTIES
    ImplementsContract
    JobsEnd
