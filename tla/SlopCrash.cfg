SPECIFICATION SlopSpec
CONSTANTS
    MaxUser = 1
    MaxTime = 0
    UtcStart = 0
    LocalStart = 0
    DayLength = 1
    MaxSetbacks = 1
    BaseQuota = 1
    SeedAdmins = 0
    AdKeys = {1}
    AdReward = 1
    AdDailyLimit = 1
    TokensPerGb = 1
    RedeemSizes = {}
    CostPerGeneration = 1
    MaxJobs = 1
INVARIANTS
    FailedMeansRefunded
