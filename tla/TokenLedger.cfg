SPECIFICATION TokenSpec
CONSTANTS
    MaxUser = 2
    MaxTime = 1
    UtcStart = 0
    LocalStart = 0
    DayLength = 1
    MaxSetbacks = 1
    BaseQuota = 1
    SeedAdmins = 0
    AdKeys = {1, 2, 3}
    AdReward = 1
    AdDailyLimit = 2
    TokensPerGb = 1
    RedeemSizes = {1, 2}
INVARIANTS
    TokenTypeOK
    BalanceIsLedgerSum
    AdDailyCap
    StorageIsPaidFor
