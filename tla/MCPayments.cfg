SPECIFICATION FairPaySpec
CONSTANTS
    MaxUser = 2
    MaxTime = 3
    UtcStart = 1
    LocalStart = 0
    DayLength = 2
    MaxSetbacks = 2
    BaseQuota = 1
    SeedAdmins = 1
    AdKeys = {}
    AdReward = 1
    AdDailyLimit = 2
    TokensPerGb = 1
    RedeemSizes = {1}
    Products <- MCProducts
    MaxPayments = 1
    MaxRedeliveries = 1
INVARIANTS
    PayTypeOK
    CreditsMatchPayments
    AckedMeansCredited
    PremiumReachesBuyer
PROPERTIES
    PremiumIsKept
    PaidIsCredited
