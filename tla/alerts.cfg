SPECIFICATION FairSpec
CONSTANTS
    Rules = {r1, r2}
    Accounts = {a1}
    AccountRules = {r1}
    Threshold = 1
    Interval = 2
    Lookback = 2
    Window = 2
    DeadEndpoints = {r1}
    MayFail = TRUE
    MaxEdits = 1
    MaxCrashes = 1
INVARIANTS TypeOK SilenceIsEarned
PROPERTIES StandingIsReported DeliveriesSpaced
