SPECIFICATION FairSpec
CONSTANTS
    Rules = {r1}
    Accounts = {a1, a2}
    AccountRules = {r1}
    Threshold = 1
    Interval = 5
    Lookback = 10
    Window = 10
    DeadEndpoints = {}
    MayFail = FALSE
    MaxEdits = 0
    MaxCrashes = 0
PROPERTY DisabledIsReported
