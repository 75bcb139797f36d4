SPECIFICATION FairSpec
CONSTANTS
    Logs = {l1, l2}
    ArchiveSettings = {TRUE, FALSE}
    HotRetention = 1
    Retention = 2
    BatchSize = 2
    LimitCeiling = 3
    MaxSize = 1
    MonthLength = 2
    MaxTime = 5
    MaxOutages = 2
    Years <- FourCenturies
INVARIANTS TypeOK CutoffIsTheMonth
PROPERTIES KeepsLogs RetiredInTime ArchiveWithinLimits ExpiredLeave
