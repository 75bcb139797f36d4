SPECIFICATION Spec
CONSTANTS
    s1 = s1  s2 = s2  s3 = s3  j1 = j1  j2 = j2  j3 = j3
    Jobs = {j1, j2, j3}
    Submissions = {s1, s2, s3}
    Accounts = {a1}
    Pollers = {background}
    Untracked = Untracked
    QueueCapacity = 1
    BatchLimit = 2
    Unpollable = {j2}
    Pasts <- Beginnings
    MaxCrashes = 1
INVARIANTS AcceptedNotForgotten TypeOK
PROPERTIES SettledOnce BundlesDecided TrackedIsSettled
