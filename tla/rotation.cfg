SPECIFICATION FairSpec
CONSTANTS
    N = 3
    Requests = {r1, r2}
    LongestWait = 19
INVARIANT WaitIsBounded
PROPERTY EveryoneHasATurn
