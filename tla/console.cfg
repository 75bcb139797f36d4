CONSTANTS
    Calls = {h1, h2}
    Words = {w1, w2}
    Lifetime = 0
    MaxTime = 1
    MaxTokens = 2
    MaxKeys = 2
    MaxMishaps = 1
    Accounts = {a1}
SPECIFICATION Spec
INVARIANTS TypeOK SessionKnowsPassword SetupIsWhole CredentialsOpen TrailExplainsRows
CHECK_DEADLOCK FALSE
PROPERTIES ExpiredIsRefused LoginEndsSession
