SPECIFICATION Spec
CONSTANTS
    a1 = a1  a2 = a2  a3 = a3  a4 = a4  p1 = p1  p2 = p2
    Accounts = {a1, a2, a3, a4}
    Proxies = {p1, p2}
    Requests = {r1}
    Direct = Direct
    NoAccount = NoAccount
    Keyless = {a3}
    Malformed = {p2}
    Listed = {a1, a2, a3}
    Bindings <- SoloBindings
    MaxRetries = 2
    MaxNow = 1
    MaxEdits = 1
    DecayWindow = 2
INVARIANTS TypeOK NoRouteTriedTwice FailuresAccountedFor LogsWhatItAnswers
PROPERTIES Answered GivesUpOnlyWhenExhausted
