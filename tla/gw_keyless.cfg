SPECIFICATION Spec
CONSTANTS
    a1 = a1  a2 = a2  a3 = a3  a4 = a4  p1 = p1  p2 = p2
    Accounts = {a1, a2}
    Proxies = {p1}
    Requests = {r1, r2}
    Direct = Direct
    NoAccount = NoAccount
    Keyless = {a2}
    Malformed = {}
    Listed = {a1, a2}
    Bindings <- PairBindings
    MaxRetries = 1
    MaxNow = 1
    MaxEdits = 1
    DecayWindow = 2
INVARIANTS CompatibleAccountsOnly
