CONSTANTS
    r1 = r1
    r2 = r2
    a1 = a1
    a2 = a2
    Requests = {r1, r2}
    PlatformKeys = {p1, p2}
    ClientKey = ClientKey
    Accounts = {a1, a2, a3}
    Keyless = {a3}
    Egresses = {direct, u1}
    MaxTries = 2
SPECIFICATION Spec
SYMMETRY Alike
INVARIANTS TypeOK CredentialsStayApart OneClientPerEgress WebhooksFindTheirJob
CHECK_DEADLOCK FALSE
