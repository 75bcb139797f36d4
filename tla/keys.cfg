SPECIFICATION Spec
CONSTANTS
    Keys = {k1, k2}
    Requests = {r1, r2, r3}
    Quotas = {0, 1, 2}
    MaxUpdates = 2
INVARIANTS TypeOK QuotaNeverOverrun ChargedOnce
PROPERTIES AdmissionIsAtomic
