SPECIFICATION Spec
CONSTANTS
    r1 = r1
    r2 = r2
    k1 = k1
    k2 = k2
    l1 = l1
    Requests = {r1, r2}
    Keys = {k1, k2}
    CreationKey = CreationKey
    Contents = {c1}
    Leads = {l1}
    Pages <- MCPages
    MaxVersions = 2
    MaxQuoted = 1
    MaxEvents = 3
INVARIANTS
    RetriesAreAnswered
