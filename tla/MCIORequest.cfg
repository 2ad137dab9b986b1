CONSTANTS
    owner = owner
    Task = {owner}
    InitialValue = 0
    MaxQuota = 4
    Service = {r1, r2}
    Request = {r1, r2}
    NoRequest = NoRequest

SPECIFICATION IOSpec

INVARIANTS
    CancelledNotClaimed
