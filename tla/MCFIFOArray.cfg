CONSTANTS
    Task = {r1, r2}
    Writer = {w1, w2}
    Data = {d1, d2}
    NoData = NoData
    bufferLength = 2
    InitialValue = 0
    MaxQuota = 5
SPECIFICATION FairSpec
INVARIANTS
    TypeOK
    PermitsMatchElements
    PermittedReaderFindsData
    QuotaBelowLimit
PROPERTIES
    ImplementsQueue
    FirstWaiterServed
