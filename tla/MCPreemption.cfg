CONSTANTS
    c1 = c1
    w1 = w1
    w2 = w2
    i1 = i1
    CPU = {c1}
    BSP = c1
    Worker = {w1, w2}
    Idle = {i1}
    IdleOf <- MCIdleOf
    Sem = {s1}
    priority <- MCPriority
    NoTask = NoTask
    NoCPU = NoCPU
    NoSem = NoSem
    MaxQuota = 1

SPECIFICATION FairSpec

PROPERTIES
    ResumedTaskRuns
