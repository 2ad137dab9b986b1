CONSTANTS
    c1 = c1
    c2 = c2
    w1 = w1
    w2 = w2
    i1 = i1
    i2 = i2
    CPU = {c1, c2}
    BSP = c1
    Worker = {w1, w2}
    Idle = {i1, i2}
    IdleOf <- MCIdleOf
    Sem = {s1}
    priority <- MCPriority
    NoTask = NoTask
    NoCPU = NoCPU
    NoSem = NoSem
    MaxQuota = 1

SPECIFICATION FairSpec

INVARIANTS
    StackExclusive
    EveryTaskInOnePlace
    SwitchUninterrupted
    AssertionsHold

PROPERTIES
    ImplementsSemaphore
    ExLockReleased
