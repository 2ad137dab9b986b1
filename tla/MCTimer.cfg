SPECIFICATION Spec
CONSTANTS
    owner = owner
    d1 = d1
    e1 = e1
    e2 = e2
    NoRequest = NoRequest
    NoEvent = NoEvent
    Task <- MCTask
    Service <- MCService
    TimerEvent <- MCTimerEvent
    Request <- MCRequest
    InitialValue = 0
    MaxQuota = 5
    COUNTDOWN_TICK_MODULAR = 3
    MaxWait = 2
INVARIANTS
    EventsInOrder
    NoLostWakeup
    DrainNeverSleeps
    CancelExcludesService
