SPECIFICATION FairSpec
CONSTANTS
    owner = owner
    d1 = d1
    e1 = e1
    e2 = e2
    NoRequest = NoRequest
    NoEvent = NoEvent
    Task <- MCTask
    Service <- MCNoService
    TimerEvent <- MCTimerEvent
    Request <- MCTimerEvent
    InitialValue = 0
    MaxQuota = 4
    COUNTDOWN_TICK_MODULAR = 3
    MaxWait = 2
PROPERTIES
    AlarmWakesOwner
