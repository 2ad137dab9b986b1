-------------------------------- MODULE Timer ---------------------------------
(***************************************************************************)
(* kernel/io/timer.c composed with the IORequests of the task that sets    *)
(* the alarms: the processor's list of timer events, the timer interrupt   *)
(* that completes them, and the owner, which may run on another processor. *)
(* The interrupt holds the list's lock from its first to its last step.    *)
(***************************************************************************)
EXTENDS IORequest, Integers, FiniteSets

CONSTANTS
    TimerEvent,              \* the memory for timer events
    COUNTDOWN_TICK_MODULAR,  \* 2^50 in the code
    MaxWait,                 \* the longest alarm that is set
    NoEvent

ASSUME TimerAssumption ==
    /\ Request = Service \cup TimerEvent
    /\ Service \cap TimerEvent = {}
    /\ NoEvent \notin TimerEvent
    /\ MaxWait \in Nat \ {0}
    /\ COUNTDOWN_TICK_MODULAR \in Nat
    /\ MaxWait < COUNTDOWN_TICK_MODULAR

VARIABLES
    currentTick,     \* TimerEventList.currentTick
    timerList,       \* TimerEventList.head, a sequence of events
    countdownTicks,  \* of each event
    tickPeriod,      \* of each event, 0 for a one-shot alarm
    isSentToTask,    \* of each event
    tick,            \* where the timer interrupt is, "idle" when it is not running
    curr             \* its variable curr

timerVars == <<currentTick, timerList, countdownTicks, tickPeriod, isSentToTask>>
tickVars == <<tick, curr>>
vars == <<ioVars, timerVars, tickVars>>

\* "loop": at the top of handleTimerEvents' loop; "release": in completeIO, before
\* releaseSemaphore; "again": after completeIO.
TickStep == {"idle", "loop", "release", "again"}

Init ==
    /\ IOInit
    /\ currentTick = 0
    /\ timerList = <<>>
    /\ countdownTicks = [e \in TimerEvent |-> 0]
    /\ tickPeriod = [e \in TimerEvent |-> 0]
    /\ isSentToTask = [e \in TimerEvent |-> FALSE]
    /\ tick = "idle"
    /\ curr = NoEvent

----------------------------------------------------------------------------
\* The list

\* waitTicks2 of addTimerEvent_noLock.
Remaining(e) ==
    (countdownTicks[e] + COUNTDOWN_TICK_MODULAR - currentTick) % COUNTDOWN_TICK_MODULAR

\* A search that compares the countdowns themselves.
PrecedingByCountdown(waitTicks) ==
    {i \in 1..Len(timerList) :
        \A j \in 1..i : countdownTicks[timerList[j]] < currentTick + waitTicks}

\* The events that the search passes by: it stops at the first that is not sooner.
Preceding(waitTicks) ==
    {i \in 1..Len(timerList) : \A j \in 1..i : Remaining(timerList[j]) < waitTicks}

addTimerEvent(e, waitTicks) ==
    LET n == Cardinality(Preceding(waitTicks))
    IN  /\ timerList' = SubSeq(timerList, 1, n) \o <<e>> \o
                        SubSeq(timerList, n + 1, Len(timerList))
        /\ countdownTicks' = [countdownTicks EXCEPT ![e] =
                                (currentTick + waitTicks) % COUNTDOWN_TICK_MODULAR]
        /\ isSentToTask' = [isSentToTask EXCEPT ![e] = FALSE]

----------------------------------------------------------------------------
\* The owner

\* setAlarmHandler runs with interrupts off on the processor whose timer it uses.
setAlarm(e, ticks, isPeriodic) ==
    /\ At("run") /\ tick = "idle"
    /\ e \notin allocated
    /\ allocated' = allocated \cup {e}
    /\ pendIO(e)
    /\ cancellable' = [cancellable EXCEPT ![e] = TRUE]
    /\ tickPeriod' = [tickPeriod EXCEPT ![e] = IF isPeriodic THEN ticks ELSE 0]
    /\ addTimerEvent(e, ticks)
    /\ UNCHANGED <<semVars, service, ownerVars, fault, currentTick, tickVars>>

\* The memory is freed and what it held is forgotten.
DELETE(e) ==
    /\ allocated' = allocated \ {e}
    /\ countdownTicks' = [countdownTicks EXCEPT ![e] = 0]
    /\ tickPeriod' = [tickPeriod EXCEPT ![e] = 0]
    /\ isSentToTask' = [isSentToTask EXCEPT ![e] = FALSE]

cancelTimerEvent ==
    /\ At("cancel") /\ req \in TimerEvent /\ tick = "idle"
    /\ timerList' = Without(timerList, req)
    /\ DELETE(req)
    /\ Return
    /\ UNCHANGED <<semVars, listVars, service, fault, currentTick, tickVars>>

\* acceptTimerEvent: a one-shot event is deleted without the list's lock, a periodic
\* one is pended again.
acceptTimerEvent ==
    /\ At("accept") /\ req \in TimerEvent
    /\ \/ /\ tickPeriod[req] = 0
          /\ DELETE(req)
          /\ UNCHANGED listVars
       \/ /\ tickPeriod[req] > 0
          /\ tick = "idle"
          /\ cancellable' = [cancellable EXCEPT ![req] = TRUE]
          /\ pendIO(req)
          /\ isSentToTask' = [isSentToTask EXCEPT ![req] = FALSE]
          /\ UNCHANGED <<allocated, countdownTicks, tickPeriod>>
    /\ Return
    /\ UNCHANGED <<semVars, service, fault, currentTick, timerList, tickVars>>

----------------------------------------------------------------------------
\* The timer interrupt, handleTimerEvents

\* MaxQuota bounds the completions that the owner has not waited for.
TimerInterrupt ==
    /\ fault = "none" /\ tick = "idle"
    /\ quota + Cardinality(Request) < MaxQuota
    /\ tick' = "loop"
    /\ UNCHANGED <<ioVars, timerVars, curr>>

\* The first event expires at this tick.
Due == timerList # <<>> /\ countdownTicks[Head(timerList)] = currentTick

\* An event of this tick is removed and, unless it was sent already, completed.
Expire ==
    /\ fault = "none" /\ tick = "loop"
    /\ Due
    /\ curr' = Head(timerList)
    /\ timerList' = Tail(timerList)
    /\ IF isSentToTask[curr'] THEN
            /\ tick' = "again"
            /\ UNCHANGED <<isSentToTask, listVars, fault>>
       ELSE /\ isSentToTask' = [isSentToTask EXCEPT ![curr'] = TRUE]
            /\ completeList(curr')
            /\ tick' = "release"
    /\ UNCHANGED <<semVars, allocated, service, ownerVars, currentTick, countdownTicks,
                   tickPeriod>>

ReleaseEvent ==
    /\ fault = "none" /\ tick = "release"
    /\ completeRelease
    /\ tick' = "again"
    /\ UNCHANGED <<listVars, allocated, service, ownerVars, timerVars, curr>>

\* The end of the loop's body.  An event that was accepted since it was completed may
\* be deleted already.
AddAgain ==
    /\ fault = "none" /\ tick = "again"
    /\ \/ /\ curr \notin allocated
          /\ fault' = "freed"
          /\ UNCHANGED <<timerList, countdownTicks, isSentToTask>>
       \/ /\ curr \in allocated
          /\ UNCHANGED fault
          /\ IF tickPeriod[curr] > 0 THEN addTimerEvent(curr, tickPeriod[curr])
             ELSE UNCHANGED <<timerList, countdownTicks, isSentToTask>>
    /\ tick' = "loop"
    /\ curr' = NoEvent
    /\ UNCHANGED <<semVars, listVars, allocated, service, ownerVars, currentTick, tickPeriod>>

TickEnds ==
    /\ fault = "none" /\ tick = "loop"
    /\ ~Due
    /\ currentTick' = (currentTick + 1) % COUNTDOWN_TICK_MODULAR
    /\ tick' = "idle"
    /\ UNCHANGED <<ioVars, timerList, countdownTicks, tickPeriod, isSentToTask, curr>>

----------------------------------------------------------------------------

TimerOwnerNext ==
    \/ \E e \in TimerEvent, ticks \in 1..MaxWait, isPeriodic \in BOOLEAN :
          setAlarm(e, ticks, isPeriodic)
    \/ cancelTimerEvent
    \/ acceptTimerEvent

TickNext == TimerInterrupt \/ Expire \/ ReleaseEvent \/ AddAgain \/ TickEnds

OnlyIO == UNCHANGED <<timerVars, tickVars>>

IOStep ==
    \/ \E r \in Service :
          \/ Submit(r) /\ OnlyIO
          \/ Claim(r) /\ OnlyIO
          \/ ServiceCompletes(r) /\ OnlyIO
          \/ ServiceReleases(r) /\ OnlyIO
    \/ \E r \in Request : cancelIO(r) /\ OnlyIO
    \/ \E r \in Request \cup {NoRequest} : WaitIO(r) /\ OnlyIO
    \/ ReadValue /\ OnlyIO
    \/ Drain /\ OnlyIO
    \/ Scan /\ OnlyIO
    \/ WaitSemaphore /\ OnlyIO
    \/ Terminate /\ OnlyIO
    \/ NextRequest /\ OnlyIO
    \/ tryCancelIO /\ OnlyIO
    \/ ServiceCancel /\ OnlyIO
    \/ ServiceAccept /\ OnlyIO
    \/ Stopped /\ OnlyIO

Next == IOStep \/ TimerOwnerNext \/ TickNext

Spec == Init /\ [][Next]_vars

\* The timer ticks, a claimed request is completed, and a waiting owner runs when it is
\* ready.
Fairness ==
    /\ WF_vars(TickNext)
    /\ WF_vars(WaitNext /\ OnlyIO)
    /\ \A r \in Service : WF_vars((ServiceCompletes(r) \/ ServiceReleases(r)) /\ OnlyIO)

FairSpec == Spec /\ Fairness

----------------------------------------------------------------------------
\* Properties

TypeOK ==
    /\ IOTypeOK
    /\ currentTick \in 0..COUNTDOWN_TICK_MODULAR - 1
    /\ timerList \in Seq(TimerEvent)
    /\ countdownTicks \in [TimerEvent -> 0..COUNTDOWN_TICK_MODULAR - 1]
    /\ tickPeriod \in [TimerEvent -> 0..MaxWait]
    /\ isSentToTask \in [TimerEvent -> BOOLEAN]
    /\ tick \in TickStep
    /\ curr \in TimerEvent \cup {NoEvent}

\* The list holds no event that acceptTimerEvent or cancelTimerEvent has deleted, and
\* none twice.  addTimerEvent_noLock keeps it in the order of expiry across the wrap-around
\* of currentTick, and handleTimerEvents, which looks only at the head, leaves no event
\* behind: none ever has longer to wait than the longest alarm.
EventsInOrder ==
    /\ TypeOK
    /\ \A j \in 1..Len(timerList) :
          /\ timerList[j] \in allocated
          /\ Remaining(timerList[j]) <= MaxWait
          /\ \A i \in 1..j - 1 : /\ timerList[i] # timerList[j]
                                 /\ Remaining(timerList[i]) <= Remaining(timerList[j])

\* A thread is between the two parts of completeIO.
Completing == tick = "release" \/ \E r \in Service : service[r] = "release"

\* _waitIO drains ioSemaphore and then sleeps on it: an owner sleeps beside the request
\* that it waits for only until the completer, which has put it into the completed list,
\* releases the semaphore.
NoLostWakeup == status[owner] = "waiting" /\ Found => Completing

\* "assume this is the only function acquiring ioSemaphore" (_waitIO): the first loop
\* finds the permits that getSemaphoreValue has counted and never sleeps.
DrainNeverSleeps == pc = "drain" => drain <= quota

\* A task that waits for an alarm gets it, unless an assertion fails.
AlarmWakesOwner ==
    \A e \in TimerEvent :
        (pc = "value" /\ req = e) ~> (pc = "accept" \/ fault # "none")

\* completeIO: "assert(IS_IN_DQUEUE(ior) != 0)".  A timer event that expires is in a
\* list of its task.
ExpiredEventIsListed == fault # "completeIO"
=============================================================================
