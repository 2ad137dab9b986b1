----------------------------- MODULE TaskSwitch ------------------------------
(***************************************************************************)
(* kernel/task/taskmanager.c and exclusivelock.c: processors that switch   *)
(* between the kernel stacks of tasks, the global ready queue, blocking    *)
(* semaphores, task creation and termination.                              *)
(*                                                                         *)
(* A spinlock section that runs with interrupts off and is not held across *)
(* a context switch is one step.  The two locks that are held across one,  *)
(* globalQueue->lock and exLock.lock, and the interrupt flag that every    *)
(* spinlock saves and restores, are modelled as such.                      *)
(***************************************************************************)
EXTENDS Naturals, Sequences, FiniteSets

CONSTANTS
    CPU,
    Worker,     \* memory for tasks made by createKernelTask
    Idle,       \* the bootstrap tasks made by createTaskManager, one per processor
    IdleOf,     \* [CPU -> Idle]
    BSP,        \* the bootstrap processor, whose idle task runs initService first
    Sem,        \* semaphores
    priority,   \* Task.priority
    NoTask, NoCPU, NoSem,
    MaxQuota    \* bound on a semaphore's quota

Task == Worker \cup Idle

NUMBER_OF_PRIORITIES == 4

ASSUME TaskSwitchAssumption ==
    /\ Worker \cap Idle = {}
    /\ IdleOf \in [CPU -> Idle]
    /\ BSP \in CPU /\ IsFiniteSet(CPU)
    /\ \A c, d \in CPU : IdleOf[c] = IdleOf[d] => c = d
    /\ \A i \in Idle : \E c \in CPU : i = IdleOf[c]
    /\ priority \in [Task -> 0..(NUMBER_OF_PRIORITIES - 1)]
    /\ \A i \in Idle : priority[i] = NUMBER_OF_PRIORITIES - 1
    /\ NoTask \notin Task /\ NoCPU \notin CPU /\ NoSem \notin Sem
    /\ MaxQuota \in Nat

VARIABLES
    globalQueue,  \* globalQueue->taskQueue, by priority
    globalLock,   \* [by |-> the holder of globalQueue->lock, flag |-> interruptFlag]
    state,        \* Task.state
    tm,           \* each processor's TaskManager
    stack,        \* the task whose kernel stack each processor runs on
    intr,         \* the interrupt flag of each processor
    sem,          \* the semaphores, with their ExclusiveLocks
    pc,           \* where each kernel stack is, for the task and for an interrupt on top
    woken,        \* the task about to be resumed by the code at that place
    ptr,          \* callAfterTaskSwitchFunc's pointer to a TaskManager, at that place
    want,         \* the semaphore a task is inside a blocking acquireSemaphore of
    terminateQueue

vars == <<globalQueue, globalLock, state, tm, stack, intr, sem, pc, woken, ptr,
          want, terminateQueue>>

Level == {"task", "irq"}

\* The calls of taskSwitch are made at "enter"; "switch" is before contextSwitch,
\* "after" behind it, "func" behind the release of the global lock, "clear" behind
\* the call of afterTaskSwitchFunc.  A stack that no processor runs on is "saved".
InSwitch == {"enter", "switch", "after", "func", "clear"}

TaskStep == {"free", "run", "lock", "resume", "reap", "leave", "saved"} \cup InSwitch

IrqStep == {"none", "handler", "resume", "saved"} \cup InSwitch

Top(t) == IF pc[<<t, "irq">>] = "none" THEN "task" ELSE "irq"

\* The place in the code that processor c executes.
At(c) == pc[<<stack[c], Top(stack[c])>>]

Goto(c, step) == pc' = [pc EXCEPT ![<<stack[c], Top(stack[c])>>] = step]

NoSwitch == [func |-> "NULL", arg |-> NoSem, old |-> NoTask]

\* initTaskManagement, then createTaskManager and sti on every processor.
Init ==
    /\ globalQueue = [p \in 0..(NUMBER_OF_PRIORITIES - 1) |-> <<>>]
    /\ globalLock = [by |-> NoCPU, flag |-> FALSE]
    /\ state = [t \in Task |-> IF t \in Idle THEN "READY" ELSE "SUSPENDED"]
    /\ tm = [c \in CPU |-> [current |-> IdleOf[c], after |-> NoSwitch]]
    /\ stack = IdleOf
    /\ intr = [c \in CPU |-> TRUE]
    /\ sem = [s \in Sem |-> [quota |-> 0, queue |-> <<>>, locked |-> FALSE,
                             flag |-> FALSE, push |-> FALSE]]
    /\ pc = [x \in Task \X Level |->
                IF x[2] = "irq" THEN "none" ELSE IF x[1] \in Idle THEN "run" ELSE "free"]
    /\ woken = [x \in Task \X Level |-> NoTask]
    /\ ptr = [x \in Task \X Level |-> NoCPU]
    /\ want = [t \in Task |-> NoSem]
    /\ terminateQueue = <<>>

----------------------------------------------------------------------------
\* taskSwitch

\* The first assignments of taskSwitch: interrupts are off and the fields belong to
\* this processor.
EnterSwitch(c, func, arg) ==
    /\ tm' = [tm EXCEPT ![c].after = [func |-> func, arg |-> arg, old |-> tm[c].current]]
    /\ Goto(c, "enter")

\* A queue that takes tasks at its head.
PushFront(q, t) == [q EXCEPT ![priority[t]] = <<t>> \o @]

PushQueue(q, t) == [q EXCEPT ![priority[t]] = Append(@, t)]

NonEmpty(q) == {p \in 0..(NUMBER_OF_PRIORITIES - 1) : q[p] # <<>>}

\* popPriorityQueue: the first task of the first queue that has one.
First(q) == CHOOSE p \in NonEmpty(q) : \A r \in NonEmpty(q) : p <= r

Pick(c, q, by) ==
    LET p == First(q)
        next == Head(q[p])
    IN  /\ NonEmpty(q) # {}
        /\ globalQueue' = [q EXCEPT ![p] = Tail(@)]
        /\ globalLock' = [by |-> by, flag |-> intr[c]]
        /\ intr' = [intr EXCEPT ![c] = FALSE]
        /\ tm' = [tm EXCEPT ![c].current = next]
        /\ Goto(c, IF next = tm[c].after.old THEN "after" ELSE "switch")

\* globalQueue->lock given back before contextSwitch.
TakeNextUnlocked(c) ==
    LET old == tm[c].after.old
        preempted == tm[c].after.func = "NULL"
    IN  /\ At(c) = "enter"
        /\ globalLock.by = NoCPU
        /\ state' = IF preempted THEN state ELSE [state EXCEPT ![old] = "SUSPENDED"]
        /\ Pick(c, IF preempted THEN PushQueue(globalQueue, old) ELSE globalQueue, NoCPU)
        /\ UNCHANGED <<stack, sem, woken, ptr, want, terminateQueue>>

\* taskSwitch up to contextSwitch: take the global lock, give up the old task, pick
\* the next one.  Without another task to run the context is not switched.
TakeNext(c) ==
    LET old == tm[c].after.old
        preempted == tm[c].after.func = "NULL"
    IN  /\ At(c) = "enter"
        /\ globalLock.by = NoCPU
        /\ state' = IF preempted THEN state ELSE [state EXCEPT ![old] = "SUSPENDED"]
        /\ Pick(c, IF preempted THEN PushQueue(globalQueue, old) ELSE globalQueue, c)
        /\ UNCHANGED <<stack, sem, woken, ptr, want, terminateQueue>>

\* contextSwitch: the old stack is complete, the processor continues on the other.
ContextSwitch(c) ==
    LET old == stack[c]
        new == tm[c].current
    IN  /\ At(c) = "switch"
        /\ pc' = [pc EXCEPT ![<<old, Top(old)>>] = "saved", ![<<new, Top(new)>>] = "after"]
        /\ stack' = [stack EXCEPT ![c] = new]
        /\ UNCHANGED <<globalQueue, globalLock, state, tm, intr, sem, woken, ptr,
                       want, terminateQueue>>

\* callAfterTaskSwitchFunc, on the stack of the new task: release the global lock.
ReleaseGlobal(c) ==
    /\ At(c) = "after"
    /\ intr' = [intr EXCEPT ![c] = globalLock.flag]
    /\ globalLock' = [globalLock EXCEPT !.by = NoCPU]
    /\ Goto(c, "func")
    /\ ptr' = [ptr EXCEPT ![<<stack[c], Top(stack[c])>>] = c]
    /\ UNCHANGED <<globalQueue, state, tm, stack, sem, woken, want, terminateQueue>>

\* A callback that queues the task but keeps exLock.lock.
KeepExLock(c) ==
    LET s == tm[c].after.arg
    IN  /\ tm[c].after.func = "afterExLock"
        /\ sem' = [sem EXCEPT ![s].queue = Append(@, tm[c].after.old), ![s].push = FALSE]
        /\ UNCHANGED <<intr, terminateQueue>>

\* afterExLock: the old task becomes visible to releasers.
afterExLock(c) ==
    LET s == tm[c].after.arg
    IN  /\ tm[c].after.func = "afterExLock"
        /\ sem' = [sem EXCEPT ![s].queue = Append(@, tm[c].after.old), ![s].push = FALSE,
                              ![s].locked = FALSE]
        /\ intr' = [intr EXCEPT ![c] = sem[s].flag]
        /\ UNCHANGED terminateQueue

\* pushTerminateQueue: the old task becomes visible to clearTerminateQueue.
pushTerminateQueue(c) ==
    /\ tm[c].after.func = "pushTerminateQueue"
    /\ terminateQueue' = Append(terminateQueue, tm[c].after.old)
    /\ UNCHANGED <<sem, intr>>

\* The call of afterTaskSwitchFunc.
CallAfter(c) ==
    /\ At(c) = "func"
    /\ \/ tm[c].after.func = "NULL" /\ UNCHANGED <<sem, intr, terminateQueue>>
       \/ afterExLock(c)
       \/ pushTerminateQueue(c)
    /\ Goto(c, "clear")
    /\ UNCHANGED <<globalQueue, globalLock, state, tm, stack, woken, ptr, want>>

\* The rest of callAfterTaskSwitchFunc, and the way back: from acquireExLock or
\* startTask with sti, from the timer's handler with iret.
FinishSwitch(c) ==
    /\ At(c) = "clear"
    /\ tm' = [tm EXCEPT ![ptr[<<stack[c], Top(stack[c])>>]].after = NoSwitch]
    /\ ptr' = [ptr EXCEPT ![<<stack[c], Top(stack[c])>>] = NoCPU]
    /\ intr' = [intr EXCEPT ![c] = TRUE]
    /\ \/ /\ Top(stack[c]) = "task"
          /\ Goto(c, "run")
          /\ want' = [want EXCEPT ![stack[c]] = NoSem]
       \/ /\ Top(stack[c]) = "irq"
          /\ Goto(c, "none")
          /\ UNCHANGED want
    /\ UNCHANGED <<globalQueue, globalLock, state, stack, sem, woken, terminateQueue>>

----------------------------------------------------------------------------
\* Interrupts

\* A device's or the timer's handler starts on the stack of whatever runs.
Interrupt(c) ==
    /\ intr[c]
    /\ Top(stack[c]) = "task"
    /\ pc' = [pc EXCEPT ![<<stack[c], "irq">>] = "handler"]
    /\ intr' = [intr EXCEPT ![c] = FALSE]
    /\ UNCHANGED <<globalQueue, globalLock, state, tm, stack, sem, woken, ptr, want,
                   terminateQueue>>

ReturnFromInterrupt(c) ==
    /\ At(c) = "handler"
    /\ Goto(c, "none")
    /\ intr' = [intr EXCEPT ![c] = TRUE]
    /\ UNCHANGED <<globalQueue, globalLock, state, tm, stack, sem, woken, ptr, want,
                   terminateQueue>>

\* timerHandler calls schedule, which is taskSwitch(NULL, 0).
schedule(c) ==
    /\ At(c) = "handler"
    /\ EnterSwitch(c, "NULL", NoSem)
    /\ UNCHANGED <<globalQueue, globalLock, state, stack, intr, sem, woken, ptr, want,
                   terminateQueue>>

----------------------------------------------------------------------------
\* Semaphores

\* acquireExLock without the first cli: the spinlock saves the flag as it finds it.
AcquireWithoutCli(c, s) ==
    /\ At(c) = "run" /\ stack[c] \in Worker
    /\ want' = [want EXCEPT ![stack[c]] = s]
    /\ Goto(c, "lock")
    /\ UNCHANGED <<globalQueue, globalLock, state, tm, stack, intr, sem, woken, ptr,
                   terminateQueue>>

\* Idle tasks that block like any other.
AcquireByAnyone(c, s) ==
    /\ At(c) = "run"
    /\ want' = [want EXCEPT ![stack[c]] = s]
    /\ intr' = [intr EXCEPT ![c] = FALSE]
    /\ Goto(c, "lock")
    /\ UNCHANGED <<globalQueue, globalLock, state, tm, stack, sem, woken, ptr, terminateQueue>>

\* acquireSemaphore, up to acquireLock: from here the processor spins with
\* interrupts off.  The idle tasks never call it.
BeginAcquire(c, s) ==
    /\ At(c) = "run" /\ stack[c] \in Worker
    /\ want' = [want EXCEPT ![stack[c]] = s]
    /\ intr' = [intr EXCEPT ![c] = FALSE]
    /\ Goto(c, "lock")
    /\ UNCHANGED <<globalQueue, globalLock, state, tm, stack, sem, woken, ptr, terminateQueue>>

\* acquireLock succeeds and a permit is left.
AcquireSucceeds(c) ==
    LET t == stack[c]
        s == want[t]
    IN  /\ At(c) = "lock" /\ ~sem[s].locked
        /\ sem[s].quota >= 1
        /\ sem' = [sem EXCEPT ![s].quota = @ - 1]
        /\ want' = [want EXCEPT ![t] = NoSem]
        /\ intr' = [intr EXCEPT ![c] = TRUE]
        /\ Goto(c, "run")
        /\ UNCHANGED <<globalQueue, globalLock, state, tm, stack, woken, ptr, terminateQueue>>

\* acquireLock succeeds and none is left: tryAcquireSemaphore gives up.
TryAcquireFails(c) ==
    LET t == stack[c]
        s == want[t]
    IN  /\ At(c) = "lock" /\ ~sem[s].locked
        /\ sem[s].quota < 1
        /\ want' = [want EXCEPT ![t] = NoSem]
        /\ intr' = [intr EXCEPT ![c] = TRUE]
        /\ Goto(c, "run")
        /\ UNCHANGED <<globalQueue, globalLock, state, tm, stack, sem, woken, ptr, terminateQueue>>

\* ... and acquireSemaphore switches to another task with exLock.lock held.
AcquireBlocks(c) ==
    LET s == want[stack[c]]
    IN  /\ At(c) = "lock" /\ ~sem[s].locked
        /\ sem[s].quota < 1
        /\ sem' = [sem EXCEPT ![s].locked = TRUE, ![s].flag = intr[c], ![s].push = TRUE]
        /\ intr' = [intr EXCEPT ![c] = FALSE]
        /\ EnterSwitch(c, "afterExLock", s)
        /\ UNCHANGED <<globalQueue, globalLock, state, stack, woken, ptr, want, terminateQueue>>

\* A release that does not respect exLock.lock.
ReleaseUnlocked(c, s) ==
    /\ At(c) = "handler" \/ (At(c) = "run" /\ stack[c] \in Worker)
    /\ \/ /\ sem[s].queue = <<>>
          /\ sem[s].quota < MaxQuota
          /\ sem' = [sem EXCEPT ![s].quota = @ + 1]
          /\ UNCHANGED <<woken, pc>>
       \/ /\ sem[s].queue # <<>>
          /\ sem' = [sem EXCEPT ![s].queue = Tail(@)]
          /\ woken' = [woken EXCEPT ![<<stack[c], Top(stack[c])>>] = Head(sem[s].queue)]
          /\ Goto(c, "resume")
    /\ UNCHANGED <<globalQueue, globalLock, state, tm, stack, intr, ptr, want, terminateQueue>>

\* releaseExLock, by a task or by an interrupt handler, up to the call of resume.
releaseSemaphore(c, s) ==
    /\ At(c) = "handler" \/ (At(c) = "run" /\ stack[c] \in Worker)
    /\ ~sem[s].locked
    /\ \/ /\ sem[s].queue = <<>>
          /\ sem[s].quota < MaxQuota
          /\ sem' = [sem EXCEPT ![s].quota = @ + 1]
          /\ UNCHANGED <<woken, pc>>
       \/ /\ sem[s].queue # <<>>
          /\ sem' = [sem EXCEPT ![s].queue = Tail(@)]
          /\ woken' = [woken EXCEPT ![<<stack[c], Top(stack[c])>>] = Head(sem[s].queue)]
          /\ Goto(c, "resume")
    /\ UNCHANGED <<globalQueue, globalLock, state, tm, stack, intr, ptr, want, terminateQueue>>

\* resume: the popped or new task joins the ready queue.
resume(c) ==
    LET x == <<stack[c], Top(stack[c])>>
        t == woken[x]
    IN  /\ At(c) = "resume"
        /\ globalLock.by = NoCPU
        /\ state' = [state EXCEPT ![t] = "READY"]
        /\ globalQueue' = PushQueue(globalQueue, t)
        /\ woken' = [woken EXCEPT ![x] = NoTask]
        /\ Goto(c, IF x[2] = "task" THEN "run" ELSE "handler")
        /\ UNCHANGED <<globalLock, tm, stack, intr, sem, ptr, want, terminateQueue>>

----------------------------------------------------------------------------
\* Creation and termination

\* createKernelTask, then resume: the new stack looks like a saved one.
createKernelTask(c, t) ==
    /\ At(c) = "run" /\ stack[c] \in Worker \cup {IdleOf[BSP]}
    /\ pc[<<t, "task">>] = "free"
    /\ pc' = [pc EXCEPT ![<<stack[c], "task">>] = "resume", ![<<t, "task">>] = "saved"]
    /\ state' = [state EXCEPT ![t] = "SUSPENDED"]
    /\ woken' = [woken EXCEPT ![<<stack[c], "task">>] = t]
    /\ UNCHANGED <<globalQueue, globalLock, tm, stack, intr, sem, ptr, want, terminateQueue>>

\* terminateCurrentTask, at clearTerminateQueue.
BeginTerminate(c) ==
    /\ At(c) = "run" /\ stack[c] \in Worker
    /\ Goto(c, "reap")
    /\ UNCHANGED <<globalQueue, globalLock, state, tm, stack, intr, sem, woken, ptr, want,
                   terminateQueue>>

\* One turn of clearTerminateQueue: the stack and the Task are freed.
ClearTerminateQueue(c) ==
    LET t == Head(terminateQueue)
    IN  /\ At(c) = "reap"
        /\ terminateQueue # <<>>
        /\ terminateQueue' = Tail(terminateQueue)
        /\ pc' = [pc EXCEPT ![<<t, "task">>] = "free"]
        /\ UNCHANGED <<globalQueue, globalLock, state, tm, stack, intr, sem, woken, ptr, want>>

\* popQueue found the queue empty; the task goes on without the lock of the queue, into
\* which other tasks may be put from here on.
EndOfTerminateQueue(c) ==
    /\ At(c) = "reap"
    /\ terminateQueue = <<>>
    /\ Goto(c, "leave")
    /\ UNCHANGED <<globalQueue, globalLock, state, tm, stack, intr, sem, woken, ptr, want,
                   terminateQueue>>

\* A task that puts itself into the terminate queue while it still runs.
QueueSelf(c) ==
    /\ At(c) = "leave"
    /\ terminateQueue' = Append(terminateQueue, tm[c].current)
    /\ intr' = [intr EXCEPT ![c] = FALSE]
    /\ EnterSwitch(c, "NULL", NoSem)
    /\ UNCHANGED <<globalQueue, globalLock, state, stack, sem, woken, ptr, want>>

\* The end of terminateCurrentTask: cli and taskSwitch.
LastSwitch(c) ==
    /\ At(c) = "leave"
    /\ intr' = [intr EXCEPT ![c] = FALSE]
    /\ EnterSwitch(c, "pushTerminateQueue", NoSem)
    /\ UNCHANGED <<globalQueue, globalLock, state, stack, sem, woken, ptr, want, terminateQueue>>

----------------------------------------------------------------------------

SwitchStep(c) ==
    \/ TakeNext(c)
    \/ ContextSwitch(c)
    \/ ReleaseGlobal(c)
    \/ CallAfter(c)
    \/ FinishSwitch(c)

AcquireStep(c) ==
    \/ AcquireSucceeds(c)
    \/ TryAcquireFails(c)
    \/ AcquireBlocks(c)

TaskNext(c) ==
    \/ \E s \in Sem : BeginAcquire(c, s) \/ releaseSemaphore(c, s)
    \/ AcquireStep(c)
    \/ resume(c)
    \/ \E t \in Worker : createKernelTask(c, t)
    \/ BeginTerminate(c)
    \/ ClearTerminateQueue(c)
    \/ EndOfTerminateQueue(c)
    \/ LastSwitch(c)

InterruptNext(c) ==
    \/ Interrupt(c)
    \/ ReturnFromInterrupt(c)
    \/ schedule(c)

Next == \E c \in CPU : SwitchStep(c) \/ TaskNext(c) \/ InterruptNext(c)

Spec == Init /\ [][Next]_vars

\* The places where a processor spins for a lock.
SpinStep(c) == TakeNext(c) \/ AcquireStep(c) \/ resume(c)

\* A processor inside taskSwitch goes on, one that spins on a lock which keeps becoming
\* free gets it, and timer interrupts keep coming.  No task has to call anything.
Fairness ==
    \A c \in CPU :
        /\ WF_vars(SwitchStep(c))
        /\ SF_vars(SpinStep(c))
        /\ SF_vars(schedule(c))
        /\ SF_vars(Interrupt(c))

FairSpec == Spec /\ Fairness

----------------------------------------------------------------------------
\* Properties

Switch == [func : {"NULL", "afterExLock", "pushTerminateQueue"}, arg : Sem \cup {NoSem},
           old : Task \cup {NoTask}]

TypeOK ==
    /\ globalQueue \in [0..(NUMBER_OF_PRIORITIES - 1) -> Seq(Task)]
    /\ globalLock \in [by : CPU \cup {NoCPU}, flag : BOOLEAN]
    /\ state \in [Task -> {"READY", "SUSPENDED"}]
    /\ tm \in [CPU -> [current : Task, after : Switch]]
    /\ stack \in [CPU -> Task]
    /\ intr \in [CPU -> BOOLEAN]
    /\ sem \in [Sem -> [quota : 0..MaxQuota, queue : Seq(Worker), locked : BOOLEAN,
                        flag : BOOLEAN, push : BOOLEAN]]
    /\ pc \in [Task \X Level -> TaskStep \cup IrqStep]
    /\ woken \in [Task \X Level -> Worker \cup {NoTask}]
    /\ ptr \in [Task \X Level -> CPU \cup {NoCPU}]
    /\ want \in [Task -> Sem \cup {NoSem}]
    /\ terminateQueue \in Seq(Worker)

\* Two processors never run on one kernel stack, and the stack a processor is about
\* to switch to is complete: contextSwitch has stored its esp0 ("if releaseLock()
\* before contextSwitch(), the stack sometimes becomes corrupted").
StackExclusive ==
    \A c \in CPU :
        /\ \A d \in CPU : stack[c] = stack[d] => c = d
        /\ At(c) = "switch" => pc[<<tm[c].current, Top(tm[c].current)>>] = "saved"

Positions(t, q) == {i \in 1..Len(q) : q[i] = t}

\* The processors that took t off and have not handed it to their callback.
InTransit(t) ==
    {c \in CPU : /\ At(c) \in {"switch", "after", "func"}
                 /\ tm[c].after.func # "NULL"
                 /\ tm[c].after.old = t}

\* Where a task is for the scheduler.
Places(t) ==
    UNION {{<<"current", c, 1>> : c \in {d \in CPU : tm[d].current = t}},
           UNION {{<<"ready", p, i>> : i \in Positions(t, globalQueue[p])} :
                     p \in 0..(NUMBER_OF_PRIORITIES - 1)},
           {<<"transit", c, 1>> : c \in InTransit(t)},
           UNION {{<<"waiting", s, i>> : i \in Positions(t, sem[s].queue)} : s \in Sem},
           {<<"woken", x, 1>> : x \in {y \in Task \X Level : woken[y] = t}},
           {<<"terminated", 1, i>> : i \in Positions(t, terminateQueue)}}

\* No task is lost or queued twice: a live task is current on one processor, or in one
\* place of one queue, or with the one processor that moves it between the two.  A
\* freed one is nowhere.
EveryTaskInOnePlace ==
    /\ TypeOK
    /\ \A t \in Task :
           IF pc[<<t, "task">>] = "free" THEN Places(t) = {}
                                         ELSE \E x \in Places(t) : Places(t) = {x}

\* Interrupts stay off from the call of taskSwitch to the end of
\* callAfterTaskSwitchFunc, whichever spinlocks are released on the way with whatever
\* interrupt flag they saved, so the TaskManager in use is the processor's own.
SwitchUninterrupted ==
    \A c \in CPU :
        /\ At(c) \in InSwitch => ~intr[c]
        /\ At(c) \in {"func", "clear"} => ptr[<<stack[c], Top(stack[c])>>] = c

\* The assertions of popPriorityQueue, resume, clearTerminateQueue, acquireExLock and
\* afterExLock.  The first one: with an idle task per processor that never blocks, a
\* processor that gives up its task always finds another one.
AssertionsHold ==
    /\ \A c \in CPU :
          At(c) = "enter" /\ tm[c].after.func # "NULL" => NonEmpty(globalQueue) # {}
    /\ \A x \in Task \X Level : woken[x] # NoTask => state[woken[x]] = "SUSPENDED"
    /\ \A i \in 1..Len(terminateQueue) : state[terminateQueue[i]] = "SUSPENDED"
    /\ \A s \in Sem : sem[s].push <=> sem[s].locked

\* An exLock.lock that is held across a task switch is released again, on the stack
\* of another task.
ExLockReleased == \A s \in Sem : sem[s].locked ~> ~sem[s].locked

\* A task that was resumed runs again, when all tasks but the idle ones have the same
\* priority: no task monopolises a processor, and no processor spins for ever with
\* interrupts off.
ResumedTaskRuns ==
    \A t \in Worker :
        Positions(t, globalQueue[priority[t]]) # {} ~> \E c \in CPU : stack[c] = t
=============================================================================
