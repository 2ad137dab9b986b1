------------------------------ MODULE Semaphore ------------------------------
(***************************************************************************)
(* What the blocking semaphore of kernel/task/exclusivelock.c promises:    *)
(* its critical sections (under exLock.lock) are single steps, and a task  *)
(* that blocks is out of the way until a releaser hands it the permit.     *)
(*                                                                         *)
(* The module is used three ways: its actions are the semaphore steps of   *)
(* FIFOArray and IORequest, and its specification is the one that          *)
(* TaskSwitch (spinlocks, ready queue, context switches) implements.       *)
(***************************************************************************)
EXTENDS Naturals, Sequences

CONSTANTS
    Task,          \* the tasks that call acquireSemaphore on this semaphore
    InitialValue,  \* the argument of createSemaphore
    MaxQuota       \* the bound of the assertion in _releaseSemaphore

ASSUME SemaphoreAssumption ==
    /\ InitialValue \in Nat
    /\ MaxQuota \in Nat

VARIABLES
    quota,      \* Semaphore.quota
    taskQueue,  \* Semaphore.taskQueue, head first
    status      \* where each task stands with respect to acquireSemaphore

semVars == <<quota, taskQueue, status>>

\* "out": not inside a blocking acquireSemaphore; "waiting": in taskQueue;
\* "granted": popped by a releaser, acquireSemaphore has not returned yet.
Status == {"out", "waiting", "granted"}

\* createSemaphore.
SemInit ==
    /\ quota = InitialValue
    /\ taskQueue = <<>>
    /\ status = [t \in Task |-> "out"]

\* acquireSemaphore or tryAcquireSemaphore when a permit is left.
AcquirePermit(t) ==
    /\ status[t] = "out"
    /\ quota >= 1
    /\ quota' = quota - 1
    /\ UNCHANGED <<taskQueue, status>>

\* acquireSemaphore when none is left: the task is queued and switched out.
Block(t) ==
    /\ status[t] = "out"
    /\ quota = 0
    /\ taskQueue' = Append(taskQueue, t)
    /\ status' = [status EXCEPT ![t] = "waiting"]
    /\ UNCHANGED quota

\* A releaser that adds to the quota although a task waits.
ReleaseIgnoringQueue ==
    /\ quota + 1 # MaxQuota
    /\ quota' = quota + 1
    /\ UNCHANGED <<taskQueue, status>>

\* releaseSemaphore: the first waiter gets the permit, quota grows only when
\* nobody waits.
Release ==
    \/ /\ taskQueue = <<>>
       /\ quota + 1 # MaxQuota
       /\ quota' = quota + 1
       /\ UNCHANGED <<taskQueue, status>>
    \/ /\ taskQueue # <<>>
       /\ taskQueue' = Tail(taskQueue)
       /\ status' = [status EXCEPT ![Head(taskQueue)] = "granted"]
       /\ UNCHANGED quota

\* The task popped by a releaser is resumed and acquireSemaphore returns.
ReturnFromBlock(t) ==
    /\ status[t] = "granted"
    /\ status' = [status EXCEPT ![t] = "out"]
    /\ UNCHANGED <<quota, taskQueue>>

SemNext ==
    \/ Release
    \/ \E t \in Task : AcquirePermit(t) \/ Block(t) \/ ReturnFromBlock(t)

SemSpec == SemInit /\ [][SemNext]_semVars

SemTypeOK ==
    /\ quota \in Nat
    /\ taskQueue \in Seq(Task)
    /\ status \in [Task -> Status]

\* The waiting tasks are exactly the queued ones, each queued once.
QueueHoldsWaiters ==
    /\ \A i \in 1..Len(taskQueue) : status[taskQueue[i]] = "waiting"
    /\ \A t \in Task :
          status[t] = "waiting" => \E i \in 1..Len(taskQueue) : taskQueue[i] = t
    /\ \A i, j \in 1..Len(taskQueue) :
          taskQueue[i] = taskQueue[j] => i = j

\* No permit lies idle while a task waits for one: _releaseSemaphore hands the
\* permit to the queue and acquireExLock queues only when quota is 0.
NoIdlePermit == taskQueue # <<>> => quota = 0

SemInv == SemTypeOK /\ QueueHoldsWaiters /\ NoIdlePermit
=============================================================================
