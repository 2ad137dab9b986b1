------------------------ MODULE TaskSwitchRefinement ------------------------
(***************************************************************************)
(* The semaphores of TaskSwitch, which block by switching tasks, implement *)
(* the atomic ones of Semaphore.                                           *)
(***************************************************************************)
EXTENDS TaskSwitch

\* The task that holds s's exLock.lock on its way into the queue.
Blocking(s) ==
    {t \in Worker : \E c \in CPU : /\ At(c) \in InSwitch \ {"clear"}
                                   /\ tm[c].after = [func |-> "afterExLock", arg |-> s, old |-> t]}

AbstractQueue(s) ==
    IF Blocking(s) = {} THEN sem[s].queue
                        ELSE Append(sem[s].queue, CHOOSE t \in Blocking(s) : TRUE)

AbstractStatus(s) ==
    [t \in Worker |->
        IF \E i \in 1..Len(AbstractQueue(s)) : AbstractQueue(s)[i] = t THEN "waiting"
        ELSE IF want[t] = s /\ pc[<<t, "task">>] # "lock" THEN "granted"
        ELSE "out"]

Abstract(s) ==
    INSTANCE Semaphore
        WITH Task <- Worker, InitialValue <- 0, MaxQuota <- MaxQuota + 1,
             quota <- sem[s].quota, taskQueue <- AbstractQueue(s),
             status <- AbstractStatus(s)

\* Blocking by switching tasks while exLock.lock is held is the atomic semaphore:
\* nobody releases between a failed acquire and the queueing of the task.
ImplementsSemaphore ==
    /\ \A s \in Sem : Abstract(s)!SemInit
    /\ [][\A s \in Sem : [Abstract(s)!SemNext]_(Abstract(s)!semVars)]_vars
=============================================================================
