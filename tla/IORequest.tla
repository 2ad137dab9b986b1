------------------------------ MODULE IORequest -------------------------------
(***************************************************************************)
(* The IORequests of one task (kernel/task/taskmanager.c, ioservice.h):    *)
(* the task that submits, waits for, cancels and accepts them and finally  *)
(* terminates, and the threads that complete them.  The critical sections  *)
(* of ioListLock are single steps, the semaphore is module Semaphore.      *)
(*                                                                         *)
(* The requests in Service are handled as kernel/resource/resource.c does: *)
(* they stay in a list of the service until it makes them not cancellable. *)
(* Module Timer adds timer events.                                         *)
(***************************************************************************)
EXTENDS Semaphore

CONSTANTS
    owner,      \* the task, Task = {owner}
    Service,    \* the memory for requests to a service
    Request,    \* all of the task's requests
    NoRequest

ASSUME IORequestAssumption ==
    /\ Task = {owner}
    /\ Service \subseteq Request
    /\ NoRequest \notin Request
    /\ InitialValue = 0

VARIABLES
    pendingIOList, completedIOList,  \* Task.pendingIOList, Task.completedIOList
    cancellable,  \* IORequest.cancellable
    allocated,    \* the requests that exist
    service,      \* how far the service is with each request
    pc,           \* where the owner is
    req,          \* the request it waits for, accepts or cancels
    drain,        \* the variable v of _waitIO
    ending,       \* in cancelAllIORequests
    fault         \* an assertion that failed, or memory used after it was freed

ownerVars == <<pc, req, drain, ending>>
listVars == <<pendingIOList, completedIOList, cancellable>>
ioVars == <<semVars, listVars, allocated, service, ownerVars, fault>>

\* "value": at getSemaphoreValue; "drain": acquiring v times; "scan": before searching
\* the completed list; "acquire": at acquireSemaphore; "next": at the top of the loop of
\* cancelAllIORequests; "dead": ioSemaphore is deleted.
OwnerStep == {"run", "value", "drain", "scan", "acquire", "accept", "cancel", "next",
              "tryCancel", "dead"}

\* "release": completed and removed from the list, ioSemaphore not released yet.
ServiceStep == {"none", "queued", "claimed", "release"}

Fault == {"none", "completeIO", "semaphore", "freed"}

Contains(list, r) == \E i \in 1..Len(list) : list[i] = r

\* REMOVE_FROM_DQUEUE: the list without r, which is in it once or not at all.
Without(list, r) ==
    IF ~Contains(list, r) THEN list
    ELSE LET i == CHOOSE j \in 1..Len(list) : list[j] = r
         IN  SubSeq(list, 1, i - 1) \o SubSeq(list, i + 1, Len(list))

\* Nothing runs after a failed assertion.
At(step) == pc = step /\ fault = "none"

Handles(r, step) == service[r] = step /\ fault = "none"

\* createTask.
IOInit ==
    /\ SemInit
    /\ pendingIOList = <<>>
    /\ completedIOList = <<>>
    /\ cancellable = [r \in Request |-> FALSE]
    /\ allocated = {}
    /\ service = [r \in Service |-> "none"]
    /\ pc = "run"
    /\ req = NoRequest
    /\ drain = 0
    /\ ending = FALSE
    /\ fault = "none"

----------------------------------------------------------------------------
\* The functions of taskmanager.c that take ioListLock

pendIO(r) ==
    /\ pendingIOList' = <<r>> \o pendingIOList
    /\ UNCHANGED completedIOList

\* The first part of completeIO; its assertion needs the request in a list.
completeList(r) ==
    \/ /\ Contains(pendingIOList, r) \/ Contains(completedIOList, r)
       /\ pendingIOList' = Without(pendingIOList, r)
       /\ completedIOList' = <<r>> \o Without(completedIOList, r)
       /\ cancellable' = [cancellable EXCEPT ![r] = FALSE]
       /\ UNCHANGED fault
    \/ /\ ~Contains(pendingIOList, r) /\ ~Contains(completedIOList, r)
       /\ fault' = "completeIO"
       /\ UNCHANGED listVars

\* A completion that nobody is told of.
CompleteQuietly == UNCHANGED <<semVars, fault>>

\* The second part of completeIO, after ioListLock.
completeRelease ==
    \/ pc # "dead" /\ Release /\ UNCHANGED fault
    \/ pc = "dead" /\ fault' = "semaphore" /\ UNCHANGED semVars

\* A cancellation that leaves the flag set, as tryCancelIO does.
CancelKeepsFlag(r) ==
    /\ At("run")
    /\ Contains(pendingIOList, r)
    /\ cancellable[r]
    /\ pendingIOList' = Without(pendingIOList, r)
    /\ pc' = "cancel"
    /\ req' = r
    /\ UNCHANGED <<semVars, completedIOList, cancellable, allocated, service, drain, ending,
                   fault>>

\* cacnelIOHandler, up to the call of cancel.
cancelIO(r) ==
    /\ At("run")
    /\ Contains(pendingIOList, r)
    /\ cancellable[r]
    /\ pendingIOList' = Without(pendingIOList, r)
    /\ cancellable' = [cancellable EXCEPT ![r] = FALSE]
    /\ pc' = "cancel"
    /\ req' = r
    /\ UNCHANGED <<semVars, completedIOList, allocated, service, drain, ending, fault>>

----------------------------------------------------------------------------
\* _waitIO

\* waitIOHandler for any request or for one in a list.
WaitIO(r) ==
    /\ At("run")
    /\ r # NoRequest => Contains(pendingIOList, r) \/ Contains(completedIOList, r)
    /\ pc' = "value"
    /\ req' = r
    /\ UNCHANGED <<semVars, listVars, allocated, service, drain, ending, fault>>

\* "ioSemaphore; // length of completedIOList" (struct Task), taken literally.
ReadCompletedCount ==
    /\ At("value")
    /\ drain' = Len(completedIOList)
    /\ pc' = "drain"
    /\ UNCHANGED <<semVars, listVars, allocated, service, req, ending, fault>>

\* getSemaphoreValue.
ReadValue ==
    /\ At("value")
    /\ drain' = quota
    /\ pc' = "drain"
    /\ UNCHANGED <<semVars, listVars, allocated, service, req, ending, fault>>

\* One acquireSemaphore, and where the owner goes when it returns.
Acquire(next) ==
    \/ /\ AcquirePermit(owner)
       /\ next
    \/ /\ Block(owner)
       /\ UNCHANGED <<pc, drain>>
    \/ /\ ReturnFromBlock(owner)
       /\ next

\* A wait that sleeps once before it looks at the list.
DrainThenAcquire ==
    /\ At("drain")
    /\ \/ /\ drain > 0
          /\ Acquire(drain' = drain - 1 /\ UNCHANGED pc)
       \/ /\ drain = 0
          /\ pc' = "acquire"
          /\ UNCHANGED <<semVars, drain>>
    /\ UNCHANGED <<listVars, allocated, service, req, ending, fault>>

\* The first loop.
Drain ==
    /\ At("drain")
    /\ \/ /\ drain > 0
          /\ Acquire(drain' = drain - 1 /\ UNCHANGED pc)
       \/ /\ drain = 0
          /\ pc' = "scan"
          /\ UNCHANGED <<semVars, drain>>
    /\ UNCHANGED <<listVars, allocated, service, req, ending, fault>>

\* The request that one pass over the completed list finds: the head, or req.
Found ==
    IF req = NoRequest THEN completedIOList # <<>> ELSE Contains(completedIOList, req)

Scan ==
    /\ At("scan")
    /\ \/ /\ Found
          /\ LET r == IF req = NoRequest THEN Head(completedIOList) ELSE req
             IN  req' = r /\ completedIOList' = Without(completedIOList, r)
          /\ pc' = "accept"
       \/ /\ ~Found
          /\ pc' = "acquire"
          /\ UNCHANGED <<req, completedIOList>>
    /\ UNCHANGED <<semVars, pendingIOList, cancellable, allocated, service, drain, ending,
                   fault>>

WaitSemaphore ==
    /\ At("acquire")
    /\ Acquire(pc' = "scan" /\ UNCHANGED drain)
    /\ UNCHANGED <<listVars, allocated, service, req, ending, fault>>

\* Back to the caller of waitIO or tryCancelIO.
Return ==
    /\ pc' = IF ending THEN "next" ELSE "run"
    /\ req' = NoRequest
    /\ UNCHANGED <<drain, ending>>

----------------------------------------------------------------------------
\* cancelAllIORequests and the end of the task

Terminate ==
    /\ At("run")
    /\ pc' = "next"
    /\ ending' = TRUE
    /\ UNCHANGED <<semVars, listVars, allocated, service, req, drain, fault>>

\* The head of the pending or else of the completed list; without one the semaphore
\* is deleted.
NextRequest ==
    /\ At("next")
    /\ LET list == pendingIOList \o completedIOList
       IN  \/ /\ list # <<>>
              /\ req' = Head(list)
              /\ pc' = "tryCancel"
           \/ /\ list = <<>>
              /\ pc' = "dead"
              /\ UNCHANGED req
    /\ UNCHANGED <<semVars, listVars, allocated, service, drain, ending, fault>>

\* tryCancelIO, up to the call of cancel; a request that cannot be cancelled is
\* waited for.
tryCancelIO ==
    /\ At("tryCancel")
    /\ \/ /\ cancellable[req]
          /\ pendingIOList' = Without(pendingIOList, req)
          /\ completedIOList' = Without(completedIOList, req)
          /\ pc' = "cancel"
       \/ /\ ~cancellable[req]
          /\ pc' = "value"
          /\ UNCHANGED <<pendingIOList, completedIOList>>
    /\ UNCHANGED <<semVars, cancellable, allocated, service, req, drain, ending, fault>>

----------------------------------------------------------------------------
\* A service: readEnumWaitable, iterateNext_noLock, completeEnumNextRequest

\* The request is created, pended, put into the service's list and made cancellable,
\* all by the owner, before anything can cancel it.
Submit(r) ==
    /\ At("run")
    /\ r \notin allocated /\ service[r] = "none"
    /\ allocated' = allocated \cup {r}
    /\ pendIO(r)
    /\ cancellable' = [cancellable EXCEPT ![r] = TRUE]
    /\ service' = [service EXCEPT ![r] = "queued"]
    /\ UNCHANGED <<semVars, ownerVars, fault>>

\* The service takes a request out of its list if setCancellable(r, 0) lets it, and
\* skips it otherwise.
Claim(r) ==
    /\ Handles(r, "queued")
    /\ cancellable[r]
    /\ cancellable' = [cancellable EXCEPT ![r] = FALSE]
    /\ service' = [service EXCEPT ![r] = "claimed"]
    /\ UNCHANGED <<semVars, pendingIOList, completedIOList, allocated, ownerVars, fault>>

ServiceCompletes(r) ==
    /\ Handles(r, "claimed")
    /\ completeList(r)
    /\ service' = [service EXCEPT ![r] = "release"]
    /\ UNCHANGED <<semVars, allocated, ownerVars>>

ServiceReleases(r) ==
    /\ Handles(r, "release")
    /\ completeRelease
    /\ service' = [service EXCEPT ![r] = "none"]
    /\ UNCHANGED <<listVars, allocated, ownerVars>>

\* cancelDeleteFileIO and cancelReadEnumWaitable: the request leaves the service's
\* list and is deleted.  A request that is no longer in it is freed memory.
ServiceCancel ==
    /\ At("cancel") /\ req \in Service
    /\ \/ /\ service[req] = "queued"
          /\ service' = [service EXCEPT ![req] = "none"]
          /\ UNCHANGED fault
       \/ /\ service[req] # "queued"
          /\ fault' = "freed"
          /\ UNCHANGED service
    /\ allocated' = allocated \ {req}
    /\ Return
    /\ UNCHANGED <<semVars, listVars>>

\* acceptDeleteFileIO.
ServiceAccept ==
    /\ At("accept") /\ req \in Service
    /\ allocated' = allocated \ {req}
    /\ Return
    /\ UNCHANGED <<semVars, listVars, service, fault>>

----------------------------------------------------------------------------

OwnerNext ==
    \/ \E r \in Service : Submit(r)
    \/ \E r \in Request : cancelIO(r)
    \/ \E r \in Request \cup {NoRequest} : WaitIO(r)
    \/ Terminate

WaitNext == ReadValue \/ Drain \/ Scan \/ WaitSemaphore

EndNext == NextRequest \/ tryCancelIO \/ ServiceCancel \/ ServiceAccept

ServiceNext(r) == Claim(r) \/ ServiceCompletes(r) \/ ServiceReleases(r)

\* waitAnyIO by a task that has no request.
WaitsForNothing ==
    /\ status[owner] = "waiting" /\ req = NoRequest
    /\ pendingIOList = <<>> /\ completedIOList = <<>>

\* A task that has ended or waits for nothing, and a kernel that panicked, do nothing
\* more.
Stopped ==
    /\ pc = "dead" \/ fault # "none" \/ WaitsForNothing
    /\ UNCHANGED ioVars

IONext ==
    \/ OwnerNext
    \/ WaitNext
    \/ EndNext
    \/ \E r \in Service : ServiceNext(r)
    \/ Stopped

IOSpec == IOInit /\ [][IONext]_ioVars

----------------------------------------------------------------------------
\* Properties

IOTypeOK ==
    /\ SemTypeOK
    /\ pendingIOList \in Seq(Request)
    /\ completedIOList \in Seq(Request)
    /\ cancellable \in [Request -> BOOLEAN]
    /\ allocated \subseteq Request
    /\ service \in [Service -> ServiceStep]
    /\ pc \in OwnerStep
    /\ req \in Request \cup {NoRequest}
    /\ drain \in Nat
    /\ ending \in BOOLEAN
    /\ fault \in Fault

\* ioservice.h of setCancellable(ior, 0): "if value == 0 and ior is being cancelled
\* (see taskmanager.c), return 0".  A service never owns a request that the owner took
\* out of its list to cancel it.
CancelledNotClaimed == pc = "cancel" /\ req \in Service => service[req] # "claimed"

\* The same of the requests cancelled by the system call.
CancelExcludesService ==
    pc = "cancel" /\ ~ending /\ req \in Service => service[req] # "claimed"
=============================================================================
