----------------------------- MODULE TimerProofs ------------------------------
(***************************************************************************)
(* A task that waits for its IORequests, for any number of requests,       *)
(* timer events and services: _waitIO loses no wake-up and its draining    *)
(* loop does not sleep; a request that the system call cancels has not     *)
(* been taken by its service; the timer events are in order.               *)
(***************************************************************************)
EXTENDS Timer, SemaphoreProofs

\* A leaf that cites no prover is first-order and goes to Zenon; arithmetic and sequences
\* go to SMT.
USE Zenon

----------------------------------------------------------------------------
\* Waiting

\* A permit in quota, a permit handed to the owner, or a completer that is about to
\* release stands for every completed request that the owner may be about to sleep
\* beside.
WaitInv ==
    /\ SemInv
    /\ drain \in Nat
    /\ pc = "drain" => drain <= quota
    /\ status[owner] # "out" => pc = "acquire"
    /\ pc = "acquire" /\ Found => quota > 0 \/ status[owner] = "granted" \/ Completing

LEMMA OwnerInTask == owner \in Task /\ Task = {owner}
BY IORequestAssumption

LEMMA InitWaitInv == Init => WaitInv
BY SMT, SemInitInv, OwnerInTask DEF Init, IOInit, SemInit, WaitInv

\* The owner goes to a place where it neither drains nor acquires.
LEMMA OwnerMoves ==
    ASSUME WaitInv, UNCHANGED <<semVars, drain>>, pc # "acquire",
           pc' \notin {"drain", "acquire"}
    PROVE  WaitInv'
<1>1. SemInv'
  BY SemStutterInv DEF WaitInv
<1>. QED BY <1>1 DEF WaitInv, semVars

\* A step that neither completes a request nor finishes a completion.
LEMMA OthersMove ==
    ASSUME WaitInv, UNCHANGED <<semVars, drain, pc, req, completedIOList>>,
           Completing => Completing'
    PROVE  WaitInv'
<1>1. SemInv'
  BY SemStutterInv DEF WaitInv
<1>2. Found' <=> Found
  BY DEF Found, Contains
<1>. QED BY <1>1, <1>2 DEF WaitInv, semVars

\* The first part of completeIO.
LEMMA OtherCompletes ==
    ASSUME WaitInv, UNCHANGED <<semVars, drain, pc>>, Completing'
    PROVE  WaitInv'
<1>1. SemInv'
  BY SemStutterInv DEF WaitInv
<1>. QED BY <1>1 DEF WaitInv, semVars

\* The second part: the permit goes to quota or to the owner.
LEMMA OtherReleases ==
    ASSUME WaitInv, completeRelease, UNCHANGED <<drain, pc>>
    PROVE  WaitInv'
<1>1. CASE pc = "dead"
  <2>1. UNCHANGED semVars
    BY <1>1 DEF completeRelease
  <2>. QED BY <1>1, <2>1, OwnerMoves
<1>2. CASE pc # "dead"
  <2>1. Release
    BY <1>2 DEF completeRelease
  <2>2. SemInv'
    BY <2>1, ReleaseInv DEF WaitInv
  <2>3. CASE taskQueue = <<>>
    <3>1. quota' = quota + 1 /\ status' = status /\ quota \in Nat
      BY <2>1, <2>3 DEF Release, WaitInv, SemInv, SemTypeOK
    <3>. QED BY SMT, <2>2, <3>1 DEF WaitInv
  <2>4. CASE taskQueue # <<>>
    <3>1. taskQueue \in Seq(Task)
      BY DEF WaitInv, SemInv, SemTypeOK
    <3>2. Head(taskQueue) = owner /\ taskQueue[1] = owner /\ 1 \in 1..Len(taskQueue)
      BY SMT, <2>4, <3>1, TailFacts, OwnerInTask
    <3>3. status[owner] = "waiting" /\ quota \in Nat
      BY <3>2 DEF WaitInv, SemInv, QueueHoldsWaiters, SemTypeOK
    <3>4. pc = "acquire"
      BY <3>3 DEF WaitInv
    <3>5. quota' = quota /\ status'[owner] = "granted"
      BY <2>1, <2>4, <3>2, OwnerInTask DEF Release, WaitInv, SemInv, SemTypeOK
    <3>. QED BY <2>2, <3>4, <3>5 DEF WaitInv
  <2>. QED BY <2>3, <2>4
<1>. QED BY <1>1, <1>2

\* getSemaphoreValue counts the permits that the first loop then takes.
LEMMA ReadValueInv ==
    ASSUME WaitInv, ReadValue
    PROVE  WaitInv'
<1>1. SemInv'
  BY SemStutterInv DEF WaitInv, ReadValue
<1>2. quota \in Nat /\ quota' = quota /\ status' = status /\ drain' = quota
  BY DEF WaitInv, SemInv, SemTypeOK, ReadValue, semVars
<1>3. status[owner] = "out"
  BY DEF WaitInv, ReadValue, At
<1>. QED BY SMT, <1>1, <1>2, <1>3 DEF WaitInv, ReadValue

LEMMA DrainInv ==
    ASSUME WaitInv, Drain
    PROVE  WaitInv'
<1>. USE OwnerInTask
<1>1. pc = "drain" /\ drain \in Nat /\ quota \in Nat /\ drain <= quota /\ status[owner] = "out"
  BY DEF WaitInv, SemInv, SemTypeOK, Drain, At
<1>2. CASE drain > 0
  <2>1. AcquirePermit(owner) /\ drain' = drain - 1 /\ pc' = pc
    BY SMT, <1>1, <1>2 DEF Drain, Acquire, Block, ReturnFromBlock
  <2>2. SemInv'
    BY <2>1, AcquirePermitInv DEF WaitInv
  <2>3. quota' = quota - 1 /\ status' = status
    BY <2>1 DEF AcquirePermit
  <2>. QED BY SMT, <1>1, <1>2, <2>1, <2>2, <2>3 DEF WaitInv
<1>3. CASE drain = 0
  <2>1. UNCHANGED <<semVars, drain>> /\ pc' = "scan"
    BY SMT, <1>3 DEF Drain
  <2>. QED BY <1>1, <2>1, OwnerMoves
<1>. QED BY SMT, <1>1, <1>2, <1>3

\* The owner goes to acquireSemaphore only when the list does not have its request.
LEMMA ScanInv ==
    ASSUME WaitInv, Scan
    PROVE  WaitInv'
<1>1. pc = "scan" /\ UNCHANGED <<semVars, drain>>
  BY DEF Scan, At
<1>2. CASE Found
  BY <1>1, <1>2, OwnerMoves DEF Scan
<1>3. CASE ~Found
  <2>1. pc' = "acquire" /\ UNCHANGED <<req, completedIOList>>
    BY <1>3 DEF Scan
  <2>2. ~Found'
    BY <1>3, <2>1 DEF Found, Contains
  <2>3. SemInv'
    BY <1>1, SemStutterInv DEF WaitInv
  <2>. QED BY <1>1, <2>1, <2>2, <2>3 DEF WaitInv, semVars
<1>. QED BY <1>2, <1>3

LEMMA WaitSemaphoreInv ==
    ASSUME WaitInv, WaitSemaphore, OnlyIO
    PROVE  WaitInv'
<1>. USE OwnerInTask
<1>1. pc = "acquire" /\ UNCHANGED <<completedIOList, req, service, tick>>
  BY DEF WaitSemaphore, At, listVars, OnlyIO, tickVars
<1>2. CASE AcquirePermit(owner) /\ pc' = "scan" /\ drain' = drain
  <2>1. SemInv'
    BY <1>2, AcquirePermitInv DEF WaitInv
  <2>. QED BY <1>2, <2>1 DEF WaitInv, AcquirePermit
<1>3. CASE ReturnFromBlock(owner) /\ pc' = "scan" /\ drain' = drain
  <2>1. SemInv'
    BY <1>3, ReturnFromBlockInv DEF WaitInv
  <2>2. status'[owner] = "out"
    BY <1>3 DEF WaitInv, ReturnFromBlock, SemInv, SemTypeOK
  <2>. QED BY <1>3, <2>1, <2>2 DEF WaitInv
<1>4. CASE Block(owner) /\ UNCHANGED <<pc, drain>>
  <2>1. SemInv'
    BY <1>4, BlockInv DEF WaitInv
  <2>2. Found' <=> Found
    BY <1>1 DEF Found, Contains
  <2>3. Completing' <=> Completing
    BY <1>1 DEF Completing
  <2>4. quota = 0 /\ status[owner] = "out"
    BY <1>4 DEF Block
  <2>. QED BY SMT, <1>1, <1>4, <2>1, <2>2, <2>3, <2>4 DEF WaitInv
<1>. QED BY <1>2, <1>3, <1>4 DEF WaitSemaphore, Acquire

\* The other steps of the owner start and end where it neither drains nor acquires.
LEMMA OwnerStepsInv ==
    ASSUME WaitInv,
           \/ \E r \in Service : Submit(r)
           \/ \E r \in Request : cancelIO(r)
           \/ \E r \in Request \cup {NoRequest} : WaitIO(r)
           \/ Terminate \/ NextRequest \/ tryCancelIO \/ ServiceCancel \/ ServiceAccept
           \/ TimerOwnerNext
    PROVE  WaitInv'
<1>1. /\ UNCHANGED <<semVars, drain>>
      /\ pc # "acquire"
      /\ pc' \notin {"drain", "acquire"}
  <2>1. CASE \/ \E r \in Service : Submit(r)
             \/ \E r \in Request : cancelIO(r)
             \/ \E r \in Request \cup {NoRequest} : WaitIO(r)
    BY <2>1 DEF Submit, cancelIO, WaitIO, At, ownerVars
  <2>2. CASE Terminate \/ NextRequest \/ tryCancelIO
    BY <2>2 DEF Terminate, NextRequest, tryCancelIO, At
  <2>3. CASE ServiceCancel \/ ServiceAccept
    BY <2>3 DEF ServiceCancel, ServiceAccept, At, Return
  <2>4. CASE TimerOwnerNext
    BY <2>4 DEF TimerOwnerNext, setAlarm, cancelTimerEvent, acceptTimerEvent, At, Return,
                ownerVars
  <2>. QED BY <2>1, <2>2, <2>3, <2>4
<1>. QED BY <1>1, OwnerMoves

LEMMA ServiceStepsInv ==
    ASSUME WaitInv, OnlyIO, NEW r \in Service,
           Claim(r) \/ ServiceCompletes(r) \/ ServiceReleases(r),
           service \in [Service -> ServiceStep]
    PROVE  WaitInv'
<1>1. CASE Claim(r)
  <2>1. UNCHANGED <<semVars, drain, pc, req, completedIOList, tick>>
    BY <1>1 DEF Claim, ownerVars, OnlyIO, tickVars
  <2>2. Completing => Completing'
    BY <1>1, <2>1 DEF Completing, Claim, Handles
  <2>. QED BY <2>1, <2>2, OthersMove
<1>2. CASE ServiceCompletes(r)
  <2>1. UNCHANGED <<semVars, drain, pc>>
    BY <1>2 DEF ServiceCompletes, ownerVars
  <2>2. Completing'
    BY <1>2 DEF Completing, ServiceCompletes
  <2>. QED BY <2>1, <2>2, OtherCompletes
<1>3. CASE ServiceReleases(r)
  <2>1. completeRelease /\ UNCHANGED <<drain, pc>>
    BY <1>3 DEF ServiceReleases, ownerVars
  <2>. QED BY <2>1, OtherReleases
<1>. QED BY <1>1, <1>2, <1>3

LEMMA TickInv ==
    ASSUME WaitInv, TickNext
    PROVE  WaitInv'
<1>1. CASE TimerInterrupt \/ TickEnds
  <2>1. UNCHANGED <<semVars, drain, pc, req, completedIOList, service>>
    BY <1>1 DEF TimerInterrupt, TickEnds, ioVars, listVars, ownerVars
  <2>2. Completing => Completing'
    BY <1>1, <2>1 DEF Completing, TimerInterrupt, TickEnds
  <2>. QED BY <2>1, <2>2, OthersMove
<1>2. CASE Expire
  <2>1. UNCHANGED <<semVars, drain, pc, req, service>> /\ tick = "loop"
    BY <1>2 DEF Expire, ownerVars
  <2>2. CASE isSentToTask[curr']
    <3>1. UNCHANGED completedIOList
      BY <1>2, <2>2 DEF Expire, listVars
    <3>2. Completing => Completing'
      BY <2>1 DEF Completing
    <3>. QED BY <2>1, <3>1, <3>2, OthersMove
  <2>3. CASE ~isSentToTask[curr']
    <3>1. Completing'
      BY <1>2, <2>3 DEF Expire, Completing
    <3>. QED BY <2>1, <3>1, OtherCompletes
  <2>. QED BY <2>2, <2>3
<1>3. CASE ReleaseEvent
  <2>1. completeRelease /\ UNCHANGED <<drain, pc>>
    BY <1>3 DEF ReleaseEvent, ownerVars
  <2>. QED BY <2>1, OtherReleases
<1>4. CASE AddAgain
  <2>1. UNCHANGED <<semVars, drain, pc, req, completedIOList, service>> /\ tick = "again"
    BY <1>4 DEF AddAgain, ownerVars, listVars
  <2>2. Completing => Completing'
    BY <2>1 DEF Completing
  <2>. QED BY <2>1, <2>2, OthersMove
<1>. QED BY <1>1, <1>2, <1>3, <1>4 DEF TickNext

LEMMA StutterWaitInv ==
    ASSUME WaitInv, UNCHANGED vars
    PROVE  WaitInv'
<1>1. UNCHANGED <<semVars, drain, pc, req, completedIOList, service, tick>>
  BY DEF vars, ioVars, listVars, ownerVars, tickVars
<1>2. Completing => Completing'
  BY <1>1 DEF Completing
<1>. QED BY <1>1, <1>2, OthersMove

----------------------------------------------------------------------------
\* Cancelling

\* A request that a service has claimed is not cancellable, and neither is one that the
\* system call is cancelling.
CancelInv ==
    /\ cancellable \in [Request -> BOOLEAN]
    /\ service \in [Service -> ServiceStep]
    /\ \A r \in Service : cancellable[r] => service[r] # "claimed"
    /\ pc \in {"next", "tryCancel"} => ending
    /\ pc = "cancel" /\ ~ending => req \in Request /\ ~cancellable[req]
    /\ CancelExcludesService

LEMMA InitCancelInv == Init => CancelInv
BY DEF Init, IOInit, CancelInv, CancelExcludesService, ServiceStep

\* A step that is not about cancellation.
LEMMA CancelUnaffected ==
    ASSUME CancelInv, UNCHANGED <<cancellable, service, ending>>,
           pc' = "cancel" => UNCHANGED <<pc, req>>,
           pc' \in {"next", "tryCancel"} => ending
    PROVE  CancelInv'
BY DEF CancelInv, CancelExcludesService

\* completeIO, of a request that its service has claimed or of a timer event.
LEMMA CompleteKeepsCancelInv ==
    ASSUME CancelInv, UNCHANGED ownerVars, NEW r, completeList(r),
           \/ UNCHANGED service
           \/ r \in Service /\ service' = [service EXCEPT ![r] = "release"]
    PROVE  CancelInv'
<1>1. cancellable' \in [Request -> BOOLEAN] /\ \A x \in Request : cancellable'[x] => cancellable[x]
  BY DEF completeList, CancelInv, listVars
<1>2. service' \in [Service -> ServiceStep]
  BY DEF CancelInv, ServiceStep
<1>3. \A x \in Service : service'[x] = "claimed" => service[x] = "claimed"
  BY DEF CancelInv
<1>. QED BY <1>1, <1>2, <1>3, TimerAssumption DEF CancelInv, CancelExcludesService, ownerVars

LEMMA IOStepCancelInv ==
    ASSUME CancelInv, IOStep
    PROVE  CancelInv'
<1>. USE TimerAssumption
<1>1. ASSUME NEW r \in Service, Submit(r)
      PROVE  CancelInv'
  BY <1>1 DEF CancelInv, CancelExcludesService, Submit, At, ownerVars, ServiceStep
<1>2. ASSUME NEW r \in Service, Claim(r)
      PROVE  CancelInv'
  BY <1>2 DEF CancelInv, CancelExcludesService, Claim, Handles, ownerVars, ServiceStep
<1>3. ASSUME NEW r \in Service, ServiceCompletes(r)
      PROVE  CancelInv'
  BY <1>3, CompleteKeepsCancelInv DEF ServiceCompletes
<1>4. ASSUME NEW r \in Service, ServiceReleases(r)
      PROVE  CancelInv'
  BY <1>4 DEF CancelInv, CancelExcludesService, ServiceReleases, listVars, ownerVars, ServiceStep
<1>5. ASSUME NEW r \in Request, cancelIO(r)
      PROVE  CancelInv'
  BY <1>5 DEF CancelInv, CancelExcludesService, cancelIO, At
<1>6. ASSUME NEW r \in Request \cup {NoRequest}, WaitIO(r)
      PROVE  CancelInv'
  BY <1>6, CancelUnaffected DEF WaitIO, listVars
<1>7. CASE ReadValue \/ Scan
  BY <1>7, CancelUnaffected DEF ReadValue, Scan, listVars
<1>8. CASE Drain \/ WaitSemaphore
  BY <1>8, CancelUnaffected DEF Drain, WaitSemaphore, Acquire, At, listVars
<1>9. CASE Terminate
  BY <1>9 DEF CancelInv, CancelExcludesService, Terminate, listVars
<1>10. CASE NextRequest
  BY <1>10, CancelUnaffected DEF NextRequest, At, listVars, CancelInv
<1>11. CASE tryCancelIO
  BY <1>11 DEF CancelInv, CancelExcludesService, tryCancelIO, At
<1>12. CASE ServiceCancel
  <2>1. pc' \in {"run", "next"} /\ (pc' = "next" => ending') /\ cancellable' = cancellable
    BY <1>12 DEF ServiceCancel, Return, listVars
  <2>2. /\ service' \in [Service -> ServiceStep]
        /\ \A r \in Service : service'[r] = "claimed" => service[r] = "claimed"
    BY <1>12 DEF ServiceCancel, CancelInv, ServiceStep
  <2>. QED BY <2>1, <2>2 DEF CancelInv, CancelExcludesService
<1>13. CASE ServiceAccept
  BY <1>13, CancelUnaffected DEF ServiceAccept, Return, listVars
<1>14. CASE Stopped
  BY <1>14, CancelUnaffected DEF Stopped, ioVars, listVars, ownerVars, CancelInv
<1>. QED
  BY <1>1, <1>2, <1>3, <1>4, <1>5, <1>6, <1>7, <1>8, <1>9, <1>10, <1>11, <1>12, <1>13, <1>14
  DEF IOStep

LEMMA TimerCancelInv ==
    ASSUME CancelInv, TimerOwnerNext \/ TickNext
    PROVE  CancelInv'
<1>. USE TimerAssumption
<1>1. ASSUME NEW e \in TimerEvent, NEW ticks, NEW isPeriodic, setAlarm(e, ticks, isPeriodic)
      PROVE  CancelInv'
  BY <1>1 DEF CancelInv, CancelExcludesService, setAlarm, At, ownerVars
<1>2. CASE cancelTimerEvent
  BY <1>2, CancelUnaffected DEF cancelTimerEvent, Return, listVars
<1>3. CASE acceptTimerEvent
  <2>1. pc' \in {"run", "next"} /\ (pc' = "next" => ending') /\ service' = service
    BY <1>3 DEF acceptTimerEvent, Return
  <2>2. /\ cancellable' \in [Request -> BOOLEAN]
        /\ \A r \in Service : cancellable'[r] = cancellable[r]
    BY <1>3 DEF acceptTimerEvent, CancelInv, listVars
  <2>. QED BY <2>1, <2>2 DEF CancelInv, CancelExcludesService
<1>4. CASE TimerInterrupt \/ TickEnds
  BY <1>4, CancelUnaffected DEF TimerInterrupt, TickEnds, ioVars, listVars, ownerVars, CancelInv
<1>5. CASE Expire
  <2>1. UNCHANGED <<ownerVars, service>>
    BY <1>5 DEF Expire
  <2>2. CASE isSentToTask[curr']
    BY <1>5, <2>1, <2>2, CancelUnaffected DEF Expire, listVars, ownerVars, CancelInv
  <2>3. CASE ~isSentToTask[curr']
    <3>1. completeList(curr')
      BY <1>5, <2>3 DEF Expire
    <3>. QED BY <2>1, <3>1, CompleteKeepsCancelInv
  <2>. QED BY <2>2, <2>3
<1>6. CASE ReleaseEvent \/ AddAgain
  BY <1>6, CancelUnaffected DEF ReleaseEvent, AddAgain, listVars, ownerVars, CancelInv
<1>. QED BY <1>1, <1>2, <1>3, <1>4, <1>5, <1>6 DEF TimerOwnerNext, TickNext

----------------------------------------------------------------------------

IInv == WaitInv /\ CancelInv

LEMMA NextWaitInv ==
    ASSUME IInv, Next
    PROVE  WaitInv'
<1>1. ASSUME NEW r \in Service, Claim(r) \/ ServiceCompletes(r) \/ ServiceReleases(r), OnlyIO
      PROVE  WaitInv'
  BY <1>1, ServiceStepsInv DEF IInv, CancelInv
<1>2. CASE Stopped /\ OnlyIO
  BY <1>2, StutterWaitInv DEF IInv, Stopped, OnlyIO, vars
<1>3. CASE \/ \E r \in Service : Submit(r)
           \/ \E r \in Request : cancelIO(r)
           \/ \E r \in Request \cup {NoRequest} : WaitIO(r)
           \/ Terminate \/ NextRequest \/ tryCancelIO \/ ServiceCancel \/ ServiceAccept
           \/ TimerOwnerNext
  BY <1>3, OwnerStepsInv DEF IInv
<1>4. CASE (ReadValue \/ Drain \/ Scan \/ WaitSemaphore) /\ OnlyIO
  BY <1>4, ReadValueInv, DrainInv, ScanInv, WaitSemaphoreInv DEF IInv
<1>5. CASE TickNext
  BY <1>5, TickInv DEF IInv
<1>. QED BY <1>1, <1>2, <1>3, <1>4, <1>5 DEF Next, IOStep

LEMMA StutterCancelInv ==
    ASSUME CancelInv, UNCHANGED vars
    PROVE  CancelInv'
BY CancelUnaffected DEF CancelInv, vars, ioVars, listVars, ownerVars

\* The inductive invariant of the waiting task, its services and its timer.
THEOREM Invariance == Spec => []IInv
<1>1. Init => IInv
  BY InitWaitInv, InitCancelInv DEF IInv
<1>2. IInv /\ [Next]_vars => IInv'
  <2>1. ASSUME IInv, Next
        PROVE  CancelInv'
    BY <2>1, IOStepCancelInv, TimerCancelInv DEF IInv, Next
  <2>2. ASSUME IInv, UNCHANGED vars
        PROVE  IInv'
    BY <2>2, StutterWaitInv, StutterCancelInv DEF IInv
  <2>. QED BY <2>1, <2>2, NextWaitInv DEF IInv
<1>. QED BY <1>1, <1>2, PTL DEF Spec

\* A task that sleeps in _waitIO beside the completed request it waits for is about to
\* be woken: completeIO puts the request into the list before it releases ioSemaphore,
\* and _waitIO drains the semaphore before it looks at the list.
THEOREM WakeupKept == Spec => []NoLostWakeup
<1>1. IInv => NoLostWakeup
  <2>. SUFFICES ASSUME IInv, status[owner] = "waiting", Found
                PROVE  Completing
    BY DEF NoLostWakeup
  <2>1. pc = "acquire" /\ status[owner] # "granted"
    BY DEF IInv, WaitInv
  <2>2. PICK i \in 1..Len(taskQueue) : taskQueue[i] = owner
    BY OwnerInTask DEF IInv, WaitInv, SemInv, QueueHoldsWaiters
  <2>3. taskQueue # <<>>
    BY SMT, <2>2
  <2>4. quota = 0
    BY <2>3 DEF IInv, WaitInv, SemInv, NoIdlePermit
  <2>. QED BY SMT, <2>1, <2>4 DEF IInv, WaitInv
<1>. QED BY <1>1, Invariance, PTL

\* The first loop of _waitIO acquires only permits that are there.
THEOREM DrainDoesNotBlock == Spec => []DrainNeverSleeps
<1>1. IInv => DrainNeverSleeps
  BY DEF IInv, WaitInv, DrainNeverSleeps
<1>. QED BY <1>1, Invariance, PTL

\* A request that cacnelIOHandler cancels has not been taken by its service, which asks
\* setCancellable first.
THEOREM SystemCallCancelExcludes == Spec => []CancelExcludesService
<1>1. IInv => CancelExcludesService
  BY DEF IInv, CancelInv
<1>. QED BY <1>1, Invariance, PTL

----------------------------------------------------------------------------
\* Lists

OnceIn(list) == \A i, j \in 1..Len(list) : list[i] = list[j] => i = j

\* The members of short are in the order of list.
KeepsOrder(short, list) ==
    \A i, j \in 1..Len(short) : i < j =>
        \E k, l \in 1..Len(list) : k < l /\ list[k] = short[i] /\ list[l] = short[j]

\* A list with its i-th member unlinked.
LEMMA UnlinkFacts ==
    ASSUME NEW S, NEW list \in Seq(S), NEW i \in 1..Len(list), NEW short,
           short = SubSeq(list, 1, i - 1) \o SubSeq(list, i + 1, Len(list))
    PROVE  /\ short \in Seq(S)
           /\ Len(short) = Len(list) - 1
           /\ \A j \in 1..Len(list) - 1 : short[j] = IF j < i THEN list[j] ELSE list[j + 1]
<1>. DEFINE a == SubSeq(list, 1, i - 1)
            b == SubSeq(list, i + 1, Len(list))
<1>1. Len(list) \in Nat /\ i \in Nat /\ i >= 1 /\ i <= Len(list)
  BY SMT
<1>2. /\ a \in Seq(S) /\ Len(a) = i - 1
      /\ \A j \in 1..i - 1 : a[j] = list[j]
  <2>1. \A j \in 1..i - 1 : list[j] \in S
    BY SMT
  <2>. QED BY SMT, <1>1, <2>1, SubSeqFacts
<1>3. /\ b \in Seq(S) /\ Len(b) = Len(list) - i
      /\ \A j \in 1..Len(list) - i : b[j] = list[i + j]
  <2>1. \A j \in i + 1..Len(list) : list[j] \in S
    BY SMT
  <2>2. /\ b \in Seq(S) /\ Len(b) = IF i + 1 <= Len(list) THEN Len(list) - (i + 1) + 1 ELSE 0
        /\ \A j \in 1..Len(list) - (i + 1) + 1 : b[j] = list[(i + 1) + j - 1]
    <3>1. i + 1 \in Int /\ Len(list) \in Int
      BY SMT, <1>1
    <3>. QED BY SMT, <2>1, <3>1, SubSeqFacts
  <2>3. Len(b) = Len(list) - i
    BY SMT, <1>1, <2>2
  <2>4. \A j \in 1..Len(list) - i : j \in 1..Len(list) - (i + 1) + 1 /\ (i + 1) + j - 1 = i + j
    BY SMT, <1>1
  <2>. QED BY <2>2, <2>3, <2>4
<1>. HIDE DEF a, b
<1>4. short = a \o b
  BY DEF a, b
<1>5. /\ a \o b \in Seq(S) /\ Len(a \o b) = Len(a) + Len(b)
      /\ \A j \in 1..Len(a) + Len(b) : (a \o b)[j] = IF j <= Len(a) THEN a[j] ELSE b[j - Len(a)]
  BY <1>2, <1>3, ConcatFacts
<1>6. /\ short \in Seq(S) /\ Len(short) = Len(list) - 1
      /\ \A j \in 1..Len(list) - 1 : short[j] = IF j <= i - 1 THEN a[j] ELSE b[j - (i - 1)]
  <2>1. /\ short \in Seq(S) /\ Len(short) = Len(a) + Len(b)
        /\ \A j \in 1..Len(a) + Len(b) : short[j] = IF j <= Len(a) THEN a[j] ELSE b[j - Len(a)]
    BY <1>4, <1>5
  <2>2. Len(a) + Len(b) = Len(list) - 1
    BY SMT, <1>1, <1>2, <1>3
  <2>. QED BY <1>2, <2>1, <2>2
<1>7. ASSUME NEW j \in 1..Len(list) - 1
      PROVE  short[j] = IF j < i THEN list[j] ELSE list[j + 1]
  <2>1. CASE j < i
    <3>1. j \in 1..i - 1 /\ j <= i - 1
      BY SMT, <1>1, <2>1
    <3>. QED BY <1>2, <1>6, <2>1, <3>1
  <2>2. CASE j >= i
    <3>1. j - (i - 1) \in 1..Len(list) - i /\ i + (j - (i - 1)) = j + 1 /\ ~(j <= i - 1) /\ ~(j < i)
      BY SMT, <1>1, <2>2
    <3>2. short[j] = b[j - (i - 1)]
      BY <1>6, <3>1
    <3>3. b[j - (i - 1)] = list[i + (j - (i - 1))]
      BY <1>3, <3>1
    <3>. QED BY <3>1, <3>2, <3>3
  <2>3. j < i \/ j >= i
    BY SMT, <1>1
  <2>. QED BY <2>1, <2>2, <2>3
<1>. QED BY <1>6, <1>7

\* REMOVE_FROM_DQUEUE takes out one request and leaves the others in their order.
LEMMA WithoutFacts ==
    ASSUME NEW S, NEW list \in Seq(S), NEW r, OnceIn(list)
    PROVE  /\ Without(list, r) \in Seq(S)
           /\ OnceIn(Without(list, r))
           /\ \A x : Contains(Without(list, r), x) <=> Contains(list, x) /\ x # r
           /\ KeepsOrder(Without(list, r), list)
<1>1. CASE ~Contains(list, r)
  <2>1. Without(list, r) = list
    BY <1>1 DEF Without
  <2>2. \A x : Contains(list, x) => x # r
    BY <1>1
  <2>3. KeepsOrder(list, list)
    BY DEF KeepsOrder
  <2>. QED BY <2>1, <2>2, <2>3
<1>2. CASE Contains(list, r)
  <2>. DEFINE n == CHOOSE j \in 1..Len(list) : list[j] = r
              short == Without(list, r)
  <2>1. n \in 1..Len(list) /\ list[n] = r
    BY <1>2 DEF Contains
  <2>2. short = SubSeq(list, 1, n - 1) \o SubSeq(list, n + 1, Len(list))
    BY <1>2 DEF Without
  <2>. HIDE DEF n, short
  <2>3. /\ short \in Seq(S)
        /\ Len(short) = Len(list) - 1
        /\ \A j \in 1..Len(list) - 1 : short[j] = IF j < n THEN list[j] ELSE list[j + 1]
    <3>. HIDE <1>2
    <3>1. ASSUME NEW s, s = SubSeq(list, 1, n - 1) \o SubSeq(list, n + 1, Len(list))
          PROVE  /\ s \in Seq(S)
                 /\ Len(s) = Len(list) - 1
                 /\ \A j \in 1..Len(list) - 1 : s[j] = IF j < n THEN list[j] ELSE list[j + 1]
      BY ONLY ZenonT(30), list \in Seq(S), <2>1, <3>1, UnlinkFacts
    <3>. QED BY <2>2, <3>1
  <2>4. Len(list) \in Nat /\ n \in Nat /\ 1 <= n /\ n <= Len(list)
    BY SMT, <2>1
  <2>5. ASSUME NEW i \in 1..Len(short), NEW j \in 1..Len(short), i < j
        PROVE  \E k, l \in 1..Len(list) : k < l /\ list[k] = short[i] /\ list[l] = short[j]
    <3>. DEFINE k == IF i < n THEN i ELSE i + 1
                l == IF j < n THEN j ELSE j + 1
    <3>1. k \in 1..Len(list) /\ l \in 1..Len(list) /\ k < l
      BY SMT, <2>3, <2>4, <2>5
    <3>2. list[k] = short[i] /\ list[l] = short[j]
      BY <2>3, <2>4
    <3>. HIDE DEF k, l
    <3>. QED BY <3>1, <3>2
  <2>6. OnceIn(short)
    <3>1. ASSUME NEW i \in 1..Len(short), NEW j \in 1..Len(short), i < j
          PROVE  short[i] # short[j]
      <4>1. PICK k, l \in 1..Len(list) : k < l /\ list[k] = short[i] /\ list[l] = short[j]
        BY <2>5, <3>1
      <4>2. k # l
        BY SMT, <4>1
      <4>. QED BY <4>1, <4>2 DEF OnceIn
    <3>2. \A i, j \in 1..Len(short) : i < j \/ j < i \/ i = j
      BY SMT, <2>3, <2>4
    <3>. QED BY <3>1, <3>2 DEF OnceIn
  <2>7. ASSUME NEW x
        PROVE  Contains(short, x) <=> Contains(list, x) /\ x # r
    <3>1. ASSUME NEW i \in 1..Len(short), short[i] = x
          PROVE  Contains(list, x) /\ x # r
      <4>. DEFINE k == IF i < n THEN i ELSE i + 1
      <4>1. k \in 1..Len(list) /\ k # n
        BY SMT, <2>3, <2>4
      <4>2. list[k] = x
        BY <2>3, <2>4, <3>1
      <4>. HIDE DEF k
      <4>3. list[k] # list[n]
        BY <2>1, <4>1 DEF OnceIn
      <4>. QED BY <2>1, <4>1, <4>2, <4>3 DEF Contains
    <3>2. ASSUME NEW k \in 1..Len(list), list[k] = x, x # r
          PROVE  Contains(short, x)
      <4>. DEFINE i == IF k < n THEN k ELSE k - 1
      <4>1. k # n
        BY <2>1, <3>2
      <4>2. i \in 1..Len(short)
        BY SMT, <2>3, <2>4, <4>1
      <4>3. short[i] = x
        <5>1. CASE k < n
          BY <2>3, <2>4, <3>2, <4>2, <5>1
        <5>2. CASE k > n
          <6>1. i = k - 1 /\ ~(i < n) /\ i + 1 = k
            BY SMT, <2>4, <5>2
          <6>. HIDE DEF i
          <6>. QED BY <2>3, <3>2, <4>2, <6>1
        <5>. QED BY SMT, <2>4, <4>1, <5>1, <5>2
      <4>. HIDE DEF i
      <4>. QED BY <4>2, <4>3 DEF Contains
    <3>. QED BY <3>1, <3>2 DEF Contains
  <2>8. KeepsOrder(short, list)
    BY <2>5 DEF KeepsOrder
  <2>. QED BY <2>3, <2>6, <2>7, <2>8 DEF short
<1>. QED BY <1>1, <1>2

\* ADD_TO_DQUEUE puts a request in front.
LEMMA ConsFacts ==
    ASSUME NEW S, NEW list \in Seq(S), NEW r \in S
    PROVE  /\ <<r>> \o list \in Seq(S)
           /\ OnceIn(list) /\ ~Contains(list, r) => OnceIn(<<r>> \o list)
           /\ \A x : Contains(<<r>> \o list, x) <=> Contains(list, x) \/ x = r
<1>. DEFINE long == <<r>> \o list
<1>1. <<r>> \in Seq(S) /\ Len(<<r>>) = 1 /\ <<r>>[1] = r
  BY SMT
<1>2. Len(list) \in Nat
  BY SMT
<1>3. /\ long \in Seq(S) /\ Len(long) = 1 + Len(list)
      /\ \A i \in 1..1 + Len(list) : long[i] = IF i <= 1 THEN <<r>>[i] ELSE list[i - 1]
  BY <1>1, ConcatFacts
<1>. HIDE DEF long
<1>4. long[1] = r /\ 1 \in 1..Len(long)
  BY SMT, <1>1, <1>2, <1>3
<1>5. \A i \in 2..Len(long) : i - 1 \in 1..Len(list) /\ long[i] = list[i - 1]
  BY SMT, <1>2, <1>3
<1>6. \A i \in 1..Len(list) : i + 1 \in 1..Len(long) /\ long[i + 1] = list[i]
  BY SMT, <1>2, <1>3
<1>7. \A i \in 1..Len(long) : i = 1 \/ i \in 2..Len(long)
  BY SMT, <1>2, <1>3
<1>8. ASSUME NEW x
      PROVE  Contains(long, x) <=> Contains(list, x) \/ x = r
  <2>1. Contains(list, x) \/ x = r => Contains(long, x)
    BY <1>4, <1>6 DEF Contains
  <2>2. ASSUME NEW i \in 1..Len(long), long[i] = x
        PROVE  Contains(list, x) \/ x = r
    <3>1. CASE i = 1
      BY <1>4, <2>2, <3>1
    <3>2. CASE i \in 2..Len(long)
      BY <1>5, <2>2, <3>2 DEF Contains
    <3>. QED BY <1>7, <3>1, <3>2
  <2>. QED BY <2>1, <2>2 DEF Contains
<1>9. ASSUME OnceIn(list), ~Contains(list, r)
      PROVE  OnceIn(long)
  <2>1. \A i \in 2..Len(long) : long[i] # r
    BY <1>5, <1>9 DEF Contains
  <2>2. ASSUME NEW i \in 2..Len(long), NEW j \in 2..Len(long), long[i] = long[j]
        PROVE  i = j
    <3>1. i - 1 = j - 1
      BY <1>5, <1>9, <2>2 DEF OnceIn
    <3>. QED BY SMT, <3>1
  <2>. QED BY <1>4, <1>7, <2>1, <2>2 DEF OnceIn
<1>. QED BY <1>3, <1>8, <1>9 DEF long

\* list with e linked in after its n-th member.
Linked(list, n, e) == SubSeq(list, 1, n) \o <<e>> \o SubSeq(list, n + 1, Len(list))

IsLinked(long, list, n, e) ==
    /\ Len(long) = Len(list) + 1
    /\ \A j \in 1..n : long[j] = list[j]
    /\ long[n + 1] = e
    /\ \A j \in n + 2..Len(list) + 1 : long[j] = list[j - 1]

LEMMA LinkFacts ==
    ASSUME NEW S, NEW list \in Seq(S), NEW n \in 0..Len(list), NEW e \in S
    PROVE  Linked(list, n, e) \in Seq(S) /\ IsLinked(Linked(list, n, e), list, n, e)
<1>. DEFINE long == Linked(list, n, e)
            one == <<e>>
            a == SubSeq(list, 1, n)
            b == SubSeq(list, n + 1, Len(list))
            c == a \o one
<1>1. Len(list) \in Nat /\ n \in Nat /\ n <= Len(list)
  BY SMT
<1>2. /\ a \in Seq(S) /\ Len(a) = n
      /\ \A j \in 1..n : a[j] = list[j]
  <2>1. \A j \in 1..n : list[j] \in S
    BY SMT
  <2>. QED BY SMT, <1>1, <2>1, SubSeqFacts
<1>3. /\ b \in Seq(S) /\ Len(b) = Len(list) - n
      /\ \A j \in 1..Len(list) - n : b[j] = list[n + j]
  <2>1. \A j \in n + 1..Len(list) : list[j] \in S
    BY SMT
  <2>2. /\ b \in Seq(S) /\ Len(b) = IF n + 1 <= Len(list) THEN Len(list) - (n + 1) + 1 ELSE 0
        /\ \A j \in 1..Len(list) - (n + 1) + 1 : b[j] = list[(n + 1) + j - 1]
    BY SMT, <1>1, <2>1, SubSeqFacts
  <2>3. Len(b) = Len(list) - n
    BY SMT, <1>1, <2>2
  <2>4. \A j \in 1..Len(list) - n : j \in 1..Len(list) - (n + 1) + 1 /\ (n + 1) + j - 1 = n + j
    BY SMT, <1>1
  <2>. QED BY <2>2, <2>3, <2>4
<1>4. long = c \o b
  BY DEF Linked
<1>5. one \in Seq(S) /\ Len(one) = 1 /\ one[1] = e
  BY SMT
<1>. HIDE DEF a, b, one, long
<1>6. /\ c \in Seq(S) /\ Len(c) = Len(a) + Len(one)
      /\ \A j \in 1..Len(a) + Len(one) : c[j] = IF j <= Len(a) THEN a[j] ELSE one[j - Len(a)]
  BY <1>2, <1>5, ConcatFacts
<1>. HIDE DEF c
<1>7. /\ c \in Seq(S) /\ Len(c) = n + 1
      /\ \A j \in 1..n : c[j] = list[j]
      /\ c[n + 1] = e
  BY SMT, <1>1, <1>2, <1>5, <1>6
<1>8. /\ c \o b \in Seq(S) /\ Len(c \o b) = Len(c) + Len(b)
      /\ \A j \in 1..Len(c) + Len(b) : (c \o b)[j] = IF j <= Len(c) THEN c[j] ELSE b[j - Len(c)]
  BY <1>3, <1>7, ConcatFacts
<1>9. /\ long \in Seq(S) /\ Len(long) = Len(list) + 1
      /\ \A j \in 1..Len(list) + 1 : long[j] = IF j <= n + 1 THEN c[j] ELSE b[j - (n + 1)]
  <2>1. Len(c) + Len(b) = Len(list) + 1
    BY SMT, <1>1, <1>3, <1>7
  <2>. QED BY <1>4, <1>7, <1>8, <2>1
<1>10. \A j \in 1..n : long[j] = list[j]
  <2>1. \A j \in 1..n : j \in 1..Len(list) + 1 /\ j <= n + 1
    BY SMT, <1>1
  <2>. QED BY <1>7, <1>9, <2>1
<1>11. long[n + 1] = e
  <2>1. n + 1 \in 1..Len(list) + 1 /\ n + 1 <= n + 1
    BY SMT, <1>1
  <2>. QED BY <1>7, <1>9, <2>1
<1>12. ASSUME NEW j \in n + 2..Len(list) + 1
       PROVE  long[j] = list[j - 1]
  <2>1. /\ j \in 1..Len(list) + 1 /\ ~(j <= n + 1)
        /\ j - (n + 1) \in 1..Len(list) - n /\ n + (j - (n + 1)) = j - 1
    BY SMT, <1>1
  <2>2. long[j] = b[j - (n + 1)]
    BY <1>9, <2>1
  <2>3. b[j - (n + 1)] = list[n + (j - (n + 1))]
    BY <1>3, <2>1
  <2>. QED BY <2>1, <2>2, <2>3
<1>13. IsLinked(long, list, n, e)
  BY <1>9, <1>10, <1>11, <1>12 DEF IsLinked
<1>. QED BY <1>9, <1>13 DEF long

LEMMA ModOnce ==
    ASSUME NEW n \in Nat \ {0}, NEW i \in 0..(2 * n - 1)
    PROVE  i % n = IF i < n THEN i ELSE i - n
<1>1. CASE i < n
  BY SMT, <1>1
<1>2. CASE i >= n
  BY SMT, <1>2
<1>. QED BY SMT, <1>1, <1>2

\* The ticks from now to a countdown, around the wrap of currentTick.
LEMMA TicksBetween ==
    ASSUME NEW n \in Nat \ {0}, NEW now \in 0..n - 1, NEW then \in 0..n - 1
    PROVE  (then + n - now) % n = IF now <= then THEN then - now ELSE then + n - now
<1>1. then + n - now \in 0..(2 * n - 1)
  BY SMT
<1>. DEFINE i == then + n - now
<1>. HIDE DEF i
<1>2. i % n = IF i < n THEN i ELSE i - n
  BY <1>1, ModOnce DEF i
<1>. QED BY SMT, <1>2 DEF i

\* addTimerEvent_noLock stores a countdown that is waitTicks away.
LEMMA TicksAhead ==
    ASSUME NEW n \in Nat \ {0}, NEW now \in 0..n - 1, NEW w \in 0..n - 1
    PROVE  /\ (now + w) % n \in 0..n - 1
           /\ (((now + w) % n) + n - now) % n = w
<1>. DEFINE i == now + w
<1>0. i \in 0..(2 * n - 1)
  BY SMT
<1>. HIDE DEF i
<1>1. (now + w) % n = IF now + w < n THEN now + w ELSE now + w - n
  <2>1. i % n = IF i < n THEN i ELSE i - n
    BY <1>0, ModOnce
  <2>. QED BY SMT, <2>1 DEF i
<1>2. (now + w) % n \in 0..n - 1
  BY SMT, <1>1
<1>. DEFINE then == (now + w) % n
<1>. HIDE DEF then
<1>3. (then + n - now) % n = IF now <= then THEN then - now ELSE then + n - now
  BY <1>2, TicksBetween DEF then
<1>4. then = IF now + w < n THEN now + w ELSE now + w - n
  BY <1>1 DEF then
<1>5. (then + n - now) % n = w
  BY SMT, <1>3, <1>4
<1>. QED BY <1>2, <1>5 DEF then

\* A tick that a countdown is not due at brings it one tick nearer.
LEMMA TicksNearer ==
    ASSUME NEW n \in Nat \ {0}, NEW now \in 0..n - 1, NEW then \in 0..n - 1,
           (then + n - now) % n # 0
    PROVE  /\ (now + 1) % n \in 0..n - 1
           /\ (then + n - ((now + 1) % n)) % n = ((then + n - now) % n) - 1
<1>1. (then + n - now) % n = IF now <= then THEN then - now ELSE then + n - now
  BY TicksBetween
<1>2. now # then /\ n >= 2
  BY SMT, <1>1
<1>. DEFINE i == now + 1
<1>0. i \in 0..(2 * n - 1)
  BY SMT, <1>2
<1>. HIDE DEF i
<1>3. (now + 1) % n = IF now + 1 < n THEN now + 1 ELSE now + 1 - n
  <2>1. i % n = IF i < n THEN i ELSE i - n
    BY <1>0, ModOnce
  <2>. QED BY SMT, <2>1 DEF i
<1>. DEFINE next == (now + 1) % n
<1>4. next \in 0..n - 1
  BY SMT, <1>3
<1>. HIDE DEF next
<1>5. (then + n - next) % n = IF next <= then THEN then - next ELSE then + n - next
  BY <1>4, TicksBetween
<1>6. next = IF now + 1 < n THEN now + 1 ELSE 0
  BY SMT, <1>3 DEF next
<1>7. (then + n - next) % n = ((then + n - now) % n) - 1
  BY SMT, <1>1, <1>2, <1>5, <1>6
<1>. QED BY <1>4, <1>7 DEF next

----------------------------------------------------------------------------
\* The task's two lists

\* A request is in one of the lists once, or the owner has taken it out, and it is not
\* deleted before that.
ListInv ==
    /\ pendingIOList \in Seq(Request) /\ completedIOList \in Seq(Request)
    /\ allocated \subseteq Request
    /\ OnceIn(pendingIOList) /\ OnceIn(completedIOList)
    /\ \A r \in Request : ~(Contains(pendingIOList, r) /\ Contains(completedIOList, r))
    /\ \A r \in Request :
          Contains(pendingIOList, r) \/ Contains(completedIOList, r) => r \in allocated
    /\ pc = "accept" => req \in allocated
    /\ pc \in {"accept", "cancel"} =>
          ~Contains(pendingIOList, req) /\ ~Contains(completedIOList, req)

LEMMA InitListInv == Init => ListInv
<1>1. OnceIn(<<>>) /\ \A r : ~Contains(<<>>, r)
  BY SMT DEF OnceIn, Contains
<1>. QED BY SMT, <1>1 DEF Init, IOInit, ListInv

\* A step that leaves the lists alone.
LEMMA ListsUnaffected ==
    ASSUME ListInv, UNCHANGED <<pendingIOList, completedIOList, allocated>>,
           pc' \in {"accept", "cancel"} => UNCHANGED <<pc, req>>
    PROVE  ListInv'
BY DEF ListInv

\* The owner deletes the request that it has taken out.
LEMMA RequestDeleted ==
    ASSUME ListInv, UNCHANGED <<pendingIOList, completedIOList>>, pc \in {"accept", "cancel"},
           allocated' = allocated \ {req}, pc' \notin {"accept", "cancel"}
    PROVE  ListInv'
<1>1. \A r \in Request : Contains(pendingIOList, r) \/ Contains(completedIOList, r) => r # req
  BY DEF ListInv
<1>. QED BY <1>1 DEF ListInv

\* The owner pends a new request, or again one that it has taken out.
LEMMA RequestPended ==
    ASSUME ListInv, NEW r \in Request, pendIO(r),
           ~Contains(pendingIOList, r), ~Contains(completedIOList, r),
           allocated' = allocated \cup {r}, pc' \notin {"accept", "cancel"}
    PROVE  ListInv'
<1>1. pendingIOList \in Seq(Request) /\ OnceIn(pendingIOList)
  BY DEF ListInv
<1>2. pendingIOList' = <<r>> \o pendingIOList /\ completedIOList' = completedIOList
  BY DEF pendIO
<1>3. /\ pendingIOList' \in Seq(Request) /\ OnceIn(pendingIOList')
      /\ \A x : Contains(pendingIOList', x) <=> Contains(pendingIOList, x) \/ x = r
  BY <1>1, <1>2, ConsFacts
<1>. QED BY <1>2, <1>3 DEF ListInv

\* The owner takes a request out of the lists, to cancel or to accept it.
LEMMA RequestTaken ==
    ASSUME ListInv, NEW r, UNCHANGED allocated, req' = r, pc' = "accept" => r \in allocated,
           pendingIOList' \in {pendingIOList, Without(pendingIOList, r)},
           completedIOList' \in {completedIOList, Without(completedIOList, r)},
           ~Contains(pendingIOList', r), ~Contains(completedIOList', r)
    PROVE  ListInv'
<1>1. /\ pendingIOList \in Seq(Request) /\ OnceIn(pendingIOList)
      /\ completedIOList \in Seq(Request) /\ OnceIn(completedIOList)
  BY DEF ListInv
<1>2. /\ pendingIOList' \in Seq(Request) /\ OnceIn(pendingIOList')
      /\ \A x : Contains(pendingIOList', x) => Contains(pendingIOList, x)
  BY SMT, <1>1, WithoutFacts
<1>3. /\ completedIOList' \in Seq(Request) /\ OnceIn(completedIOList')
      /\ \A x : Contains(completedIOList', x) => Contains(completedIOList, x)
  BY SMT, <1>1, WithoutFacts
<1>. QED BY <1>2, <1>3 DEF ListInv

\* completeIO moves a request to the completed list.
LEMMA RequestCompleted ==
    ASSUME ListInv, NEW r \in Request, completeList(r), UNCHANGED <<allocated, pc, req>>
    PROVE  /\ ListInv'
           /\ \A x : Contains(completedIOList', x) => Contains(completedIOList, x) \/ x = r
<1>1. CASE Contains(pendingIOList, r) \/ Contains(completedIOList, r)
  <2>1. /\ pendingIOList' = Without(pendingIOList, r)
        /\ completedIOList' = <<r>> \o Without(completedIOList, r)
    BY <1>1 DEF completeList
  <2>2. /\ pendingIOList \in Seq(Request) /\ OnceIn(pendingIOList)
        /\ completedIOList \in Seq(Request) /\ OnceIn(completedIOList)
    BY DEF ListInv
  <2>3. /\ pendingIOList' \in Seq(Request) /\ OnceIn(pendingIOList')
        /\ \A x : Contains(pendingIOList', x) <=> Contains(pendingIOList, x) /\ x # r
    BY <2>1, <2>2, WithoutFacts
  <2>. DEFINE rest == Without(completedIOList, r)
  <2>4. /\ rest \in Seq(Request) /\ OnceIn(rest)
        /\ \A x : Contains(rest, x) <=> Contains(completedIOList, x) /\ x # r
    BY <2>2, WithoutFacts
  <2>. HIDE DEF rest
  <2>5. /\ <<r>> \o rest \in Seq(Request) /\ OnceIn(<<r>> \o rest)
        /\ \A x : Contains(<<r>> \o rest, x) <=> Contains(rest, x) \/ x = r
    BY <2>4, ConsFacts
  <2>6. /\ completedIOList' \in Seq(Request) /\ OnceIn(completedIOList')
        /\ \A x : Contains(completedIOList', x) <=> Contains(completedIOList, x) \/ x = r
    BY <2>1, <2>4, <2>5 DEF rest
  <2>7. r \in allocated
    BY <1>1 DEF ListInv
  <2>8. pc \in {"accept", "cancel"} => req # r
    BY <1>1 DEF ListInv
  <2>. QED BY <2>3, <2>6, <2>7, <2>8 DEF ListInv
<1>2. CASE ~Contains(pendingIOList, r) /\ ~Contains(completedIOList, r)
  <2>1. UNCHANGED <<pendingIOList, completedIOList>>
    BY <1>2 DEF completeList, listVars
  <2>. QED BY <2>1, ListsUnaffected
<1>. QED BY <1>1, <1>2

\* Head(list) is in the list.
LEMMA HeadContained ==
    ASSUME NEW S, NEW list \in Seq(S), list # <<>>
    PROVE  Head(list) \in S /\ Contains(list, Head(list))
<1>1. 1 \in 1..Len(list) /\ Head(list) = list[1] /\ Head(list) \in S
  BY SMT
<1>. QED BY <1>1 DEF Contains

LEMMA ScanList ==
    ASSUME ListInv, Scan, req \in Request \cup {NoRequest}
    PROVE  /\ ListInv'
           /\ \A x : Contains(completedIOList', x) => Contains(completedIOList, x)
           /\ pc' = "accept" => Contains(completedIOList, req')
<1>1. CASE ~Found
  <2>1. UNCHANGED <<pendingIOList, completedIOList, allocated>> /\ pc' = "acquire"
    BY <1>1 DEF Scan
  <2>. QED BY <2>1, ListsUnaffected
<1>2. CASE Found
  <2>. DEFINE r == IF req = NoRequest THEN Head(completedIOList) ELSE req
  <2>1. completedIOList \in Seq(Request) /\ OnceIn(completedIOList)
    BY DEF ListInv
  <2>2. r \in Request /\ Contains(completedIOList, r)
    <3>1. CASE req = NoRequest
      <4>1. completedIOList # <<>>
        BY <1>2, <3>1 DEF Found
      <4>. QED BY <2>1, <3>1, <4>1, HeadContained
    <3>2. CASE req # NoRequest
      BY <1>2, <3>2 DEF Found
    <3>. QED BY <3>1, <3>2
  <2>3. /\ req' = r /\ completedIOList' = Without(completedIOList, r) /\ pc' = "accept"
        /\ UNCHANGED <<pendingIOList, allocated>>
    BY <1>2 DEF Scan
  <2>. HIDE DEF r
  <2>4. \A x : Contains(completedIOList', x) <=> Contains(completedIOList, x) /\ x # r
    BY <2>1, <2>3, WithoutFacts
  <2>5. ~Contains(pendingIOList', r)
    BY <2>2, <2>3 DEF ListInv
  <2>6. r \in allocated /\ ~Contains(completedIOList', r)
    BY <2>2, <2>4 DEF ListInv
  <2>7. ListInv'
    BY <2>3, <2>5, <2>6, RequestTaken
  <2>. QED BY <2>2, <2>3, <2>4, <2>7
<1>. QED BY <1>1, <1>2

----------------------------------------------------------------------------
\* The list of timer events

\* The events of the list exist and expire in its order.
InOrder ==
    \A j \in 1..Len(timerList) :
        /\ timerList[j] \in allocated
        /\ Remaining(timerList[j]) <= MaxWait
        /\ \A i \in 1..j - 1 : /\ timerList[i] # timerList[j]
                               /\ Remaining(timerList[i]) <= Remaining(timerList[j])

\* The event was completed and may be deleted by acceptTimerEvent.
Sent(e) == Contains(completedIOList, e) \/ (pc = "accept" /\ req = e)

TimerTypes ==
    /\ currentTick \in 0..COUNTDOWN_TICK_MODULAR - 1
    /\ timerList \in Seq(TimerEvent)
    /\ countdownTicks \in [TimerEvent -> 0..COUNTDOWN_TICK_MODULAR - 1]
    /\ tickPeriod \in [TimerEvent -> 0..MaxWait]
    /\ isSentToTask \in [TimerEvent -> BOOLEAN]
    /\ tick \in TickStep
    /\ curr \in TimerEvent \cup {NoEvent}

\* A one-shot event that was completed is out of the list, and so is the event that the
\* interrupt is at.
TimerInv ==
    /\ TimerTypes
    /\ InOrder
    /\ tick \in {"release", "again"} => curr \in TimerEvent /\ ~Contains(timerList, curr)
    /\ \A e \in TimerEvent : tickPeriod[e] = 0 /\ Sent(e) => ~Contains(timerList, e)

LEMMA InitTimerInv == Init => TimerInv
<1>. SUFFICES ASSUME Init PROVE TimerInv
  OBVIOUS
<1>. USE TimerAssumption
<1>1. TimerTypes
  BY SMT DEF Init, TimerTypes, TickStep
<1>2. Len(timerList) = 0 /\ tick = "idle"
  BY DEF Init
<1>3. InOrder /\ \A e : ~Contains(timerList, e)
  BY SMT, <1>2 DEF InOrder, Contains
<1>. QED BY <1>1, <1>2, <1>3 DEF TimerInv

LEMMA RemainingFacts ==
    ASSUME TimerTypes, NEW e \in TimerEvent
    PROVE  /\ Remaining(e) \in 0..COUNTDOWN_TICK_MODULAR - 1
           /\ Remaining(e) = 0 <=> countdownTicks[e] = currentTick
<1>. DEFINE n == COUNTDOWN_TICK_MODULAR
            then == countdownTicks[e]
<1>1. n \in Nat \ {0} /\ currentTick \in 0..n - 1 /\ then \in 0..n - 1
  BY SMT, TimerAssumption DEF TimerTypes
<1>2. Remaining(e) = (then + n - currentTick) % n
  BY DEF Remaining
<1>. HIDE DEF n, then
<1>3. Remaining(e) = IF currentTick <= then THEN then - currentTick ELSE then + n - currentTick
  BY <1>1, <1>2, TicksBetween
<1>4. Remaining(e) \in 0..n - 1 /\ (Remaining(e) = 0 <=> then = currentTick)
  BY SMT, <1>1, <1>3
<1>. QED BY <1>4 DEF n, then

LEMMA ListedOnce ==
    ASSUME TimerTypes, InOrder
    PROVE  OnceIn(timerList) /\ Len(timerList) \in Nat
<1>1. Len(timerList) \in Nat
  BY SMT DEF TimerTypes
<1>2. ASSUME NEW i \in 1..Len(timerList), NEW j \in 1..Len(timerList), i < j
      PROVE  timerList[i] # timerList[j]
  <2>1. i \in 1..j - 1
    BY SMT, <1>1, <1>2
  <2>. QED BY <2>1 DEF InOrder
<1>3. \A i, j \in 1..Len(timerList) : i < j \/ j < i \/ i = j
  BY SMT, <1>1
<1>. QED BY <1>1, <1>2, <1>3 DEF OnceIn

\* Events leave the list and the others keep their order.
LEMMA FewerInOrder ==
    ASSUME TimerTypes, InOrder, UNCHANGED currentTick, Len(timerList') \in Nat,
           KeepsOrder(timerList', timerList),
           \A i \in 1..Len(timerList') : Contains(timerList, timerList'[i]),
           \A i \in 1..Len(timerList') :
              /\ timerList'[i] \in allocated => timerList'[i] \in allocated'
              /\ countdownTicks'[timerList'[i]] = countdownTicks[timerList'[i]]
    PROVE  InOrder'
<1>. SUFFICES ASSUME NEW j \in 1..Len(timerList')
              PROVE  /\ timerList'[j] \in allocated'
                     /\ Remaining(timerList[j])' <= MaxWait
                     /\ \A i \in 1..j - 1 :
                           /\ timerList'[i] # timerList'[j]
                           /\ Remaining(timerList[i])' <= Remaining(timerList[j])'
  BY DEF InOrder
<1>1. \A i \in 1..Len(timerList') : Remaining(timerList[i])' = Remaining(timerList'[i])
  BY DEF Remaining
<1>2. PICK m \in 1..Len(timerList) : timerList[m] = timerList'[j]
  BY DEF Contains
<1>3. timerList'[j] \in allocated' /\ Remaining(timerList[j])' <= MaxWait
  BY <1>1, <1>2 DEF InOrder
<1>4. ASSUME NEW i \in 1..j - 1
      PROVE  /\ timerList'[i] # timerList'[j]
             /\ Remaining(timerList[i])' <= Remaining(timerList[j])'
  <2>1. i \in 1..Len(timerList') /\ i < j
    BY SMT
  <2>2. PICK a \in 1..Len(timerList), b \in 1..Len(timerList) :
               a < b /\ timerList[a] = timerList'[i] /\ timerList[b] = timerList'[j]
    <3>1. \E k, l \in 1..Len(timerList) :
             k < l /\ timerList[k] = timerList'[i] /\ timerList[l] = timerList'[j]
      <4>1. j \in 1..Len(timerList')
        OBVIOUS
      <4>. QED BY ZenonT(30), <2>1, <4>1 DEF KeepsOrder
    <3>. QED BY <3>1
  <2>3. a \in 1..b - 1
    BY SMT, <2>2, ListedOnce
  <2>4. timerList[a] # timerList[b] /\ Remaining(timerList[a]) <= Remaining(timerList[b])
    BY <2>3 DEF InOrder
  <2>. QED BY <1>1, <2>1, <2>2, <2>4
<1>. QED BY <1>3, <1>4

\* A step that is not about timer events.
LEMMA TimersUnaffected ==
    ASSUME TimerInv, OnlyIO,
           \A e \in TimerEvent : e \in allocated => e \in allocated',
           \A e \in TimerEvent : Sent(e)' => Sent(e)
    PROVE  TimerInv'
<1>1. /\ UNCHANGED <<currentTick, timerList, countdownTicks, tickPeriod, isSentToTask>>
      /\ UNCHANGED <<tick, curr>>
  BY DEF OnlyIO, timerVars, tickVars
<1>2. TimerTypes'
  BY <1>1 DEF TimerInv, TimerTypes
<1>3. InOrder'
  <2>1. \A i \in 1..Len(timerList) : timerList[i] \in TimerEvent
    BY SMT DEF TimerInv, TimerTypes
  <2>2. \A i \in 1..Len(timerList) : Remaining(timerList[i])' = Remaining(timerList[i])
    BY <1>1 DEF Remaining
  <2>. QED BY <1>1, <2>1, <2>2 DEF TimerInv, InOrder, Remaining
<1>4. \A e \in TimerEvent : tickPeriod'[e] = 0 /\ Sent(e)' => ~Contains(timerList', e)
  BY <1>1 DEF TimerInv
<1>5. tick' \in {"release", "again"} => curr' \in TimerEvent /\ ~Contains(timerList', curr')
  BY <1>1 DEF TimerInv
<1>. QED BY <1>2, <1>3, <1>4, <1>5 DEF TimerInv

\* A step that is about neither.
LEMMA QuietStep ==
    ASSUME ListInv, TimerInv, OnlyIO, UNCHANGED <<pendingIOList, completedIOList, allocated>>,
           pc' \in {"accept", "cancel"} => UNCHANGED <<pc, req>>
    PROVE  ListInv' /\ TimerInv'
<1>1. \A e \in TimerEvent : Sent(e)' => Sent(e)
  BY DEF Sent
<1>. QED BY <1>1, ListsUnaffected, TimersUnaffected

LEMMA IOStepOrder ==
    ASSUME ListInv, TimerInv, IOStep, req \in Request \cup {NoRequest}
    PROVE  ListInv' /\ TimerInv'
<1>. USE TimerAssumption
<1>1. ASSUME NEW r \in Service, Submit(r), OnlyIO
      PROVE  ListInv' /\ TimerInv'
  <2>1. /\ pendIO(r) /\ allocated' = allocated \cup {r} /\ pc' = "run" /\ r \notin allocated
        /\ UNCHANGED completedIOList /\ r \in Request
    BY <1>1 DEF Submit, At, ownerVars, pendIO
  <2>2. ~Contains(pendingIOList, r) /\ ~Contains(completedIOList, r)
    BY <2>1 DEF ListInv
  <2>3. ListInv'
    BY <2>1, <2>2, RequestPended
  <2>4. \A e \in TimerEvent : Sent(e)' => Sent(e)
    BY <2>1 DEF Sent
  <2>. QED BY <1>1, <2>1, <2>3, <2>4, TimersUnaffected
<1>2. ASSUME NEW r \in Service, Claim(r) \/ ServiceReleases(r), OnlyIO
      PROVE  ListInv' /\ TimerInv'
  BY <1>2, QuietStep DEF Claim, ServiceReleases, listVars, ownerVars
<1>3. ASSUME NEW r \in Service, ServiceCompletes(r), OnlyIO
      PROVE  ListInv' /\ TimerInv'
  <2>1. completeList(r) /\ UNCHANGED <<allocated, pc, req>> /\ r \in Request /\ r \notin TimerEvent
    BY <1>3 DEF ServiceCompletes, ownerVars
  <2>2. /\ ListInv'
        /\ \A x : Contains(completedIOList', x) => Contains(completedIOList, x) \/ x = r
    BY <2>1, RequestCompleted
  <2>3. \A e \in TimerEvent : Sent(e)' => Sent(e)
    BY <2>1, <2>2 DEF Sent
  <2>. QED BY <1>3, <2>1, <2>2, <2>3, TimersUnaffected
<1>4. ASSUME NEW r \in Request, cancelIO(r), OnlyIO
      PROVE  ListInv' /\ TimerInv'
  <2>1. /\ Contains(pendingIOList, r) /\ pendingIOList' = Without(pendingIOList, r)
        /\ UNCHANGED <<completedIOList, allocated>> /\ pc' = "cancel" /\ req' = r
    BY <1>4 DEF cancelIO
  <2>2. pendingIOList \in Seq(Request) /\ OnceIn(pendingIOList) /\ ~Contains(completedIOList, r)
    BY <2>1 DEF ListInv
  <2>3. ~Contains(pendingIOList', r)
    BY <2>1, <2>2, WithoutFacts
  <2>4. ListInv'
    BY <2>1, <2>2, <2>3, RequestTaken
  <2>5. \A e \in TimerEvent : Sent(e)' => Sent(e)
    BY <2>1 DEF Sent
  <2>. QED BY <1>4, <2>1, <2>4, <2>5, TimersUnaffected
<1>5. CASE OnlyIO /\ \E r \in Request \cup {NoRequest} : WaitIO(r)
  BY <1>5, QuietStep DEF WaitIO, listVars
<1>6. CASE OnlyIO /\ (ReadValue \/ Drain \/ WaitSemaphore)
  BY <1>6, QuietStep DEF ReadValue, Drain, WaitSemaphore, Acquire, At, listVars
<1>7. CASE OnlyIO /\ (Terminate \/ NextRequest)
  BY <1>7, QuietStep DEF Terminate, NextRequest, At, listVars
<1>8. CASE OnlyIO /\ Scan
  <2>1. /\ ListInv' /\ allocated' = allocated /\ pc' \in {"accept", "acquire"}
        /\ \A x : Contains(completedIOList', x) => Contains(completedIOList, x)
        /\ pc' = "accept" => Contains(completedIOList, req')
    BY <1>8, ScanList DEF Scan
  <2>2. \A e \in TimerEvent : Sent(e)' => Sent(e)
    BY <2>1 DEF Sent
  <2>. QED BY <1>8, <2>1, <2>2, TimersUnaffected
<1>9. CASE OnlyIO /\ tryCancelIO
  <2>1. CASE ~cancellable[req]
    BY <1>9, <2>1, QuietStep DEF tryCancelIO
  <2>2. CASE cancellable[req]
    <3>1. /\ pendingIOList' = Without(pendingIOList, req)
          /\ completedIOList' = Without(completedIOList, req)
          /\ pc' = "cancel" /\ UNCHANGED <<allocated, req>>
      BY <1>9, <2>2 DEF tryCancelIO
    <3>2. /\ pendingIOList \in Seq(Request) /\ OnceIn(pendingIOList)
          /\ completedIOList \in Seq(Request) /\ OnceIn(completedIOList)
      BY DEF ListInv
    <3>3. ~Contains(pendingIOList', req)
      BY <3>1, <3>2, WithoutFacts
    <3>4. \A x : Contains(completedIOList', x) <=> Contains(completedIOList, x) /\ x # req
      BY <3>1, <3>2, WithoutFacts
    <3>5. ListInv'
      BY <3>1, <3>3, <3>4, RequestTaken
    <3>6. \A e \in TimerEvent : Sent(e)' => Sent(e)
      BY <3>1, <3>4 DEF Sent
    <3>. QED BY <1>9, <3>1, <3>5, <3>6, TimersUnaffected
  <2>. QED BY <2>1, <2>2
<1>10. CASE OnlyIO /\ (ServiceCancel \/ ServiceAccept)
  <2>1. /\ UNCHANGED <<pendingIOList, completedIOList>> /\ allocated' = allocated \ {req}
        /\ pc \in {"accept", "cancel"} /\ pc' \in {"run", "next"} /\ req \in Service
    BY <1>10 DEF ServiceCancel, ServiceAccept, At, Return, listVars
  <2>2. ListInv'
    BY <2>1, RequestDeleted
  <2>3. \A e \in TimerEvent : Sent(e)' => Sent(e)
    BY <2>1 DEF Sent
  <2>. QED BY <1>10, <2>1, <2>2, <2>3, TimersUnaffected
<1>11. CASE OnlyIO /\ Stopped
  BY <1>11, QuietStep DEF Stopped, ioVars, listVars, ownerVars
<1>. QED
  BY <1>1, <1>2, <1>3, <1>4, <1>5, <1>6, <1>7, <1>8, <1>9, <1>10, <1>11 DEF IOStep

\* DELETE of an event, which is not in the list then.
LEMMA DeleteTypes ==
    ASSUME TimerTypes, NEW e \in TimerEvent, DELETE(e), timerList' \in Seq(TimerEvent),
           UNCHANGED <<currentTick, tick, curr>>
    PROVE  /\ TimerTypes'
           /\ \A x \in TimerEvent : x # e =>
                 /\ countdownTicks'[x] = countdownTicks[x]
                 /\ tickPeriod'[x] = tickPeriod[x]
                 /\ x \in allocated => x \in allocated'
BY SMT, TimerAssumption DEF TimerTypes, DELETE

LEMMA CancelTimerOrder ==
    ASSUME ListInv, TimerInv, cancelTimerEvent
    PROVE  ListInv' /\ TimerInv'
<1>. DEFINE e == req
<1>1. /\ pc = "cancel" /\ e \in TimerEvent /\ tick = "idle" /\ tick' = "idle" /\ curr' = curr
      /\ timerList' = Without(timerList, e) /\ DELETE(e) /\ pc' \in {"run", "next"}
      /\ UNCHANGED <<pendingIOList, completedIOList, currentTick>>
  BY DEF cancelTimerEvent, At, Return, listVars, tickVars
<1>2. ListInv'
  BY <1>1, RequestDeleted DEF DELETE
<1>. HIDE DEF e
<1>3. TimerTypes /\ InOrder /\ timerList \in Seq(TimerEvent) /\ OnceIn(timerList)
  BY ListedOnce DEF TimerInv, TimerTypes
<1>4. /\ timerList' \in Seq(TimerEvent)
      /\ \A x : Contains(timerList', x) <=> Contains(timerList, x) /\ x # e
      /\ KeepsOrder(timerList', timerList)
  BY <1>1, <1>3, WithoutFacts
<1>5. /\ TimerTypes'
      /\ \A x \in TimerEvent : x # e =>
            /\ countdownTicks'[x] = countdownTicks[x]
            /\ tickPeriod'[x] = tickPeriod[x]
            /\ x \in allocated => x \in allocated'
  BY <1>1, <1>3, <1>4, DeleteTypes
<1>6. InOrder'
  <2>1. \A i \in 1..Len(timerList') :
           /\ Contains(timerList', timerList'[i]) /\ timerList'[i] \in TimerEvent
    BY SMT, <1>4 DEF Contains
  <2>2. \A i \in 1..Len(timerList') :
           /\ Contains(timerList, timerList'[i])
           /\ timerList'[i] \in allocated => timerList'[i] \in allocated'
           /\ countdownTicks'[timerList'[i]] = countdownTicks[timerList'[i]]
    BY <1>4, <1>5, <2>1
  <2>3. Len(timerList') \in Nat
    BY SMT, <1>4
  <2>. QED BY <1>1, <1>3, <1>4, <2>2, <2>3, FewerInOrder
<1>7. ASSUME NEW x \in TimerEvent, tickPeriod'[x] = 0, Sent(x)'
      PROVE  ~Contains(timerList', x)
  <2>1. Sent(x)
    BY <1>1, <1>7 DEF Sent
  <2>2. CASE x = e
    BY <1>4, <2>2
  <2>3. CASE x # e
    BY <1>4, <1>5, <1>7, <2>1, <2>3 DEF TimerInv
  <2>. QED BY <2>2, <2>3
<1>. QED BY <1>1, <1>2, <1>5, <1>6, <1>7 DEF TimerInv

LEMMA AcceptTimerOrder ==
    ASSUME ListInv, TimerInv, acceptTimerEvent
    PROVE  ListInv' /\ TimerInv'
<1>. USE TimerAssumption
<1>. DEFINE e == req
<1>1. /\ pc = "accept" /\ e \in TimerEvent /\ pc' \in {"run", "next"}
      /\ UNCHANGED <<currentTick, timerList, tick, curr, completedIOList>>
  BY DEF acceptTimerEvent, At, Return, listVars, tickVars, pendIO
<1>2. TimerTypes /\ InOrder
  BY DEF TimerInv
<1>3. CASE tickPeriod[e] = 0
  <2>1. DELETE(e) /\ UNCHANGED pendingIOList
    BY SMT, <1>2, <1>3 DEF acceptTimerEvent, listVars
  <2>2. ListInv'
    BY <1>1, <2>1, RequestDeleted DEF DELETE
  <2>3. ~Contains(timerList, e)
    BY <1>1, <1>3 DEF TimerInv, Sent
  <2>. HIDE DEF e
  <2>4. /\ TimerTypes'
        /\ \A x \in TimerEvent : x # e =>
              /\ countdownTicks'[x] = countdownTicks[x]
              /\ tickPeriod'[x] = tickPeriod[x]
              /\ x \in allocated => x \in allocated'
    <3>1. timerList' \in Seq(TimerEvent)
      BY <1>1, <1>2 DEF TimerTypes
    <3>. QED BY <1>1, <1>2, <2>1, <3>1, DeleteTypes
  <2>5. InOrder'
    <3>1. \A i \in 1..Len(timerList) : timerList[i] \in TimerEvent /\ timerList[i] # e
      BY SMT, <1>2, <2>3 DEF TimerTypes, Contains
    <3>2. \A i \in 1..Len(timerList) : Remaining(timerList[i])' = Remaining(timerList[i])
      BY <1>1, <2>4, <3>1 DEF Remaining
    <3>. QED BY SMT, <1>1, <1>2, <2>4, <3>1, <3>2 DEF InOrder
  <2>6. ASSUME NEW x \in TimerEvent, tickPeriod'[x] = 0, Sent(x)'
        PROVE  ~Contains(timerList', x)
    <3>1. Sent(x)
      BY <1>1, <2>6 DEF Sent
    <3>2. CASE x = e
      BY <1>1, <2>3, <3>2
    <3>3. CASE x # e
      BY <1>1, <2>4, <2>6, <3>1, <3>3 DEF TimerInv
    <3>. QED BY <3>2, <3>3
  <2>7. tick' \in {"release", "again"} => curr' \in TimerEvent /\ ~Contains(timerList', curr')
    BY <1>1 DEF TimerInv
  <2>. QED BY <2>2, <2>4, <2>5, <2>6, <2>7 DEF TimerInv
<1>4. CASE tickPeriod[e] # 0
  <2>1. /\ pendIO(e) /\ UNCHANGED <<allocated, countdownTicks, tickPeriod>>
        /\ isSentToTask' = [isSentToTask EXCEPT ![e] = FALSE]
    BY <1>4 DEF acceptTimerEvent
  <2>2. /\ ~Contains(pendingIOList, e) /\ ~Contains(completedIOList, e)
        /\ allocated' = allocated \cup {e} /\ e \in Request
    BY <1>1, <2>1 DEF ListInv
  <2>. HIDE DEF e
  <2>3. ListInv'
    BY <1>1, <2>1, <2>2, RequestPended
  <2>4. TimerTypes'
    BY <1>1, <1>2, <2>1 DEF TimerTypes
  <2>5. InOrder'
    <3>1. \A i \in 1..Len(timerList) : Remaining(timerList[i])' = Remaining(timerList[i])
      BY <1>1, <2>1 DEF Remaining
    <3>. QED BY SMT, <1>1, <1>2, <2>1, <3>1 DEF InOrder
  <2>6. \A x \in TimerEvent : tickPeriod'[x] = 0 /\ Sent(x)' => ~Contains(timerList', x)
    BY <1>1, <2>1 DEF TimerInv, Sent
  <2>7. tick' \in {"release", "again"} => curr' \in TimerEvent /\ ~Contains(timerList', curr')
    BY <1>1 DEF TimerInv
  <2>. QED BY <2>3, <2>4, <2>5, <2>6, <2>7 DEF TimerInv
<1>. QED BY <1>3, <1>4

LEMMA ExpireOrder ==
    ASSUME ListInv, TimerInv, Expire
    PROVE  ListInv' /\ TimerInv'
<1>. USE TimerAssumption
<1>. DEFINE e == Head(timerList)
<1>1. /\ tick = "loop" /\ timerList # <<>> /\ curr' = e /\ timerList' = Tail(timerList)
      /\ tick' \in {"release", "again"}
      /\ UNCHANGED <<allocated, pc, req, currentTick, countdownTicks, tickPeriod>>
      /\ \/ UNCHANGED <<isSentToTask, pendingIOList, completedIOList>>
         \/ isSentToTask' = [isSentToTask EXCEPT ![e] = TRUE] /\ completeList(e)
  BY DEF Expire, Due, ownerVars, listVars
<1>2. TimerTypes /\ InOrder /\ timerList \in Seq(TimerEvent) /\ OnceIn(timerList)
  BY ListedOnce DEF TimerInv, TimerTypes
<1>3. /\ e \in TimerEvent /\ e = timerList[1] /\ 1 \in 1..Len(timerList)
      /\ timerList' \in Seq(TimerEvent) /\ Len(timerList') \in Nat
      /\ \A i \in 1..Len(timerList') :
            i \in Nat /\ i >= 1 /\ i + 1 \in 1..Len(timerList) /\ timerList'[i] = timerList[i + 1]
  BY SMT, <1>1, <1>2, TailFacts
<1>. HIDE DEF e
<1>4. /\ ListInv'
      /\ \A x : Contains(completedIOList', x) => Contains(completedIOList, x) \/ x = e
  <2>1. CASE UNCHANGED <<pendingIOList, completedIOList>>
    BY <1>1, <2>1, ListsUnaffected
  <2>2. CASE completeList(e)
    BY <1>1, <1>3, <2>2, RequestCompleted
  <2>. QED BY <1>1, <2>1, <2>2
<1>5. ~Contains(timerList', e) /\ \A x : Contains(timerList', x) => Contains(timerList, x)
  <2>1. \A i \in 1..Len(timerList') : timerList'[i] # e
    <3>1. ASSUME NEW i \in 1..Len(timerList'), timerList'[i] = e
          PROVE  FALSE
      <4>1. i + 1 = 1
        BY <1>2, <1>3, <3>1 DEF OnceIn
      <4>. QED BY SMT, <1>3, <4>1
    <3>. QED BY <3>1
  <2>. QED BY <1>3, <2>1 DEF Contains
<1>6. InOrder'
  <2>1. ASSUME NEW i \in 1..Len(timerList'), NEW j \in 1..Len(timerList'), i < j
        PROVE  \E k, l \in 1..Len(timerList) :
                  k < l /\ timerList[k] = timerList'[i] /\ timerList[l] = timerList'[j]
    <3>1. i + 1 < j + 1
      BY SMT, <1>3, <2>1
    <3>. QED BY <1>3, <3>1
  <2>2. \A i \in 1..Len(timerList') : Contains(timerList, timerList'[i])
    BY <1>3 DEF Contains
  <2>3. KeepsOrder(timerList', timerList)
    BY <2>1 DEF KeepsOrder
  <2>. QED BY <1>1, <1>2, <1>3, <2>2, <2>3, FewerInOrder
<1>7. TimerTypes'
  BY <1>1, <1>2, <1>3 DEF TimerTypes, TickStep
<1>8. ASSUME NEW x \in TimerEvent, tickPeriod'[x] = 0, Sent(x)'
      PROVE  ~Contains(timerList', x)
  <2>1. CASE x = e
    BY <1>5, <2>1
  <2>2. CASE x # e
    <3>1. Sent(x) /\ tickPeriod[x] = 0
      BY <1>1, <1>4, <1>8, <2>2 DEF Sent
    <3>. QED BY <1>5, <3>1 DEF TimerInv
  <2>. QED BY <2>1, <2>2
<1>. QED BY <1>1, <1>3, <1>4, <1>5, <1>6, <1>7, <1>8 DEF TimerInv

\* handleTimerEvents has removed every event of this tick: no countdown is passed.
LEMMA TickEndsOrder ==
    ASSUME ListInv, TimerInv, TickEnds
    PROVE  ListInv' /\ TimerInv'
<1>. DEFINE n == COUNTDOWN_TICK_MODULAR
<1>1. /\ ~Due /\ currentTick' = (currentTick + 1) % n /\ tick' = "idle"
      /\ UNCHANGED <<pendingIOList, completedIOList, allocated, pc, req, timerList, countdownTicks,
                     tickPeriod, isSentToTask, curr>>
  BY DEF TickEnds, ioVars, listVars, ownerVars
<1>2. ListInv'
  BY <1>1, ListsUnaffected
<1>3. /\ TimerTypes /\ InOrder /\ timerList \in Seq(TimerEvent)
      /\ n \in Nat \ {0} /\ currentTick \in 0..n - 1
      /\ \A x \in TimerEvent : countdownTicks[x] \in 0..n - 1
  BY SMT, TimerAssumption DEF TimerInv, TimerTypes
<1>4. \A x \in TimerEvent : Remaining(x) \in Nat
  BY SMT, <1>3, RemainingFacts
<1>5. ASSUME NEW j \in 1..Len(timerList)
      PROVE  Remaining(timerList[j]) # 0
  <2>1. /\ timerList # <<>> /\ 1 \in 1..Len(timerList) /\ Head(timerList) = timerList[1]
        /\ timerList[1] \in TimerEvent /\ timerList[j] \in TimerEvent
        /\ j = 1 \/ 1 \in 1..j - 1
    BY SMT, <1>3
  <2>2. Remaining(timerList[1]) # 0
    BY <1>1, <1>3, <2>1, RemainingFacts DEF Due
  <2>3. CASE j = 1
    BY <2>2, <2>3
  <2>4. CASE 1 \in 1..j - 1
    <3>1. Remaining(timerList[1]) <= Remaining(timerList[j])
      BY <1>3, <2>4 DEF InOrder
    <3>. QED BY SMT, <1>4, <2>1, <2>2, <3>1
  <2>. QED BY <2>1, <2>3, <2>4
<1>6. currentTick' \in 0..n - 1
  <2>1. CASE currentTick + 1 < n
    BY SMT, <1>1, <1>3, <2>1
  <2>2. CASE currentTick + 1 = n
    BY SMT, <1>1, <1>3, <2>2
  <2>. QED BY SMT, <1>3, <2>1, <2>2
<1>7. ASSUME NEW j \in 1..Len(timerList)
      PROVE  Remaining(timerList[j])' = Remaining(timerList[j]) - 1
  <2>. DEFINE then == countdownTicks[timerList[j]]
  <2>1. then \in 0..n - 1
    BY SMT, <1>3
  <2>2. (then + n - currentTick) % n # 0
    BY <1>5 DEF Remaining
  <2>. HIDE DEF n, then
  <2>3. (then + n - ((currentTick + 1) % n)) % n = ((then + n - currentTick) % n) - 1
    BY <1>3, <2>1, <2>2, TicksNearer
  <2>. QED BY <1>1, <2>3 DEF Remaining, n, then
<1>8. TimerTypes'
  BY <1>1, <1>3, <1>6 DEF TimerTypes, TickStep
<1>9. InOrder'
  <2>1. \A j \in 1..Len(timerList) : Remaining(timerList[j]) \in Nat
    BY SMT, <1>3, <1>4
  <2>2. ASSUME NEW j \in 1..Len(timerList)
        PROVE  Remaining(timerList[j])' <= MaxWait
    <3>1. Remaining(timerList[j]) <= MaxWait
      BY <1>3 DEF InOrder
    <3>. QED BY SMT, <1>7, <2>1, <3>1, TimerAssumption
  <2>3. ASSUME NEW j \in 1..Len(timerList), NEW i \in 1..j - 1
        PROVE  Remaining(timerList[i])' <= Remaining(timerList[j])'
    <3>1. i \in 1..Len(timerList)
      BY SMT, <1>3
    <3>2. Remaining(timerList[i]) <= Remaining(timerList[j])
      BY <1>3 DEF InOrder
    <3>. QED BY SMT, <1>7, <2>1, <3>1, <3>2
  <2>. QED BY <1>1, <1>3, <2>2, <2>3 DEF InOrder
<1>10. \A x \in TimerEvent : tickPeriod'[x] = 0 /\ Sent(x)' => ~Contains(timerList', x)
  BY <1>1 DEF TimerInv, Sent
<1>. QED BY <1>1, <1>2, <1>8, <1>9, <1>10 DEF TimerInv

\* The steps of the interrupt that leave its list alone.
LEMMA InterruptOrder ==
    ASSUME ListInv, TimerInv, TimerInterrupt \/ ReleaseEvent
    PROVE  ListInv' /\ TimerInv'
<1>1. /\ UNCHANGED <<pendingIOList, completedIOList, allocated, pc, req, currentTick, timerList,
                     countdownTicks, tickPeriod, isSentToTask, curr>>
      /\ tick' = "loop" \/ (tick = "release" /\ tick' = "again")
  BY DEF TimerInterrupt, ReleaseEvent, ioVars, timerVars, listVars, ownerVars
<1>2. ListInv'
  BY <1>1, ListsUnaffected
<1>3. TimerTypes'
  BY <1>1 DEF TimerInv, TimerTypes, TickStep
<1>4. InOrder'
  <2>1. \A i \in 1..Len(timerList) : Remaining(timerList[i])' = Remaining(timerList[i])
    BY <1>1 DEF Remaining
  <2>. QED BY SMT, <1>1, <2>1 DEF TimerInv, InOrder
<1>5. \A x \in TimerEvent : tickPeriod'[x] = 0 /\ Sent(x)' => ~Contains(timerList', x)
  BY <1>1 DEF TimerInv, Sent
<1>6. tick' \in {"release", "again"} => curr' \in TimerEvent /\ ~Contains(timerList', curr')
  BY <1>1 DEF TimerInv
<1>. QED BY <1>2, <1>3, <1>4, <1>5, <1>6 DEF TimerInv

----------------------------------------------------------------------------
\* What is left of the types

OwnerTypes ==
    /\ pc \in OwnerStep
    /\ req \in Request \cup {NoRequest}
    /\ ending \in BOOLEAN
    /\ fault \in Fault

LEMMA IOStepTypes ==
    ASSUME OwnerTypes, ListInv, IOStep
    PROVE  OwnerTypes'
<1>1. CASE \/ \E r \in Service : \/ Submit(r) \/ Claim(r) \/ ServiceCompletes(r)
                                 \/ ServiceReleases(r)
           \/ \E r \in Request : cancelIO(r)
           \/ \E r \in Request \cup {NoRequest} : WaitIO(r)
  BY <1>1 DEF OwnerTypes, Submit, Claim, ServiceCompletes, ServiceReleases, cancelIO, WaitIO,
              completeList, completeRelease, ownerVars, OwnerStep, Fault
<1>2. CASE ReadValue \/ Drain \/ WaitSemaphore \/ Terminate \/ tryCancelIO \/ Stopped
  BY <1>2 DEF OwnerTypes, ReadValue, Drain, WaitSemaphore, Acquire, Terminate, tryCancelIO, Stopped,
              ioVars, ownerVars, OwnerStep
<1>3. CASE Scan
  <2>1. CASE Found
    <3>1. completedIOList \in Seq(Request)
      BY DEF ListInv
    <3>2. req = NoRequest => Head(completedIOList) \in Request
      BY <2>1, <3>1, HeadContained DEF Found
    <3>. QED BY <1>3, <2>1, <3>2 DEF Scan, OwnerTypes, OwnerStep
  <2>2. CASE ~Found
    BY <1>3, <2>2 DEF Scan, OwnerTypes, OwnerStep
  <2>. QED BY <2>1, <2>2
<1>4. CASE NextRequest
  <2>. DEFINE list == pendingIOList \o completedIOList
  <2>1. list \in Seq(Request)
    BY ConcatFacts DEF ListInv
  <2>2. /\ UNCHANGED <<ending, fault>>
        /\ \/ list # <<>> /\ req' = Head(list) /\ pc' = "tryCancel"
           \/ pc' = "dead" /\ req' = req
    BY <1>4 DEF NextRequest
  <2>. HIDE DEF list
  <2>3. list # <<>> => Head(list) \in Request
    BY SMT, <2>1
  <2>. QED BY <2>2, <2>3 DEF OwnerTypes, OwnerStep
<1>5. CASE ServiceCancel \/ ServiceAccept
  BY <1>5 DEF OwnerTypes, ServiceCancel, ServiceAccept, Return, OwnerStep, Fault
<1>. QED BY <1>1, <1>2, <1>3, <1>4, <1>5 DEF IOStep

LEMMA TimerStepTypes ==
    ASSUME OwnerTypes, TimerOwnerNext \/ TickNext
    PROVE  OwnerTypes'
<1>1. CASE TimerOwnerNext
  BY <1>1 DEF TimerOwnerNext, setAlarm, cancelTimerEvent, acceptTimerEvent, Return, ownerVars,
              OwnerTypes, OwnerStep
<1>2. CASE TickNext
  <2>1. UNCHANGED ownerVars
    BY <1>2 DEF TickNext, TimerInterrupt, Expire, ReleaseEvent, AddAgain, TickEnds, ioVars
  <2>2. fault' \in Fault
    BY <1>2 DEF TickNext, TimerInterrupt, Expire, ReleaseEvent, AddAgain, TickEnds, ioVars,
                completeList, completeRelease, OwnerTypes, Fault
  <2>. QED BY <2>1, <2>2 DEF OwnerTypes, ownerVars
<1>. QED BY <1>1, <1>2

----------------------------------------------------------------------------
\* The place of a new event

FST == INSTANCE FiniteSetTheorems

\* The members that a search passes by are the first ones.
LEMMA PrefixFacts ==
    ASSUME NEW L \in Nat, NEW P \in SUBSET (1..L), \A i \in P : 1..i \subseteq P
    PROVE  /\ Cardinality(P) \in 0..L
           /\ P = 1..Cardinality(P)
<1>. DEFINE n == Cardinality(P)
<1>0. \A S : FST!Cardinality(S) = Cardinality(S)
  BY DEF FST!Cardinality, Cardinality
<1>1. FST!IsFiniteSet(1..L) /\ Cardinality(1..L) = L
  BY SMT, <1>0, FST!FS_Interval
<1>2. FST!IsFiniteSet(P) /\ n <= L
  <2>1. FST!IsFiniteSet(P) /\ FST!Cardinality(P) <= FST!Cardinality(1..L)
    BY <1>1, FST!FS_Subset
  <2>. QED BY <1>0, <1>1, <2>1
<1>3. n \in Nat
  BY <1>0, <1>2, FST!FS_CardinalityType
<1>4. ASSUME NEW i \in P
      PROVE  i \in 1..n
  <2>1. i \in Nat /\ i >= 1
    BY SMT
  <2>2. Cardinality(1..i) = i
    BY SMT, <1>0, <2>1, FST!FS_Interval
  <2>3. 1..i \in SUBSET P
    OBVIOUS
  <2>4. i <= n
    BY SMTT(20), <1>0, <1>2, <2>2, <2>3, FST!FS_Subset
  <2>. QED BY SMT, <1>3, <2>1, <2>4
<1>5. P \in SUBSET (1..n)
  BY <1>4
<1>6. FST!IsFiniteSet(1..n) /\ Cardinality(1..n) = n
  BY SMT, <1>0, <1>3, FST!FS_Interval
<1>7. P = 1..n
  BY <1>0, <1>5, <1>6, FST!FS_Subset
<1>. QED BY SMT, <1>2, <1>3, <1>7

\* addTimerEvent_noLock: the search ends at the place that keeps the list in order.
LEMMA AddInOrder ==
    ASSUME TimerTypes, InOrder, NEW e \in TimerEvent, NEW w \in 1..MaxWait, addTimerEvent(e, w),
           ~Contains(timerList, e), UNCHANGED currentTick, e \in allocated',
           allocated \subseteq allocated'
    PROVE  /\ timerList' \in Seq(TimerEvent)
           /\ countdownTicks' \in [TimerEvent -> 0..COUNTDOWN_TICK_MODULAR - 1]
           /\ isSentToTask' \in [TimerEvent -> BOOLEAN]
           /\ InOrder'
           /\ \A x : Contains(timerList', x) <=> Contains(timerList, x) \/ x = e
<1>. DEFINE P == Preceding(w)
            n == Cardinality(P)
            L == Len(timerList)
<1>1. timerList \in Seq(TimerEvent) /\ L \in Nat
  BY SMT DEF TimerTypes
<1>2. P \in SUBSET (1..L) /\ \A i \in P : 1..i \subseteq P
  BY SMT, <1>1 DEF Preceding
<1>. HIDE DEF P
<1>3. n \in 0..L /\ P = 1..n
  BY <1>1, <1>2, PrefixFacts
<1>4. timerList' = SubSeq(timerList, 1, n) \o <<e>> \o SubSeq(timerList, n + 1, Len(timerList))
  BY DEF addTimerEvent, P
<1>. HIDE DEF n
<1>5. /\ timerList' \in Seq(TimerEvent)
      /\ Len(timerList') = L + 1
      /\ \A j \in 1..n : timerList'[j] = timerList[j]
      /\ timerList'[n + 1] = e
      /\ \A j \in n + 2..L + 1 : timerList'[j] = timerList[j - 1]
  <2>1. timerList' = Linked(timerList, n, e)
    BY <1>4 DEF Linked
  <2>2. Linked(timerList, n, e) \in Seq(TimerEvent) /\ IsLinked(Linked(timerList, n, e), timerList, n, e)
    BY <1>1, <1>3, LinkFacts
  <2>. QED BY <2>1, <2>2 DEF IsLinked
<1>6. /\ countdownTicks' \in [TimerEvent -> 0..COUNTDOWN_TICK_MODULAR - 1]
      /\ Remaining(e)' = w
      /\ \A x \in TimerEvent : x # e => Remaining(x)' = Remaining(x)
  <2>1. /\ COUNTDOWN_TICK_MODULAR \in Nat \ {0}
        /\ currentTick \in 0..COUNTDOWN_TICK_MODULAR - 1
        /\ w \in 0..COUNTDOWN_TICK_MODULAR - 1
    BY SMT, TimerAssumption DEF TimerTypes
  <2>. DEFINE then == (currentTick + w) % COUNTDOWN_TICK_MODULAR
  <2>2. /\ then \in 0..COUNTDOWN_TICK_MODULAR - 1
        /\ (then + COUNTDOWN_TICK_MODULAR - currentTick) % COUNTDOWN_TICK_MODULAR = w
    BY <2>1, TicksAhead
  <2>3. countdownTicks' = [countdownTicks EXCEPT ![e] = then]
    BY DEF addTimerEvent
  <2>. HIDE DEF then
  <2>4. countdownTicks \in [TimerEvent -> 0..COUNTDOWN_TICK_MODULAR - 1]
    BY DEF TimerTypes
  <2>5. countdownTicks' \in [TimerEvent -> 0..COUNTDOWN_TICK_MODULAR - 1]
    BY <2>2, <2>3, <2>4
  <2>6. countdownTicks'[e] = then /\ \A x \in TimerEvent : x # e => countdownTicks'[x] = countdownTicks[x]
    BY <2>3, <2>4
  <2>7. Remaining(e)' = w
    BY <2>2, <2>6 DEF Remaining
  <2>8. \A x \in TimerEvent : x # e => Remaining(x)' = Remaining(x)
    BY <2>6 DEF Remaining
  <2>. QED BY <2>5, <2>7, <2>8
<1>7. isSentToTask' \in [TimerEvent -> BOOLEAN]
  BY DEF addTimerEvent, TimerTypes
<1>8. \A i \in 1..L : timerList[i] \in TimerEvent /\ timerList[i] # e
  BY SMT, <1>1 DEF Contains
<1>9. \A i \in 1..L : Remaining(timerList[i]) \in Nat
  <2>1. \A x \in TimerEvent : Remaining(x) \in Nat
    BY SMT, RemainingFacts, TimerAssumption
  <2>. QED BY <1>8, <2>1
<1>10. \A i \in 1..n : Remaining(timerList[i]) < w
  <2>1. ASSUME NEW i \in 1..n
        PROVE  Remaining(timerList[i]) < w
    <3>1. i \in Preceding(w) /\ i \in 1..i
      BY SMT, <1>1, <1>3 DEF P
    <3>. QED BY <3>1 DEF Preceding
  <2>. QED BY <2>1
<1>11. \A i \in n + 1..L : w <= Remaining(timerList[i])
  <2>1. ASSUME n + 1 \in 1..L
        PROVE  w <= Remaining(timerList[n + 1])
    <3>1. n + 1 \notin Preceding(w)
      BY SMT, <1>3 DEF P
    <3>2. PICK j \in 1..n + 1 : ~(Remaining(timerList[j]) < w)
      BY <2>1, <3>1 DEF Preceding
    <3>3. j = n + 1
      BY SMTT(20), <1>3, <1>10, <3>2
    <3>. QED BY SMTT(20), <1>9, <2>1, <3>2, <3>3
  <2>2. ASSUME NEW i \in n + 1..L
        PROVE  w <= Remaining(timerList[i])
    <3>1. n + 1 \in 1..L /\ i \in 1..L /\ (i = n + 1 \/ n + 1 \in 1..i - 1)
      BY SMTT(20), <1>1, <1>3, <2>2
    <3>2. CASE i = n + 1
      BY <2>1, <3>1, <3>2
    <3>3. CASE n + 1 \in 1..i - 1
      <4>1. Remaining(timerList[n + 1]) <= Remaining(timerList[i])
        BY <3>1, <3>3 DEF InOrder
      <4>. QED BY SMTT(20), <1>9, <2>1, <3>1, <4>1
    <3>. QED BY <3>1, <3>2, <3>3
  <2>. QED BY <2>2
\* Where each member of the new list comes from.
<1>. DEFINE From(j) == IF j <= n THEN j ELSE j - 1
<1>12. ASSUME NEW j \in 1..L + 1
       PROVE  \/ j = n + 1 /\ timerList'[j] = e /\ Remaining(timerList[j])' = w
              \/ /\ j # n + 1 /\ From(j) \in 1..L /\ timerList'[j] = timerList[From(j)]
                 /\ Remaining(timerList[j])' = Remaining(timerList[From(j)])
  <2>1. CASE j = n + 1
    BY <1>5, <1>6, <2>1 DEF Remaining
  <2>2. CASE j # n + 1
    <3>1. From(j) \in 1..L /\ timerList'[j] = timerList[From(j)]
      <4>1. CASE j <= n
        BY SMTT(20), <1>1, <1>3, <1>5, <4>1
      <4>2. CASE j > n + 1
        <5>1. j \in n + 2..L + 1 /\ From(j) = j - 1 /\ j - 1 \in 1..L
          BY SMTT(20), <1>1, <1>3, <4>2
        <5>. QED BY <1>5, <5>1
      <4>3. j <= n \/ j > n + 1
        BY SMTT(20), <1>1, <1>3, <2>2
      <4>. QED BY <4>1, <4>2, <4>3
    <3>. HIDE DEF From
    <3>2. Remaining(timerList[j])' = Remaining(timerList[From(j)])
      <4>1. PICK x \in TimerEvent : x = timerList[From(j)] /\ x # e
        BY <1>8, <3>1
      <4>2. Remaining(x)' = Remaining(x)
        BY <1>6, <4>1
      <4>. QED BY <3>1, <4>1, <4>2 DEF Remaining
    <3>. QED BY <2>2, <3>1, <3>2
  <2>. QED BY <2>1, <2>2
<1>13. ASSUME NEW i \in 1..L + 1, NEW j \in 1..L + 1, i < j
       PROVE  /\ timerList'[i] # timerList'[j]
              /\ Remaining(timerList[i])' <= Remaining(timerList[j])'
  <2>0. i \in Nat /\ j \in Nat /\ n \in Nat /\ n <= L
    BY SMT, <1>1, <1>3
  <2>1. CASE i = n + 1
    <3>1. From(j) \in n + 1..L
      BY SMTT(20), <1>1, <1>13, <2>0, <2>1
    <3>. HIDE DEF From
    <3>2. j # n + 1 /\ From(j) \in 1..L
      BY SMTT(20), <1>1, <1>13, <2>0, <2>1, <3>1
    <3>. QED BY <1>8, <1>11, <1>12, <2>1, <3>1, <3>2
  <2>2. CASE j = n + 1
    <3>1. From(i) \in 1..n
      BY SMTT(20), <1>1, <1>13, <2>0, <2>2
    <3>. HIDE DEF From
    <3>2. i # n + 1 /\ From(i) \in 1..L
      BY SMTT(20), <1>1, <1>13, <2>0, <2>2, <3>1
    <3>3. Remaining(timerList[From(i)]) < w /\ Remaining(timerList[From(i)]) \in Nat
      BY <1>9, <1>10, <3>1, <3>2
    <3>4. Remaining(timerList[From(i)]) <= w
      BY SMT, <3>3
    <3>. QED BY <1>8, <1>12, <2>2, <3>2, <3>4
  <2>3. CASE i # n + 1 /\ j # n + 1
    <3>1. From(i) \in 1..L /\ From(j) \in 1..L /\ From(i) \in 1..From(j) - 1
      BY SMTT(20), <1>1, <1>13, <2>0, <2>3
    <3>. HIDE DEF From
    <3>2. /\ timerList[From(i)] # timerList[From(j)]
          /\ Remaining(timerList[From(i)]) <= Remaining(timerList[From(j)])
      BY <3>1 DEF InOrder
    <3>. QED BY <1>12, <2>3, <3>2
  <2>. QED BY <2>1, <2>2, <2>3
<1>. HIDE DEF From
<1>14. ASSUME NEW j \in 1..L + 1
       PROVE  timerList'[j] \in allocated' /\ Remaining(timerList[j])' <= MaxWait
  <2>1. CASE j = n + 1
    <3>1. timerList'[j] = e /\ Remaining(timerList[j])' = w
      BY <1>12, <2>1
    <3>2. w <= MaxWait
      BY SMT, TimerAssumption
    <3>. QED BY <3>1, <3>2
  <2>2. CASE j # n + 1
    BY <1>12, <2>2 DEF InOrder
  <2>. QED BY <2>1, <2>2
<1>15. InOrder'
  <2>1. \A j \in 1..L + 1 : \A i \in 1..j - 1 : i \in 1..L + 1 /\ i < j
    BY SMT, <1>1
  <2>. QED BY <1>5, <1>13, <1>14, <2>1 DEF InOrder
<1>16. ASSUME NEW x
       PROVE  Contains(timerList', x) <=> Contains(timerList, x) \/ x = e
  <2>1. ASSUME NEW j \in 1..L + 1, timerList'[j] = x
        PROVE  Contains(timerList, x) \/ x = e
    BY <1>12, <2>1 DEF Contains
  <2>2. x = e => Contains(timerList', x)
    <3>1. n + 1 \in 1..L + 1
      BY SMTT(20), <1>1, <1>3
    <3>. QED BY <1>5, <3>1 DEF Contains
  <2>3. ASSUME NEW i \in 1..L, timerList[i] = x
        PROVE  Contains(timerList', x)
    <3>1. CASE i <= n
      <4>1. i \in 1..n /\ i \in 1..L + 1
        BY SMTT(20), <1>1, <1>3, <3>1
      <4>. QED BY <1>5, <2>3, <4>1 DEF Contains
    <3>2. CASE i > n
      <4>1. i + 1 \in n + 2..L + 1 /\ i + 1 \in 1..L + 1 /\ (i + 1) - 1 = i
        BY SMTT(20), <1>1, <1>3, <3>2
      <4>2. timerList'[i + 1] = timerList[i]
        BY <1>5, <4>1
      <4>. QED BY <1>5, <2>3, <4>1, <4>2 DEF Contains
    <3>. QED BY SMTT(20), <1>1, <1>3, <3>1, <3>2
  <2>. QED BY <1>5, <2>1, <2>2, <2>3 DEF Contains
<1>. QED BY <1>5, <1>6, <1>7, <1>15, <1>16

LEMMA SetAlarmOrder ==
    ASSUME ListInv, TimerInv, NEW e \in TimerEvent, NEW ticks \in 1..MaxWait,
           NEW isPeriodic \in BOOLEAN, setAlarm(e, ticks, isPeriodic)
    PROVE  ListInv' /\ TimerInv'
<1>. USE TimerAssumption
<1>1. /\ pc = "run" /\ pc' = "run" /\ tick = "idle" /\ tick' = "idle" /\ curr' = curr
      /\ e \notin allocated /\ allocated' = allocated \cup {e} /\ pendIO(e)
      /\ completedIOList' = completedIOList /\ currentTick' = currentTick
      /\ tickPeriod' = [tickPeriod EXCEPT ![e] = IF isPeriodic THEN ticks ELSE 0]
      /\ addTimerEvent(e, ticks) /\ e \in Request
  BY DEF setAlarm, At, ownerVars, tickVars, pendIO
<1>2. ~Contains(pendingIOList, e) /\ ~Contains(completedIOList, e)
  BY <1>1 DEF ListInv
<1>3. ListInv'
  BY <1>1, <1>2, RequestPended
<1>4. TimerTypes /\ InOrder /\ ~Contains(timerList, e)
  BY <1>1 DEF TimerInv, InOrder, Contains
<1>5. /\ timerList' \in Seq(TimerEvent)
      /\ countdownTicks' \in [TimerEvent -> 0..COUNTDOWN_TICK_MODULAR - 1]
      /\ isSentToTask' \in [TimerEvent -> BOOLEAN]
      /\ InOrder'
      /\ \A x : Contains(timerList', x) <=> Contains(timerList, x) \/ x = e
  BY <1>1, <1>4, AddInOrder
<1>6. /\ tickPeriod' \in [TimerEvent -> 0..MaxWait]
      /\ \A x \in TimerEvent : x # e => tickPeriod'[x] = tickPeriod[x]
  BY SMT, <1>1, <1>4 DEF TimerTypes
<1>7. TimerTypes'
  BY <1>1, <1>4, <1>5, <1>6 DEF TimerTypes
<1>8. ASSUME NEW x \in TimerEvent, tickPeriod'[x] = 0, Sent(x)'
      PROVE  ~Contains(timerList', x)
  <2>1. Contains(completedIOList, x)
    BY <1>1, <1>8 DEF Sent
  <2>2. x # e
    BY <1>2, <2>1
  <2>3. tickPeriod[x] = 0 /\ Sent(x)
    BY <1>6, <1>8, <2>1, <2>2 DEF Sent
  <2>. QED BY <1>5, <2>2, <2>3 DEF TimerInv
<1>. QED BY <1>1, <1>3, <1>5, <1>7, <1>8 DEF TimerInv

LEMMA AddAgainOrder ==
    ASSUME ListInv, TimerInv, AddAgain
    PROVE  ListInv' /\ TimerInv'
<1>. DEFINE e == curr
<1>1. /\ tick = "again" /\ tick' = "loop" /\ curr' = NoEvent
      /\ UNCHANGED <<pendingIOList, completedIOList, allocated, pc, req, currentTick, tickPeriod>>
      /\ \/ UNCHANGED <<timerList, countdownTicks, isSentToTask>>
         \/ e \in allocated /\ tickPeriod[e] > 0 /\ addTimerEvent(e, tickPeriod[e])
  BY DEF AddAgain, listVars, ownerVars
<1>2. ListInv'
  BY <1>1, ListsUnaffected
<1>3. TimerTypes /\ InOrder /\ e \in TimerEvent /\ ~Contains(timerList, e)
  BY <1>1 DEF TimerInv
<1>. HIDE DEF e
<1>4. \A x \in TimerEvent : Sent(x)' => Sent(x)
  BY <1>1 DEF Sent
<1>5. CASE UNCHANGED <<timerList, countdownTicks, isSentToTask>>
  <2>1. TimerTypes'
    BY <1>1, <1>3, <1>5 DEF TimerTypes, TickStep
  <2>2. \A i \in 1..Len(timerList) : Remaining(timerList[i])' = Remaining(timerList[i])
    BY <1>1, <1>5 DEF Remaining
  <2>3. InOrder'
    <3>1. ASSUME NEW j \in 1..Len(timerList)
          PROVE  /\ timerList[j] \in allocated
                 /\ Remaining(timerList[j])' <= MaxWait
                 /\ \A i \in 1..j - 1 : /\ timerList[i] # timerList[j]
                                       /\ Remaining(timerList[i])' <= Remaining(timerList[j])'
      <4>1. \A i \in 1..j - 1 : i \in 1..Len(timerList)
        BY SMT
      <4>. QED BY <1>3, <2>2, <4>1 DEF InOrder
    <3>. QED BY <1>1, <1>5, <3>1 DEF InOrder
  <2>4. \A x \in TimerEvent : tickPeriod'[x] = 0 /\ Sent(x)' => ~Contains(timerList', x)
    BY <1>1, <1>4, <1>5 DEF TimerInv
  <2>. QED BY <1>1, <1>2, <2>1, <2>3, <2>4 DEF TimerInv
<1>6. CASE e \in allocated /\ tickPeriod[e] > 0 /\ addTimerEvent(e, tickPeriod[e])
  <2>1. tickPeriod[e] \in 1..MaxWait
    BY SMTT(20), <1>3, <1>6, TimerAssumption DEF TimerTypes
  <2>2. /\ timerList' \in Seq(TimerEvent)
        /\ countdownTicks' \in [TimerEvent -> 0..COUNTDOWN_TICK_MODULAR - 1]
        /\ isSentToTask' \in [TimerEvent -> BOOLEAN]
        /\ InOrder'
        /\ \A x : Contains(timerList', x) <=> Contains(timerList, x) \/ x = e
    BY <1>1, <1>3, <1>6, <2>1, AddInOrder
  <2>3. TimerTypes'
    BY <1>1, <1>3, <2>2 DEF TimerTypes, TickStep
  <2>4. ASSUME NEW x \in TimerEvent, tickPeriod'[x] = 0, Sent(x)'
        PROVE  ~Contains(timerList', x)
    <3>1. x # e /\ tickPeriod[x] = 0
      BY SMTT(20), <1>1, <2>1, <2>4
    <3>. QED BY <1>4, <2>2, <2>4, <3>1 DEF TimerInv
  <2>. QED BY <1>1, <1>2, <2>2, <2>3, <2>4 DEF TimerInv
<1>. QED BY <1>1, <1>5, <1>6

----------------------------------------------------------------------------

OrderInv == OwnerTypes /\ ListInv /\ TimerInv

LEMMA OrderStep ==
    ASSUME OrderInv, [Next]_vars
    PROVE  OrderInv'
<1>1. CASE IOStep
  BY <1>1, IOStepOrder, IOStepTypes DEF OrderInv, OwnerTypes
<1>2. ASSUME TimerOwnerNext
      PROVE  ListInv' /\ TimerInv'
  BY <1>2, SetAlarmOrder, CancelTimerOrder, AcceptTimerOrder DEF TimerOwnerNext, OrderInv
<1>3. ASSUME TickNext
      PROVE  ListInv' /\ TimerInv'
  BY <1>3, InterruptOrder, ExpireOrder, AddAgainOrder, TickEndsOrder DEF TickNext, OrderInv
<1>4. CASE TimerOwnerNext \/ TickNext
  BY <1>2, <1>3, <1>4, TimerStepTypes DEF OrderInv
<1>5. CASE UNCHANGED vars
  <2>1. /\ OnlyIO /\ UNCHANGED <<pendingIOList, completedIOList, allocated>>
        /\ UNCHANGED <<pc, req, ending, fault>>
    BY <1>5 DEF vars, ioVars, listVars, ownerVars, OnlyIO
  <2>2. ListInv' /\ TimerInv'
    BY <2>1, QuietStep DEF OrderInv
  <2>. QED BY <2>1, <2>2 DEF OrderInv, OwnerTypes
<1>. QED BY <1>1, <1>4, <1>5 DEF Next

\* The list of timer events is in the order of expiry, around the wrap of currentTick, and
\* no event in it was freed: acceptTimerEvent deletes only an event that handleTimerEvents
\* has taken out and will not put back.
THEOREM TimerListInOrder == Spec => []EventsInOrder
<1>1. Init => OrderInv
  <2>1. Init => OwnerTypes
    BY DEF Init, IOInit, OwnerTypes, OwnerStep, Fault
  <2>. QED BY <2>1, InitListInv, InitTimerInv DEF OrderInv
<1>2. OrderInv /\ [Next]_vars => OrderInv'
  BY OrderStep
<1>3. IInv /\ OrderInv => EventsInOrder
  <2>. SUFFICES ASSUME IInv, OrderInv PROVE EventsInOrder
    OBVIOUS
  <2>1. IOTypeOK
    BY DEF IInv, WaitInv, SemInv, CancelInv, OrderInv, OwnerTypes, ListInv, IOTypeOK
  <2>2. TypeOK
    BY <2>1 DEF OrderInv, TimerInv, TimerTypes, TypeOK
  <2>. QED BY <2>2 DEF OrderInv, TimerInv, InOrder, EventsInOrder
<1>4. Spec => []OrderInv
  BY <1>1, <1>2, PTL DEF Spec
<1>. QED BY <1>3, <1>4, Invariance, PTL
=============================================================================
