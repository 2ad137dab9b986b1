-------------------------------- MODULE RWLock --------------------------------
(***************************************************************************)
(* The reader-writer lock of kernel/task/exclusivelock.c.  Its critical    *)
(* sections run under exLock.lock and are single steps, as TaskSwitch      *)
(* shows for the semaphore built on the same acquireExLock.                *)
(***************************************************************************)
EXTENDS Integers, Sequences, FiniteSets

CONSTANT Task  \* the tasks that call the lock's functions

ASSUME RWLockAssumption == IsFiniteSet(Task)

VARIABLES
    writerFirst,  \* the argument of createReaderWriterLock
    writerCount, readerCount,
    writerQueue, readerQueue,
    holds  \* what each task called and got: "none", "reader" or "writer",
           \* or what it is blocked in: "wantReader", "wantWriter"

vars == <<writerFirst, writerCount, readerCount, writerQueue, readerQueue, holds>>

\* createReaderWriterLock.
Init ==
    /\ writerFirst \in BOOLEAN
    /\ writerCount = 0
    /\ readerCount = 0
    /\ writerQueue = <<>>
    /\ readerQueue = <<>>
    /\ holds = [t \in Task |-> "none"]

\* acquireReaderLock, without and with blocking.
acquireReaderLock(t) ==
    LET free == writerCount = 0 /\ (~writerFirst \/ writerQueue = <<>>)
    IN  /\ holds[t] = "none"
        /\ \/ /\ free
              /\ readerCount' = readerCount + 1
              /\ holds' = [holds EXCEPT ![t] = "reader"]
              /\ UNCHANGED readerQueue
           \/ /\ ~free
              /\ readerQueue' = Append(readerQueue, t)
              /\ holds' = [holds EXCEPT ![t] = "wantReader"]
              /\ UNCHANGED readerCount
        /\ UNCHANGED <<writerFirst, writerCount, writerQueue>>

\* acquireWriterLock, without and with blocking.
acquireWriterLock(t) ==
    LET free == writerCount = 0 /\ readerCount = 0
    IN  /\ holds[t] = "none"
        /\ \/ /\ free
              /\ writerCount' = writerCount + 1
              /\ holds' = [holds EXCEPT ![t] = "writer"]
              /\ UNCHANGED writerQueue
           \/ /\ ~free
              /\ writerQueue' = Append(writerQueue, t)
              /\ holds' = [holds EXCEPT ![t] = "wantWriter"]
              /\ UNCHANGED writerCount
        /\ UNCHANGED <<writerFirst, readerCount, readerQueue>>

\* The counters once _releaseReaderWriterLock has taken off the caller.
WriterLeft == IF writerCount # 0 THEN writerCount - 1 ELSE writerCount

ReaderLeft == IF writerCount # 0 THEN readerCount ELSE readerCount - 1

\* The tasks in a queue.
Members(q) == {q[i] : i \in 1..Len(q)}

\* The next writer gets the lock, if one waits.
ToWriter(freed) ==
    /\ readerCount' = ReaderLeft
    /\ UNCHANGED readerQueue
    /\ \/ /\ writerQueue = <<>>
          /\ writerCount' = WriterLeft
          /\ holds' = freed
          /\ UNCHANGED writerQueue
       \/ /\ writerQueue # <<>>
          /\ writerCount' = WriterLeft + 1
          /\ holds' = [freed EXCEPT ![Head(writerQueue)] = "writer"]
          /\ writerQueue' = Tail(writerQueue)

\* Only the first waiting reader is counted.
ToFirstReader(freed) ==
    /\ readerCount' = ReaderLeft + 1
    /\ readerQueue' = <<>>
    /\ holds' = [u \in Task |-> IF u \in Members(readerQueue) THEN "reader" ELSE freed[u]]
    /\ writerCount' = WriterLeft
    /\ UNCHANGED writerQueue

\* All waiting readers get the lock.
ToReaders(freed) ==
    /\ readerCount' = ReaderLeft + Len(readerQueue)
    /\ readerQueue' = <<>>
    /\ holds' = [u \in Task |-> IF u \in Members(readerQueue) THEN "reader" ELSE freed[u]]
    /\ writerCount' = WriterLeft
    /\ UNCHANGED writerQueue

\* A release that looks only at the writers' queue.
ReleaseToWriter(t) ==
    /\ holds[t] \in {"reader", "writer"}
    /\ ToWriter([holds EXCEPT ![t] = "none"])
    /\ UNCHANGED writerFirst

\* A release that prefers the other side.
ReleaseSwapped(t) ==
    /\ holds[t] \in {"reader", "writer"}
    /\ IF (~writerFirst /\ writerQueue # <<>>) \/ readerQueue = <<>>
       THEN ToWriter([holds EXCEPT ![t] = "none"])
       ELSE ToReaders([holds EXCEPT ![t] = "none"])
    /\ UNCHANGED writerFirst

\* releaseReaderWriterLock.  A popped task is resumed and holds the lock; nothing else
\* happens to it in between.
releaseReaderWriterLock(t) ==
    /\ holds[t] \in {"reader", "writer"}
    /\ IF (writerFirst /\ writerQueue # <<>>) \/ readerQueue = <<>>
       THEN ToWriter([holds EXCEPT ![t] = "none"])
       ELSE ToReaders([holds EXCEPT ![t] = "none"])
    /\ UNCHANGED writerFirst

Next ==
    \E t \in Task :
        acquireReaderLock(t) \/ acquireWriterLock(t) \/ releaseReaderWriterLock(t)

Spec == Init /\ [][Next]_vars

\* A task that holds the lock releases it in the end, as fat.c does.
FairSpec == Spec /\ \A t \in Task : WF_vars(releaseReaderWriterLock(t))

----------------------------------------------------------------------------
\* Properties

TypeOK ==
    /\ writerFirst \in BOOLEAN
    /\ writerCount \in Nat
    /\ readerCount \in Nat
    /\ writerQueue \in Seq(Task)
    /\ readerQueue \in Seq(Task)
    /\ holds \in [Task -> {"none", "reader", "writer", "wantReader", "wantWriter"}]

Holders == {t \in Task : holds[t] \in {"reader", "writer"}}

\* The two counters together count the tasks that hold the lock, whichever of them a
\* release takes the caller from: the assertion of deleteReaderWriterLock holds once
\* all have released.
HoldersCounted ==
    /\ TypeOK
    /\ writerCount + readerCount = Cardinality(Holders)

\* The last release hands the lock on: nobody waits for a lock that nobody holds.
NobodyWaitsForFreeLock ==
    Holders = {} => writerQueue = <<>> /\ readerQueue = <<>>

\* The preferred side of the lock is not starved, although tasks of the other side
\* keep coming.
PreferredServed ==
    \A t \in Task :
        /\ (writerFirst /\ holds[t] = "wantWriter") ~> (holds[t] = "writer")
        /\ (~writerFirst /\ holds[t] = "wantReader") ~> (holds[t] = "reader")

\* The comment of _releaseReaderWriterLock, "current task is writer", at the test
\* writerCount != 0: no task that is about to release a reader's lock finds a writer
\* counted.
WriterCountedMeansWriter ==
    \A t \in Task : holds[t] = "reader" => writerCount = 0
=============================================================================
