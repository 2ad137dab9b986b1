------------------------------ MODULE FIFOArray ------------------------------
(***************************************************************************)
(* kernel/io/fifoarray.c: a ring buffer guarded by a spinlock, and a       *)
(* semaphore that counts readable elements and is released only after the  *)
(* spinlock.  Every spinlock section is one step; a call that takes the    *)
(* spinlock and the semaphore is two, and other callers run in between.    *)
(***************************************************************************)
EXTENDS Semaphore, FiniteSets

CONSTANTS
    Writer,       \* the callers of writeFIFO and overwriteFIFO (tasks or interrupt handlers)
    Data,         \* element values
    NoData,       \* a reader's buffer before its first element
    bufferLength  \* FIFO.bufferLength

\* createFIFO asserts that the length is a power of two and starts the
\* semaphore at 0; the readers are the tasks that acquire the semaphore.
ASSUME FIFOAssumption ==
    /\ bufferLength \in Nat \ {0}
    /\ \E k \in 0..31 : bufferLength = 2^k
    /\ InitialValue = 0
    /\ bufferLength + 1 < MaxQuota
    /\ IsFiniteSet(Task)
    /\ IsFiniteSet(Writer)
    /\ NoData \notin Data

VARIABLES
    begin, dataLength,  \* FIFO.begin, FIFO.dataLength
    buffer,             \* FIFO.buffer, by element index
    writerPC,           \* "idle", or "release": written, semaphore not released yet
    readerPC,           \* see ReaderStep
    received            \* the last element copied out by each reader

fifoVars == <<begin, dataLength, buffer>>
vars == <<semVars, fifoVars, writerPC, readerPC, received>>

\* "acquire": inside acquireSemaphore; "read", "readNonBlock": holding a permit,
\* _readFIFO not called yet, from readFIFO and from readFIFONonBlock.
ReaderStep == {"idle", "acquire", "read", "readNonBlock"}

\* index & (bufferLength - 1), for a power of two.
Index(i) == i % bufferLength

Init ==
    /\ SemInit
    /\ begin = 0
    /\ dataLength = 0
    /\ buffer \in [0..(bufferLength - 1) -> Data]  \* NEW_ARRAY does not clear
    /\ writerPC = [w \in Writer |-> "idle"]
    /\ readerPC = [r \in Task |-> "idle"]
    /\ received = [r \in Task |-> NoData]

----------------------------------------------------------------------------
\* Writers

\* The slot after the last element; a full buffer is not checked.
StoreUnchecked(d) ==
    /\ buffer' = [buffer EXCEPT ![Index(begin + dataLength)] = d]
    /\ dataLength' = dataLength + 1
    /\ UNCHANGED begin

\* _writeFIFO when sizeChangeFlag is 1.
Store(d) ==
    /\ bufferLength > dataLength
    /\ buffer' = [buffer EXCEPT ![Index(begin + dataLength)] = d]
    /\ dataLength' = dataLength + 1
    /\ UNCHANGED begin

\* The first step of writeFIFO and of overwriteFIFO on a buffer with room.
WriteFIFO(w, d) ==
    /\ writerPC[w] = "idle"
    /\ Store(d)
    /\ writerPC' = [writerPC EXCEPT ![w] = "release"]
    /\ UNCHANGED <<semVars, readerPC, received>>

\* An overwrite that releases the semaphore although the size is the same.
OverwriteAndRelease(w, d) ==
    /\ writerPC[w] = "idle"
    /\ bufferLength <= dataLength
    /\ buffer' = [buffer EXCEPT ![Index(begin + 1 + (dataLength - 1))] = d]
    /\ begin' = Index(begin + 1)
    /\ writerPC' = [writerPC EXCEPT ![w] = "release"]
    /\ UNCHANGED <<dataLength, semVars, readerPC, received>>

\* An overwrite that stores at the new begin instead of behind the last element.
OverwriteAtBegin(w, d) ==
    /\ writerPC[w] = "idle"
    /\ bufferLength <= dataLength
    /\ begin' = Index(begin + 1)
    /\ buffer' = [buffer EXCEPT ![Index(begin + 1)] = d]
    /\ UNCHANGED <<dataLength, writerPC, semVars, readerPC, received>>

\* overwriteFIFO on a full buffer: dequeueBuffer drops the oldest element, the
\* new one is stored, and the semaphore is left alone.
OverwriteFIFO(w, d) ==
    /\ writerPC[w] = "idle"
    /\ bufferLength <= dataLength
    /\ buffer' = [buffer EXCEPT ![Index(begin + 1 + (dataLength - 1))] = d]
    /\ begin' = Index(begin + 1)
    /\ UNCHANGED <<dataLength, writerPC, semVars, readerPC, received>>

\* releaseSemaphore, the second step of a write that changed the size.
WriterRelease(w) ==
    /\ writerPC[w] = "release"
    /\ Release
    /\ writerPC' = [writerPC EXCEPT ![w] = "idle"]
    /\ UNCHANGED <<fifoVars, readerPC, received>>

----------------------------------------------------------------------------
\* Readers

\* readFIFO: acquireSemaphore, with or without blocking.
ReadFIFO(r) ==
    /\ readerPC[r] = "idle"
    /\ \/ AcquirePermit(r) /\ readerPC' = [readerPC EXCEPT ![r] = "read"]
       \/ Block(r) /\ readerPC' = [readerPC EXCEPT ![r] = "acquire"]
    /\ UNCHANGED <<fifoVars, writerPC, received>>

\* acquireSemaphore returns to a reader that had blocked.
ReaderResumes(r) ==
    /\ readerPC[r] = "acquire"
    /\ ReturnFromBlock(r)
    /\ readerPC' = [readerPC EXCEPT ![r] = "read"]
    /\ UNCHANGED <<fifoVars, writerPC, received>>

\* A non-blocking read that only looks at the semaphore.
ReadFIFONonBlockPeeks(r) ==
    /\ readerPC[r] = "idle"
    /\ quota >= 1
    /\ readerPC' = [readerPC EXCEPT ![r] = "readNonBlock"]
    /\ UNCHANGED <<semVars, fifoVars, writerPC, received>>

\* readFIFONonBlock: a failed tryAcquireSemaphore returns 0 and changes nothing.
ReadFIFONonBlock(r) ==
    /\ readerPC[r] = "idle"
    /\ AcquirePermit(r)
    /\ readerPC' = [readerPC EXCEPT ![r] = "readNonBlock"]
    /\ UNCHANGED <<fifoVars, writerPC, received>>

dequeueBuffer ==
    /\ begin' = Index(begin + 1)
    /\ dataLength' = dataLength - 1

\* _readFIFO(fifo, data, 1): copy the element at begin and drop it.  On an empty
\* buffer it returns 0, on which readFIFO asserts.
TakeElement(r) ==
    /\ readerPC[r] \in {"read", "readNonBlock"}
    /\ readerPC' = [readerPC EXCEPT ![r] = "idle"]
    /\ \/ /\ dataLength > 0
          /\ received' = [received EXCEPT ![r] = buffer[Index(begin)]]
          /\ dequeueBuffer
          /\ UNCHANGED buffer
       \/ /\ dataLength = 0
          /\ UNCHANGED <<fifoVars, received>>
    /\ UNCHANGED <<semVars, writerPC>>

----------------------------------------------------------------------------

WriterNext(w) ==
    \/ \E d \in Data : WriteFIFO(w, d) \/ OverwriteFIFO(w, d)
    \/ WriterRelease(w)

ReaderNext(r) ==
    \/ ReadFIFO(r)
    \/ ReadFIFONonBlock(r)
    \/ ReaderResumes(r)
    \/ TakeElement(r)

Next == (\E w \in Writer : WriterNext(w)) \/ (\E r \in Task : ReaderNext(r))

\* A caller inside one of these functions keeps running; nobody has to call them.
Fairness ==
    /\ \A w \in Writer : WF_vars(WriterRelease(w))
    /\ \A r \in Task : WF_vars(ReaderResumes(r) \/ TakeElement(r))

Spec == Init /\ [][Next]_vars

FairSpec == Spec /\ Fairness

----------------------------------------------------------------------------
\* Properties

TypeOK ==
    /\ SemTypeOK
    /\ begin \in 0..(bufferLength - 1)
    /\ dataLength \in 0..bufferLength
    /\ buffer \in [0..(bufferLength - 1) -> Data]
    /\ writerPC \in [Writer -> {"idle", "release"}]
    /\ readerPC \in [Task -> ReaderStep]
    /\ received \in [Task -> Data \cup {NoData}]

\* Writers that stored an element and have not released the semaphore.
Releasing == {w \in Writer : writerPC[w] = "release"}

\* Readers that own a permit and have not taken an element for it.
Permitted ==
    {r \in Task : readerPC[r] \in {"read", "readNonBlock"} \/ status[r] = "granted"}

\* A reader is inside the semaphore exactly while its program counter says so.
ReaderStatus ==
    \A r \in Task : (status[r] # "out") <=> (readerPC[r] = "acquire")

\* Every element of the buffer is accounted for once: an unused permit, a writer
\* about to release, or a reader about to take it.  _writeFIFO, releaseSemaphore,
\* acquireSemaphore and _readFIFO are separate critical sections of two locks.
PermitsMatchElements ==
    dataLength = quota + Cardinality(Releasing) + Cardinality(Permitted)

\* The assertion r == 1 of readFIFO: whoever got a permit finds an element, however
\* writers, overwriters and other readers ran since the semaphore was acquired.
PermittedReaderFindsData ==
    \A r \in Task : readerPC[r] = "read" => dataLength > 0

\* The quota cannot reach the limit that _releaseSemaphore asserts.
QuotaBelowLimit == quota + Cardinality(Releasing) < MaxQuota - 1

\* The elements in the buffer, oldest first.
Items == [i \in 1..dataLength |-> buffer[Index(begin + (i - 1))]]

Queue == INSTANCE BoundedQueue
             WITH Capacity <- bufferLength, Reader <- Task, items <- Items

\* The ring buffer is the bounded queue: accepted elements come out in order, each
\* to one reader, and only an overwrite gives one up.
ImplementsQueue == Queue!Spec

\* No wake-up is lost: a write that changed the size reaches the reader that has
\* been blocked in readFIFO the longest, although it releases the semaphore after
\* the buffer's lock and non-blocking readers compete for the element.
FirstWaiterServed ==
    \A r \in Task :
        (taskQueue # <<>> /\ Head(taskQueue) = r /\ Releasing # {})
            ~> (readerPC[r] = "read")
=============================================================================
