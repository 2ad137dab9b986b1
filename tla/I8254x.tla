-------------------------------- MODULE I8254x --------------------------------
(***************************************************************************)
(* The driver of the Intel 8254x network card (kernel/io/i8254x.c).  The   *)
(* card fills receive descriptors from HEAD to TAIL and empties transmit   *)
(* descriptors likewise; the interrupt handler counts finished descriptors *)
(* in a semaphore; one task hands received buffers to the readers and new  *)
(* buffers to the card, another one transmits.  There are twice as many    *)
(* receive buffers as descriptors, so that readers can lag behind.  Where  *)
(* a frame ends is left open: it takes one to FrameBuffers buffers.        *)
(*                                                                         *)
(* The card is external: it sets the done bit of a descriptor and moves    *)
(* HEAD in one step, as seen by a register read, and raises an interrupt.  *)
(***************************************************************************)
EXTENDS Integers, FiniteSets

CONSTANTS Descriptors,    \* descriptorCount
          FrameBuffers,   \* buffers that the longest frame takes
          NICReader,      \* opened files of the device
          NICPending      \* bound on the outstanding requests of a file, and on writes

ASSUME I8254xAssumption == Descriptors \in Nat /\ Descriptors > 1

Buffers == 2 * Descriptors
Descriptor == 0..Descriptors - 1
Buffer == 0..Buffers - 1

VARIABLES rx,        \* receive queue: registers, descriptors, indices, task
          filled,    \* the buffers whose bufferStatus is up to date
          reader,    \* per file: open, bufferIndex, number of pending requests
          tx         \* transmit queue: registers, descriptors, indices, task

nicVars == <<rx, filled, reader, tx>>

NextDescriptor(i, n) == (i + n) % Descriptors
NextBuffer(i, n) == (i + n) % Buffers
DescriptorsFrom(a, b) == (b - a) % Descriptors
BuffersFrom(a, b) == (b - a) % Buffers

-----------------------------------------------------------------------------
(* Interrupts *)

\* descriptorQueueHandler: past every descriptor up to HEAD, then past the finished ones.
\* The result is the number of permits released.
descriptorQueueHandler(intHead, head, finished) ==
    LET sure == DescriptorsFrom(intHead, head)
    IN  CHOOSE n \in sure..sure + Descriptors :
           /\ \A m \in sure..n - 1 : NextDescriptor(intHead, m) \in finished
           /\ NextDescriptor(intHead, n) \notin finished

-----------------------------------------------------------------------------
(* Receive *)

\* initDescriptorQueue, initI8254Receive: all descriptors but the one at TAIL.
initI8254xReceive ==
    [head |-> 0, tail |-> Descriptors - 1, interrupt |-> FALSE, regsHead |-> -1,
     buffer |-> [d \in Descriptor |-> d], finished |-> {},
     intHead |-> 0, semaphore |-> 0, taskHead |-> 0, taskTail |-> Descriptors - 1,
     bufferHead |-> 0, bufferTail |-> Descriptors - 1, pc |-> "wait", done |-> 0,
     rewound |-> FALSE]

\* external: a frame, or a part of one, comes.
cardReceives ==
    /\ rx.head # rx.tail
    /\ rx' = [rx EXCEPT !.finished = @ \cup {rx.head}, !.head = NextDescriptor(@, 1),
                        !.interrupt = TRUE]
    /\ UNCHANGED <<filled, reader, tx>>

\* i8254xHandler: reading the cause clears it; then HEAD is read.
receiveInterrupt ==
    /\ rx.interrupt /\ rx.regsHead = -1
    /\ rx' = [rx EXCEPT !.interrupt = FALSE, !.regsHead = rx.head]
    /\ UNCHANGED <<filled, reader, tx>>

receiveHandler ==
    /\ rx.regsHead # -1
    /\ LET n == descriptorQueueHandler(rx.intHead, rx.regsHead, rx.finished)
       IN  rx' = [rx EXCEPT !.regsHead = -1, !.intHead = NextDescriptor(@, n),
                            !.semaphore = @ + n]
    /\ UNCHANGED <<filled, reader, tx>>

\* i8254xReceiveTask: acquireAllSemaphore and setBufferStatus.  The buffer of a finished
\* descriptor is not looked up, but counted from bufferHead.
receiveDone ==
    /\ rx.pc = "wait" /\ rx.semaphore > 0
    /\ filled' = filled \cup {NextBuffer(rx.bufferHead, n) : n \in 0..rx.semaphore - 1}
    /\ rx' = [rx EXCEPT !.pc = "deliver", !.done = rx.semaphore, !.semaphore = 0]
    /\ UNCHANGED <<reader, tx>>

\* copyI8254xReadBuffer: each request takes one frame, or what there is of it.  The
\* result is the set of outcomes.
RECURSIVE copyI8254xReadBuffer(_, _)
copyI8254xReadBuffer(r, head) ==
    LET n == BuffersFrom(r.index, head)
    IN  IF r.pending = 0 \/ n = 0 THEN {r}
        ELSE UNION {copyI8254xReadBuffer([r EXCEPT !.index = NextBuffer(@, size), !.pending = @ - 1],
                                         head) : size \in 1..IF n < FrameBuffers THEN n ELSE FrameBuffers}

\* A broken version for the mutation test: an off-by-one.
DropOneLess(r, tail, add) ==
    IF BuffersFrom(tail, r.index) < add - 1 THEN [r EXCEPT !.index = NextBuffer(tail, add)] ELSE r

\* A reader that is in the buffers that go to the card loses them.
dropI8254xReadBuffer(r, tail, add) ==
    IF BuffersFrom(tail, r.index) < add THEN [r EXCEPT !.index = NextBuffer(tail, add)] ELSE r

\* bufferHead and every reader, under readerSemaphore.  When the card has filled all its
\* descriptors, bufferHead catches up with bufferTail, and dropI8254xReadBuffer takes a
\* reader that has read everything for one that has read nothing: "rewound" says that it
\* has sent such a reader back to buffers that it has had already.
deliverReceived ==
    /\ rx.pc = "deliver"
    /\ LET head == NextBuffer(rx.bufferHead, rx.done)
           Copied(r) == IF reader[r].open THEN copyI8254xReadBuffer(reader[r], head) ELSE {reader[r]}
           Dropped(x) == IF x.open THEN dropI8254xReadBuffer(x, rx.bufferTail, rx.done) ELSE x
       IN  \E f \in [NICReader -> UNION {Copied(r) : r \in NICReader}] :
              /\ \A r \in NICReader : f[r] \in Copied(r)
              /\ reader' = [r \in NICReader |-> Dropped(f[r])]
              /\ rx' = [rx EXCEPT !.bufferHead = head, !.pc = "refill",
                           !.rewound = \E r \in NICReader :
                              f[r].open /\ f[r].index = head /\ Dropped(f[r]) # f[r]]
    /\ UNCHANGED <<filled, tx>>

\* initReceiveDescriptor for the descriptors from taskTail on.
refillDescriptors ==
    /\ rx.pc = "refill"
    /\ LET New(d) == DescriptorsFrom(rx.taskTail, d) < rx.done
       IN  rx' = [rx EXCEPT !.pc = "tail",
              !.buffer = [d \in Descriptor |->
                 IF New(d) THEN NextBuffer(rx.bufferTail, DescriptorsFrom(rx.taskTail, d)) ELSE @[d]],
              !.finished = {d \in @ : ~New(d)}]
    /\ UNCHANGED <<filled, reader, tx>>

\* What filled says of the buffers that the card gets is out of date from here on.
advanceTail ==
    /\ rx.pc = "tail"
    /\ LET tail == NextDescriptor(rx.taskTail, rx.done)
       IN  rx' = [rx EXCEPT !.pc = "wait", !.done = 0,
                            !.taskHead = NextDescriptor(@, rx.done), !.taskTail = tail,
                            !.finished = @ \ {tail},
                            !.bufferTail = NextBuffer(@, rx.done), !.tail = tail]
    /\ filled' = {b \in filled : BuffersFrom(rx.bufferTail, b) >= rx.done}
    /\ UNCHANGED <<reader, tx>>

\* openI8254x, initI8254xReader.
openI8254x(r) ==
    /\ ~reader[r].open
    /\ reader' = [reader EXCEPT ![r] = [open |-> TRUE, index |-> rx.bufferHead, pending |-> 0]]
    /\ UNCHANGED <<rx, filled, tx>>

\* readI8254x, addReadI8254xRequest.
readI8254x(r) ==
    /\ reader[r].open /\ reader[r].pending < NICPending
    /\ \E x \in copyI8254xReadBuffer([reader[r] EXCEPT !.pending = @ + 1], rx.bufferHead) :
           reader' = [reader EXCEPT ![r] = x]
    /\ UNCHANGED <<rx, filled, tx>>

\* closeI8254x, destroyI8254xReader; the file layer closes a file without requests.
closeI8254x(r) ==
    /\ reader[r].open /\ reader[r].pending = 0
    /\ reader' = [reader EXCEPT ![r] = [open |-> FALSE, index |-> 0, pending |-> 0]]
    /\ UNCHANGED <<rx, filled, tx>>

-----------------------------------------------------------------------------
(* Transmit *)

initI8254xTransmit ==
    [head |-> 0, tail |-> 0, interrupt |-> FALSE, regsTail |-> -1,
     finished |-> {},
     intHead |-> 0, semaphore |-> 0, taskHead |-> 0, taskTail |-> 0,
     pending |-> 0, pc |-> "wait", left |-> 0, size |-> 0, overrun |-> FALSE]

\* writeI8254x, addPendingRWI8254xRequest: the request is listed, then a permit released,
\* so that the task finds one for each permit.
writeI8254x ==
    /\ tx.pending < NICPending
    /\ tx' = [tx EXCEPT !.pending = @ + 1]
    /\ UNCHANGED <<rx, filled, reader>>

\* removeRWI8254xRequest and a frame of n descriptors; the new tail is marked not done.
\* Nothing checks that the card is done with the descriptors.
transmitFrame(n) ==
    /\ tx.pc = "wait" /\ tx.pending > 0
    /\ LET New(d) == DescriptorsFrom(tx.taskTail, d) <= n
           tail == NextDescriptor(tx.taskTail, n)
       IN  tx' = [tx EXCEPT !.pending = @ - 1,
                            !.finished = {d \in @ : ~New(d)},
                            !.taskTail = tail, !.tail = tail, !.pc = "acquire",
                            !.left = n, !.size = n,
                            !.overrun = DescriptorsFrom(tx.head, tx.taskTail) + n >= Descriptors]
    /\ UNCHANGED <<rx, filled, reader>>

\* external: the card has sent the contents of a descriptor; reportStatus is set in all.
cardTransmits ==
    /\ tx.head # tx.tail
    /\ tx' = [tx EXCEPT !.finished = @ \cup {tx.head}, !.head = NextDescriptor(@, 1),
                        !.interrupt = TRUE]
    /\ UNCHANGED <<rx, filled, reader>>

\* i8254xHandler for a transmit interrupt; it is given TAIL instead of HEAD.
transmitInterrupt ==
    /\ tx.interrupt /\ tx.regsTail = -1
    /\ tx' = [tx EXCEPT !.interrupt = FALSE, !.regsTail = tx.tail]
    /\ UNCHANGED <<rx, filled, reader>>

transmitHandler ==
    /\ tx.regsTail # -1
    /\ LET n == descriptorQueueHandler(tx.intHead, tx.regsTail, tx.finished)
       IN  tx' = [tx EXCEPT !.regsTail = -1, !.intHead = NextDescriptor(@, n),
                            !.semaphore = @ + n]
    /\ UNCHANGED <<rx, filled, reader>>

\* acquireSemaphore for each descriptor of the frame; completeRWFileIO.
acquireTransmitted ==
    /\ tx.pc = "acquire" /\ tx.semaphore > 0
    /\ tx' = IF tx.left > 1 THEN [tx EXCEPT !.semaphore = @ - 1, !.left = @ - 1]
             ELSE [tx EXCEPT !.semaphore = @ - 1, !.left = 0, !.size = 0, !.pc = "wait",
                             !.taskHead = NextDescriptor(@, tx.size)]
    /\ UNCHANGED <<rx, filled, reader>>

I8254xInit ==
    /\ rx = initI8254xReceive
    /\ filled = {}
    /\ reader = [r \in NICReader |-> [open |-> FALSE, index |-> 0, pending |-> 0]]
    /\ tx = initI8254xTransmit

-----------------------------------------------------------------------------
I8254xTypeOK ==
    /\ {rx.head, rx.tail, rx.intHead, rx.taskHead, rx.taskTail} \subseteq Descriptor
    /\ {rx.bufferHead, rx.bufferTail} \subseteq Buffer
    /\ rx.semaphore \in 0..Descriptors - 1 /\ rx.done \in 0..Descriptors - 1
    /\ rx.finished \subseteq Descriptor
    /\ rx.buffer \in [Descriptor -> Buffer]
    /\ filled \subseteq Buffer
    /\ reader \in [NICReader -> [open : BOOLEAN, index : Buffer, pending : 0..NICPending]]
    /\ tx.pending \in 0..NICPending
    /\ {tx.head, tx.tail, tx.intHead, tx.taskHead, tx.taskTail} \subseteq Descriptor

\* Unless the driver has sent a reader back to buffers that it had read, readers and the
\* card never meet in a buffer, although readers lag behind, the card
\* runs ahead, interrupts coalesce and files are opened and closed while frames come:
\* every buffer from a reader's index up to bufferHead holds a frame whose length was
\* stored after it had been received, and belongs to no descriptor that the card may
\* fill; and the permits, with those the task has taken, are the finished descriptors
\* from taskHead on, whose buffers are those from bufferHead on in the same order.
ReadersApartFromCard ==
    /\ I8254xTypeOK
    /\ ~rx.rewound =>
       LET delivered == rx.pc \in {"refill", "tail"}
           first == IF delivered THEN NextBuffer(rx.bufferHead, -rx.done) ELSE rx.bufferHead
           Readable(r) == {b \in Buffer : BuffersFrom(reader[r].index, b)
                                            < BuffersFrom(reader[r].index, rx.bufferHead)}
           Card == {d \in Descriptor : DescriptorsFrom(rx.head, d) < DescriptorsFrom(rx.head, rx.tail)}
       IN  /\ \A r \in NICReader : reader[r].open =>
                 \A b \in Readable(r) :
                    b \in filled /\ \A d \in Card : rx.buffer[d] # b
           /\ rx.semaphore + rx.done = DescriptorsFrom(rx.taskHead, rx.intHead)
           /\ \A n \in 0..rx.semaphore + rx.done - 1 :
                 rx.pc # "tail" /\ ~(delivered /\ n < rx.done) =>
                    LET d == NextDescriptor(rx.taskHead, n)
                    IN  d \in rx.finished /\ rx.buffer[d] = NextBuffer(first, n)
=============================================================================
