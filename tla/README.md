# Homemade-OS: a TLA+ model of the kernel

The kernel under `src/src/kernel` is a preemptive multiprocessor kernel in which
nearly everything waits the same way: a spinlock protects a list, a semaphore
counts it, `taskSwitch` puts a waiting task aside, and an `IORequest` tells a task
that something it asked for is finished. This project models that core and most of
what is built on it (files, memory, network, drivers, console, program loader) from the
source, model-checks it with TLC and proves with TLAPS the safety properties of the core
and of several of the parts above it.
Paths below are relative to `src/src/kernel`.

## The system

| Part | Source | State | Operations | Uses |
|---|---|---|---|---|
| spinlocks | `multiprocessor/spinlock.c` | `acquirable`, `interruptFlag` | `acquireLock`, `releaseLock`, barriers | interrupt flag |
| scheduler | `task/taskmanager.c`, `task/taskswitch.asm` | `globalQueue`, each `TaskManager`, `Task.state`, kernel stacks | `taskSwitch`, `schedule`, `resume`, `createKernelTask`, `terminateCurrentTask` | spinlocks |
| semaphores | `task/exclusivelock.c` | `quota`, `taskQueue`, `exLock` | acquire, try, release | scheduler |
| reader-writer locks | `task/exclusivelock.c` | two counts, two queues | acquire as reader or writer, release | scheduler |
| FIFO array | `io/fifoarray.c` | ring buffer, lock, semaphore | write, overwrite, read, non-blocking read | semaphores |
| IORequests | `task/taskmanager.c`, `io/ioservice.h` | pending and completed lists, `cancellable`, `ioSemaphore` | pend, complete, wait, cancel, cancel all | semaphores |
| timer | `io/timer.c` | list by expiry, `currentTick` | set alarm, accept, cancel, tick | IORequests, interrupts |
| resources | `resource/resource.c` | lists of resources and enumerators | add, delete, enumerate | file layer |
| file layer | `file/file.c`, `file/fileservice.h` | open files, `ioCount`, `FileIORequest` | open, read, write, close, get/set parameter | IORequests |
| file systems | `file/fifofile.c`, `kernelfs.c`, `fat.c` | queues, cluster chains | the file operations | file layer, locks |
| memory | `memory/*.c` | buddy lists, linear blocks, slabs, page tables | allocate, release, map, unmap, invalidate | spinlocks, barriers |
| interrupts | `interrupt/`, `interrupt/controller/` | vectors, handler chains, APIC registers | dispatch, chain, end of interrupt | spinlocks |
| network | `io/network/*.c` | sockets, packet queues, TCP windows, DHCP state | transmit, receive, timeout, retry | file layer, timer |
| drivers | `io/ahci.c`, `io/i8254x.c`, `keyboard.c`, `console.c`, `video.c`, `pci.c`, `cmos.c` | request lists, descriptor rings | interrupts, requests | all of the above |
| ELF loader | `task/elfloader.c` | the new task's files, pages and memory manager | create the task, check and map segments, read them | file layer, memory |
| start-up, library | `main/`, `../lib` | none shared | sequential | |

What makes it hard, and what should hold:

* A task is queued by code that runs on the *next* task's stack, so there are moments when
  a task is on no queue, two locks are held across a stack switch, and the interrupt flag
  a lock restores was saved on another processor. No task may be lost, queued twice or run
  twice, and no wake-up may be lost.
* The permit of a FIFO element or of a completed request is released *after* the lock of
  its list. Permits and elements must agree up to the threads in between.
* Completion, cancellation, acceptance and the end of a task race on one request.
* Objects are shared by counts (requests of a file, references of a page, a packet, a
  socket or a FAT file) that several tasks change; none may be deleted early or kept.
* A request is put into a list, or taken out and put back, by one task while another
  brings what it waits for. None may stay beside its answer.
* A processor may use a translation that another one is taking away.
* Packets are lost, repeated and reordered; a time-out races the answer; a step of several
  fails and the earlier ones have to be undone.
* Tick counts and sequence numbers wrap; queues and rings are bounded.

`PROJECT.json` lists each hazard at its line, with the properties that cover it.

## The modules

| Module | Models | Actions |
|---|---|---|
| `Semaphore` | what a semaphore promises, with one atomic step per operation | `AcquirePermit`, `Block`, `Release`, `ReturnFromBlock` |
| `TaskSwitch` | scheduler, spinlocks, interrupt entry, and the semaphore built from them | the steps of `taskSwitch` (`TakeNext`, `ContextSwitch`, `ReleaseGlobal`, `CallAfter`, `FinishSwitch`), `Interrupt`, `schedule`, the acquire and release steps, `resume`, creation and the steps of `terminateCurrentTask` |
| `TaskSwitchRefinement` | the mapping of `TaskSwitch` to `Semaphore` | |
| `RWLock` | reader-writer lock of either preference | `acquireReaderLock`, `acquireWriterLock`, `releaseReaderWriterLock` |
| `BoundedQueue` | what a FIFO promises | `Put`, `PutOverOldest`, `Take` |
| `FIFOArray` | the ring buffer, extending `Semaphore` | `WriteFIFO`, `OverwriteFIFO`, `WriterRelease`, `ReadFIFO`, `ReaderResumes`, `TakeElement`, `ReadFIFONonBlock` |
| `IORequest` | the requests of one task and their services, extending `Semaphore` | the owner's submit, wait, cancel and terminate, the steps of `_waitIO` and `cancelAllIORequests`, the service's claim and the two parts of `completeIO` |
| `Timer` | timer events and the timer interrupt, extending `IORequest` | `setAlarm`, `cancelTimerEvent`, `acceptTimerEvent`, `TimerInterrupt`, `Expire`, `ReleaseEvent`, `AddAgain`, `TickEnds` |
| `FileIO` | open files, their requests and the threads that share them, up to the end of the task | name and handle dispatch, `createFileIO`, the two parts of `completeFileIO`, accept, cancel, `terminateCurrentTask`, `closeAllOpenFileRequest` |
| `FIFOFile`, `KernelFS`, `Resource` | services of `FileIO` | their file functions, `processFIFO`, adding and deleting resources |
| `FileServices` | `FileIO` with FIFO files and kernel files, the specification the file theorems are about | |
| `FAT` | the FAT32 service: shared files, directory walk, cluster chains | `openFAT` and its walk, `readFAT`, `rwFATTask`, `closeFAT`, `fatService` |
| `Buddy` | the buddy allocator as operators | |
| `Memory` | linear and physical blocks, page tables, TLBs, extending `Buddy` | allocate, extend, commit, release, share buffers of one or two pages, map and unmap a page at a time, the shootdown and its handler, the end of an address space |
| `Slab` | the slab allocator | allocate, release, and the release of an empty slab outside the lock |
| `ELFLoader` | creation and loading of a program | the steps of `createTaskAndMemorySpace` and `elfLoader` |
| `Terminal` | what the display promises: a page that scrolls | `Write`, `Erase` |
| `ConsoleDisplay` | the display with two screens in video memory | `printString`, `printkBackspace` |
| `ConsoleRefinement` | the mapping of `ConsoleDisplay` to `Terminal` | |
| `Console` | the command line and its readers, extending `ConsoleDisplay` | the key handlers, the steps of `processConsoleInput`, open, read, write, close |
| `IPSocket` | IP sockets, their tasks and queues, the device reader | open, the two steps of a request (the list, then the semaphore), cancel, the steps of the queue tasks, packet FIFOs, close |
| `DHCP` | the DHCP client as the user of a socket, extending `IPSocket` | send, alarm, read, reply, time-out, cancel, renew |
| `TCP` | one connection and a network that loses, repeats and reorders | handshakes, packets, reads, writes, time-outs, close |
| `TCPListener` | connection requests and the servers waiting for them | `addTCPSYN`, `waitTCPSYN`, and what happens outside the lock |
| `I8254x` | the rings of the network card | the card, the interrupt handler, receive and transmit tasks, readers |
| `AHCI` | disk requests between callers, ports, interrupt handler and completing task | the file functions, `servePortQueue` with a command that is carried out or fails, the handler's steps, completion |
| `SemaphoreProofs`, `TimerProofs` | theorems about `Semaphore`, and about `IORequest` with `Timer` | |
| `TaskSwitchProofs`, `TaskSwitchSafety` | the invariant of `TaskSwitch` with lemmas on what a step may change, and its theorems | |
| `KernelProofs` | theorems about `FIFOArray`, `Slab` and `Console` | |
| `DiskProofs` | theorems about `ELFLoader`, `AHCI` and `RWLock` | |
| `FileProofs`, `FileServiceProofs` | the invariant of `FileServices` with the actions of `file.c`, and those of the services with the theorems | |

Correspondence with the code. Variables carry the names of the fields. A critical
section of a spinlock is one step, because it runs with interrupts off and touches
nothing another processor reads without the lock. The exceptions are the two locks held
across a context switch, `globalQueue->lock` and `exLock.lock`, which `TaskSwitch`
models with their saved interrupt flags. Each kernel stack has a place in the code
(`pc`), and a second one for an interrupt handler running on top of it. A return from
`releaseLock` that switches interrupts on is a step boundary, so an interrupt can come
there.

`TaskSwitch` shows that its semaphore implements `Semaphore`; `FIFOArray`, `IORequest`
and `Timer` then use `Semaphore`, and `RWLock` takes its critical sections as atomic
for the same reason. This is what lets the upper modules leave out processors and stacks.

`DHCP` is composed with `IPSocket`, the three file services with `FileIO`, `Memory` with
`Buddy` and `Console` with `ConsoleDisplay`. The other modules have no variable in
common; `MCFiles`, `MCKernel` and `MCDevices` each check several of them in one run, and
the variable `running`, chosen initially, says which part takes steps.

Data is abstracted to what the properties distinguish: a byte of a TCP stream or of a
program segment is its position, an element of a FIFO file is counted, a packet is its
references, the contents of a disk are a constant.

Failed assertions, uses of freed memory and NULL dereferences end a behaviour: the
variables `fault` (`IORequest`, `Timer`), `panic` (`FileIO`), `ipFault`, `tcp.fault`,
`tx.overrun`, `rx.rewound`, `ahciPanic`, `null` (`Console`) and the places "assertion" and
"divideError" (`ELFLoader`) record them, and the invariants speak of states before them.
Definitions that describe a faulty variant of another one (such as `TakeNextUnlocked`
beside `TakeNext`) are not part of any specification. They show that the properties can
fail.

## The runs

| Run | Instance | Properties | Result |
|---|---|---|---|
| `scheduler` | 2 processors, 2 tasks and 2 idle tasks, 1 semaphore, quota at most 1 | `StackExclusive`, `EveryTaskInOnePlace`, `SwitchUninterrupted`, `AssertionsHold`, `ImplementsSemaphore`, `ExLockReleased` | hold, 85,526 states |
| `preemption` | 1 processor, 2 tasks of one priority | `ResumedTaskRuns` | holds, 1,496 states |
| `fifo` | 2 readers, 2 writers, buffer of 2 | `TypeOK`, `PermitsMatchElements`, `PermittedReaderFindsData`, `QuotaBelowLimit`, `ImplementsQueue`, `FirstWaiterServed` | hold, 4,596 states |
| `rwlock` | 4 tasks, both preferences | `HoldersCounted`, `NobodyWaitsForFreeLock`, `PreferredServed` | hold, 1,780 states |
| `io_timer` | 1 task, 2 timer events, 1 service request, ticks modulo 3 | `EventsInOrder`, `NoLostWakeup`, `DrainNeverSleeps`, `CancelExcludesService` | hold, 2.5 million states |
| `alarm` | 1 task, 2 timer events | `AlarmWakesOwner` | holds, 144,348 states |
| `files` | 2 threads, a kernel thread, 1 file of each service, 2 requests; or a FAT disk with a file of two clusters and two directories, 2 open files, 2 tasks | `FileCountsRequests`, `NoReadMissesElement`, `NoReaderMissesResource`, `ExitClosesFiles`, `FATFilesReferenced`, `FATReadsFile` | hold, 318,647 states |
| `kernel` | 2 processors, 4 physical blocks and 3 linear ones, or 4 for buffers of two pages; 3 slab pages; 2 program headers; a display of 2 by 2, 2 console users | `FreeBlocksPartition`, `ReferencesMatchMappings`, `NoStaleTranslation`, `SlabListsConsistent`, `ProgramLoadedOrGone`, `NoReadWaitsBesideInput`, `ImplementsTerminal` | hold, 304,189 states |
| `devices` | 2 sockets, 2 requests, 2 packets; streams of up to 3 bytes; 2 servers, 3 connection requests; 4 descriptors, 8 buffers; 2 ports, 3 disk requests | `IPReferencesExact`, `DHCPLeavesNoIO`, `TCPStreamsIntact`, `NoServerMissesSYN`, `ReadersApartFromCard`, `DiskRequestsFinish` | hold, 325,530 states |
| `rwlock_exclusion` | as `rwlock` | `WriterCountedMeansWriter` | violated |
| `cancel_at_exit` | 1 task, 2 service requests | `CancelledNotClaimed` | violated |
| `timer_expiry` | 1 task, 2 timer events, ticks modulo 4 | `ExpiredEventIsListed` | violated |

The type invariant of a module is a conjunct of one of its invariants (of
`EventsInOrder` for `Timer`, `EveryTaskInOnePlace` for `TaskSwitch`, and so on); only
`FIFOArray` has it checked, and proved, by itself.

What the three larger runs show:

* `files`. `ioCount` counts exactly the calls and requests that use a file, whichever of
  completion, cancellation, acceptance and closing comes first, so a file is deleted only
  when nothing uses it, and the last thread of a task can close all of them. A read of a
  FIFO file is never left beside an element, and an enumerator is never left behind a
  resource. A FAT file shared by several tasks is in the list exactly while somebody
  refers to it, and what a read returns is what the file holds, across clusters, up to its
  size, also when the disk fails half-way.
* `kernel`. Free blocks are disjoint, maximally merged and counted; a physical block has
  one reference for each mapping and each operation in progress, on all error paths and
  after the end of a process; no processor keeps a translation of a block that has been
  released. Slabs in the usable list have a free unit, and only an unused slab is given
  back. A program either runs with its whole image or leaves nothing behind. The display
  implements a scrolling page (refinement of `Terminal`). No console read waits beside
  input, but for the case below.
* `devices`. Packets, sockets and queue permits are counted exactly until a fault. The
  DHCP client leaves no request and no alarm behind, whichever of the two its wait finds
  first: `completedIOList` is a stack, so of an answer and an alarm that are both there it
  returns the later one. A TCP stream is delivered in order, without gap or repetition,
  and unacknowledged bytes stay in the transmit window under their sequence numbers; the
  end of the stream is found where it is, unless the peer sends FIN together with data. No
  server sleeps beside a connection request for it. The network card's readers and the
  card never use one buffer at the same time, until a reader is sent back over the whole
  ring (below). A disk request is answered after its transfer, and there is always an
  interrupt or a handler to serve the next.

The three violations are disagreements between the code and what it says of itself:

* `rwlock_exclusion`: `_releaseReaderWriterLock` hands the lock to a waiting writer even
  when other readers still hold it, and the next of them to release takes down
  `writerCount`, which the code comments as "current task is writer"
  (`exclusivelock.c:220`). Two readers and a writer suffice. In the kernel itself only
  `fat.c` uses the lock, and only as a reader.
* `cancel_at_exit`: `tryCancelIO` leaves `cancellable` set, so a service may claim a
  request that is being cancelled, against `ioservice.h:38`. `cacnelIOHandler` clears the
  flag, and for it `CancelExcludesService` holds and is proved.
* `timer_expiry`: an alarm that expires between the removal of its request from the task's
  list and `cancelTimerEvent` (or the `pendIO` of `acceptTimerEvent`) meets
  `assert(IS_IN_DQUEUE(ior) != 0)` of `completeIO` (`taskmanager.c:676`).

Other disagreements were met while modelling. They end a behaviour of the model or are
excluded by a condition of the property concerned, and `PROJECT.json` lists them with the
line they contradict: the second decrement of `ioCount` for a refused request
(`file.c:855`), reads behind the end of a FAT file (`fat.c:581`), a console read put back
after its line came (`console.c:421`), `resume(NULL)` (`console.c:313`), the error path of
`createTaskAndMemorySpace` (`taskmanager.c:449`), the division by an alignment of 0
(`elfloader.c:92`), an early FIN (`tcp.c:840`), a FIN that comes with data (`tcp.c:850`),
the reader of the network card that has read everything when the card has filled all its
descriptors (`i8254x.c:748`), the head given to the transmit handler
(`i8254x.c:958`), and `systemCall_seekWriteFile`, which reads (`lib/file.c:94`).

### Bounds

* Two processors and two tasks with two idle tasks cover a processor that switches away
  from a task while the other wakes, runs, or frees it.
* `MaxQuota` bounds the quota of a semaphore. For the FIFO it is larger than any quota
  reached (`QuotaBelowLimit`). For a task's `ioSemaphore` it bounds the completions of
  periodic alarms that nobody waits for: the timer interrupt is held back while the quota
  is near it.
* `COUNTDOWN_TICK_MODULAR` is 3 or 4 instead of 2^50, larger than the longest alarm
  `MaxWait` = 2 as `setAlarmHandler` requires, so `currentTick` wraps many times.
* A buffer of two elements wraps and overflows. Four tasks on a reader-writer lock give
  two holders and two waiters of any kind.
* `files`: two threads and two requests give a request in each of two stages, and a closer
  beside it. One file suffices because files share nothing but the manager's list; the
  kernel's thread adds and deletes up to two resources. The FAT disk has a file that ends
  inside its second cluster, a directory of two clusters, and one with a bad cluster;
  reads of 0, 2 and 3 bytes begin inside and at the edges of clusters of 3. Offsets wrap
  at `OffsetRange` = 16 instead of 2^32.
* `kernel`: orders 0 to 2 with four physical and three linear blocks give splitting,
  merging, an array whose end is not a power of two, and one that is extended
  (`InitialLinear` = 2, one array page for `PerPage` = 2 elements). Two layouts leave
  three or two physical blocks, so that allocation fails at each point. Two buffers of two
  pages, of which one is shared, need four linear blocks: the part "sharing" has them
  (`maxBlockCount`) in the kernel's address space, with requests for two pages only,
  without contiguous buffers, and without translations, which the part "memory" has. There
  a share fails after its first page, by the owner's release or for lack of a page table,
  or is completed. Slabs have two and three units. The loader's headers are chosen so that
  each check of the loader refuses one; `HeaderAssumption` leaves out segments longer than
  half of the address space and ones that cross `HEAP_END`, of which the code compares
  only the beginning. The two screens of the display have four rows together, so a few
  lines make it start again at the top; a line of the console (`MaxLine` = 2) and its FIFO
  of 2 fill up.
* `devices`: `SequenceRange` = 12 with initial numbers 9 and 10 makes both streams wrap. A
  window of 2 and segments of 0 or 1 bytes give partial acknowledgements and a closed
  window. `ReadLimit` and `RetransmitLimit` bound the reads that wait and the
  retransmissions. Reads and writes of zero bytes are left out (`IOSizes`). `MCTraffic`
  pairs lengths of the two streams, and says whether the peer's FIN may come with data.
  Four descriptors wrap. Two outstanding reads (`NICPending`) let a reader follow the card
  to the last descriptor and be rewound; without a read it is overtaken. The driver itself
  bounds neither.
* Further named assumptions: `MemoryAssumption` (an extension of the linear array needs at
  most one page), `TCPAssumption` (both streams and the windows are shorter than the range
  of sequence numbers, which is a multiple of the window size), `FATAssumption` (clusters
  are full length, marks are no cluster numbers). `AHCI` takes the controller to keep the
  host's status bit of a port set while the port's own status is not clear, so that what
  `AHCIHandler` clears at its end (`ahci.c:749`) comes back if the port has raised its
  next interrupt meanwhile. `FATReadsFile` leaves out offsets behind the end of the file,
  `FileCountsRequests` files of which a request was refused, `NoReadWaitsBesideInput` a
  request put back late (`missed`), `TCPStreamsIntact` the end of a stream whose FIN comes
  with data, `ReadersApartFromCard` what follows a rewound reader.
* In `io_timer` and `alarm` a fault ends the behaviour. The three races that lead to one
  need a particular overlap and leave the other behaviours in place.

### Fairness

* `TaskSwitch`: weak fairness of a processor inside `taskSwitch`, which runs straight
  through; strong fairness of taking a spinlock that keeps becoming free (`xchg8` in a
  loop; the code has no queue, so this is an assumption about the hardware); strong
  fairness of the timer's interrupt, which is periodic. No task is assumed to call
  anything.
* `FIFOArray`: a writer between unlock and release goes on, and so does a woken reader.
* `RWLock`: a holder releases the lock in the end, as every caller in the kernel does.
* `Timer`: the interrupt comes and runs to its end, a claimed request is completed, a
  woken owner goes on. A claim itself is not assumed.
* `files`, `kernel` and `devices` assume none: they check safety and refinement. That
  something goes on is stated there as an invariant, in which whoever waits has somebody
  on the way (`NoReadMissesElement`, `NoServerMissesSYN`, `DiskRequestsFinish`). Two
  shoot-downs that waited for each other would be a deadlock of the run `kernel`.

## What is proved

All constants are arbitrary, up to the named assumptions of the modules. These say that
the sets of different kinds of things are disjoint, that lengths and limits are natural
numbers, and what the code relies on besides:

* `TaskSwitchAssumption`: finitely many processors, each with an idle task of its own, and
  a priority for every task (`createTaskManager` makes the idle tasks);
* `TimerAssumption`: the longest alarm is shorter than the range of the tick counter;
* `FIFOAssumption`, `RWLockAssumption`, `AHCIAssumption`, `ConsoleAssumption` and
  `FileAssumption`: finitely many readers and writers, tasks, requests, users, threads and
  files, because their numbers are compared with counters;
* `SlabAssumption`: a slab has at least two units, as those of `slabUnit` do;
* `HeaderAssumption`: program segments that neither wrap around the address space nor
  cross `HEAP_END` (see the bounds above).

The theorems, with the invariants they rest on:

* `SemaphoreSafe`, i.e. `SemSpec => []SemInv`. The queue holds exactly the waiting tasks,
  each once, and no permit is left while a task waits. Each action has its own lemma, and
  the proofs about `FIFOArray` and `IORequest` cite these lemmas.
* `TaskSwitch`: `StacksExclusive`, `SwitchesUninterrupted`, `TasksInOnePlace` and
  `AssertionsAlwaysHold`. The inductive invariant `IInv` says that every task can be given
  one kind of place (`kind`: current, ready, in transit, waiting, woken, terminated, free)
  and the processor, semaphore or stack it belongs to (`of`), so that each queue holds
  exactly the tasks of its kind, each once. The two functions are quantified in the
  invariant, and each action says how it changes them; moving a task is then one lemma per
  queue. The rest of the invariant is about the code: a stack no processor runs on is
  saved or free, a processor inside `taskSwitch` has interrupts off and uses its own
  `TaskManager`, and the two spinlocks held across `contextSwitch` are held by exactly the
  processors that are there, with a saved flag of "off". That a processor which gives up
  its task finds another one in `globalQueue` is a pigeonhole argument: there are as many
  idle tasks as processors, an idle task neither blocks nor ends, and the processor in
  question runs none.
* `FIFOArray`: the inductive invariant is `TypeOK /\ SemInv /\ ReaderStatus /\
  PermitsMatchElements`. The counting invariant (elements = quota + readers holding a
  permit + writers about to release) is not inductive alone: a release needs `SemInv` to
  know that it either raises the quota or grants one waiting reader, and `ReaderStatus` to
  know that such a reader is at the point where it will take an element. From it follow
  the type invariant, the assertion of `readFIFO`, the assertion of `_releaseSemaphore`,
  and the refinement of `BoundedQueue` (`ImplementsQueue`).
* `IORequest` and `Timer` together, for any sets of services and events. `WaitInv` and
  `CancelInv` give `WakeupKept`, `DrainDoesNotBlock` and `SystemCallCancelExcludes`.
  `NoLostWakeup` needs the stronger fact that an owner *about to* sleep beside its request
  has a permit, a grant or a completer on the way; `CancelExcludesService` needs that a
  cancellable request is never a claimed one. `TimerListInOrder` needs two more: `ListInv`
  (a request is once in one of the task's two lists, and is allocated), and `TimerInv`
  (the event the interrupt handler holds is not in the list, nor is an event that rang
  once and for all). Order is the distance from `currentTick` around the wrap, which every
  tick reduces by one for all events, and an insertion keeps because no alarm is longer
  than the range.
* `RWLock`: `CountsHolders` and `HandsLockOn`, for either preference. The invariant adds
  to the two properties that each queue holds exactly the tasks blocked for it, each once:
  a release that wakes all waiting readers sets `readerCount` to the length of the queue,
  and only then is that the number of new holders.
* `AHCI`: `DiskRequestsAlwaysFinish`. The invariant `AHCIInv` says that each request is in
  exactly the list, port, handler or task that its state names, and that no list repeats a
  request; without the latter the head that a port serves next could still be pending
  behind itself. The same invariant shows that the assertion of `completeDiskRequestTask`
  never fails: a panic of the driver comes from a command that `sendDiskRequest` refuses
  or gives up (`OnlyFailedCommandPanics`).
* `Slab`: `SlabListsAlwaysConsistent`. The invariant is one statement about each page and
  the units of it that are lent (`PageOK`): a live slab has `usedCount` above zero, which
  with its free list adds up to the capacity, and no lent unit is free. The last unit
  returned takes the slab out of the list in the same critical section, which is why
  nobody can allocate from pages that are being released.
* `Console`: `NoReadEverWaitsBesideInput`. The invariant is about every actor's step
  (`ConsoleState`), the number of openers, and `InputServed`: beside a line and a request
  there is somebody in the loop that serves them.
* `ELFLoader`: `ProgramsLoadedOrGone`, for every table of headers. `LoaderInv` follows the
  loader's steps: what the check loop has established for the headers it has seen
  (`Checked`), which pages are mapped so far (`Mapping`), and which bytes of the image are
  in place (`Image`). A failure at any of them is followed by the release of what
  `HeldParts` says is held.
* `FileServices`: `FilesAlwaysCounted`, `FilesClosedAtExit` and `ReadsMeetElements`. The
  invariant `FilesInv` has a condition on every thread and the request it works on
  (`Threads`), that no two threads work on one request (`Apart`), that one thread at a
  time opens or closes a file (`OneCloser`), that `ioCount` is the number of users of the
  file, and 1 once a file that is to be deleted is being completed (`Counts`), that a
  FIFO's list holds waiting reads of its own file, each once (`Lists`), and that a read
  beside an element has a thread in `processFIFO` (`Paired`). The count alone is not
  inductive: that completing a request takes away one user needs `Apart`, and that the
  file is deleted by the last one needs `OneCloser`. Kinds of files are arbitrary among
  FIFO, kernel file and directory; enumerators and FAT files are not part of this
  specification.

Only model-checked:

* liveness (`ExLockReleased`, `ResumedTaskRuns`, `FirstWaiterServed`, `PreferredServed`,
  `AlarmWakesOwner`), which is beyond the prover;
* what is computed by recursion or by a fold over unbounded data, for which the prover has
  no induction: `Buddy` and `Memory` (splitting and merging), `FAT` (cluster chains),
  `TCP` (windows) and `I8254x` (rings);
* the two refinements `ImplementsSemaphore` and `ImplementsTerminal`: the first follows
  from a mapping over the steps of all processors that has not been worked out for the
  prover, the second is about the printing of strings;
* `NoReaderMissesResource`, `IPReferencesExact`, `DHCPLeavesNoIO` and `NoServerMissesSYN`,
  which are within reach and not done.

## Not modelled

* Device registers and their programming (interrupt controllers, 8254, PCI, CMOS, video,
  the set-up of AHCI and of the network card), boot code, BIOS calls, descriptor and page
  attribute bits, checksums and header layouts: pure I/O or bit layout.
* Interrupt handler chains and the system-call table: filled in at start-up and constant
  afterwards. That a handler which switches tasks does so before the end of interrupt of
  the 8259 is a hazard listed without a property.
* ARP (a task that answers one request after another and keeps no table), the keyboard's
  scan codes, the console's commands other than running a program, formatted output and
  the library: sequential.
* The start-up of the memory managers before paging: a constant layout (`Layouts`).
* In `IORequest` allocation does not fail, and one task owns all requests, as `ior->task`
  never changes. Allocation fails in the file, memory, network and loader modules where
  the code has an error path for it.
* A FAT disk that is inconsistent (cyclic chains, a first cluster of 0), short-name
  conversion, and more than one network device.

## Plan

1. Proofs: the enumerators of `Resource` added to `FileServices` (`NoReaderMissesResource`),
   `NoServerMissesSYN`, `DHCPLeavesNoIO`, and the refinement of `Semaphore` by `TaskSwitch`
   from the invariant that is proved.
2. Liveness of the larger parts: a disk request is completed, a TCP byte arrives when the
   network is fair, every processor passes the barrier of the shootdown.
3. `InterruptChain`: handler chains with the end of interrupt of each controller.
