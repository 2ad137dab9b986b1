-------------------------------- MODULE FileIO --------------------------------
(***************************************************************************)
(* The file layer (kernel/file/file.c): the OpenedFiles of one             *)
(* OpenFileManager, the threads that share it and the requests they make.  *)
(* A critical section of a file's lock or of the manager's lock is a step. *)
(*                                                                         *)
(* The services (modules FIFOFile, KernelFS and Resource) take over at     *)
(* "service", when a request is created and pended, and give a request     *)
(* back by putting it in the todo list of the thread that completes it.    *)
(***************************************************************************)
EXTENDS Integers, Sequences, FiniteSets

CONSTANTS
    User,       \* the threads that share the OpenFileManager
    Kernel,     \* threads of the kernel that complete requests of others
    Handle,     \* memory for OpenedFiles
    Requests,   \* bound on the requests, other than to close, at a time
    NoHandle

ASSUME FileAssumption ==
    /\ Requests \in Nat \ {0}
    /\ User \cap Kernel = {}
    /\ NoHandle \notin Handle /\ 0..Requests \cap Handle = {}
    /\ IsFiniteSet(User) /\ IsFiniteSet(Kernel) /\ IsFiniteSet(Handle)

VARIABLES
    of,         \* the OpenedFiles
    ior,        \* the FileIORequests
    thr,        \* the threads
    exiting,    \* the threads in terminateCurrentTask
    ended,      \* the threads that gave up their reference to the OpenFileManager
    panic       \* an assertion that failed, or memory used after it was freed

exitVars == <<exiting, ended>>
fileVars == <<of, ior, thr, exitVars, panic>>

\* The requests, and with its handle the one of a file for closing it.
Pool == 1..Requests
Request == Pool \cup Handle
NoRequest == 0
Thread == User \cup Kernel
Kind == {"fifo", "blob", "directory", "enumerator"}
Op == {"none", "open", "close", "read", "write", "parameter", "add"}

\* "found": searchOpenFileList returned the file; "service": the request is pended and
\* the function of the service is called; "position": a read that fetched its offset;
\* "loop": at the lock of processFIFO; "count" and "list": completing the head of todo;
\* "free": at the DELETE after completeCloseFile; "undo": at line 855; "cancel" and
\* "uncount": in cancelDeleteFileIO.
ThreadStep == {"run", "found", "service", "position", "loop", "count", "list", "free",
               "undo", "cancel", "uncount"}

\* "queued": cancellable, in a list of its service; "claimed": not cancellable, its
\* service answers it; "counted": no longer counted by its file; "cancelling": taken
\* out of the pending list by its owner; "cancelled": the same by tryCancelIO, which leaves
\* it cancellable.
RequestStep == {"none", "service", "queued", "claimed", "counted", "completed",
                "cancelling", "cancelled"}

Panic == {"none", "ioCount", "deleteOnCompletion", "freed", "cancelled", "pending",
          "entry"}

\* refused: a service function refused a request for the file, see cancelFailedFileIO.
NoFile(k, refused) ==
    [state |-> "none", kind |-> k, deleteOnCompletion |-> FALSE, ioCount |-> 0,
     refused |-> refused]

NoIO == [step |-> "none", op |-> "none", file |-> NoHandle, task |-> NoHandle]

\* todo: the requests the thread completes next; back: where it goes on after them.
Idle == [pc |-> "run", file |-> NoHandle, op |-> "none", req |-> NoRequest,
         todo |-> <<>>, back |-> "run", position |-> 0]

\* Which service the files of a handle belong to is fixed.
FileInit(kinds) ==
    /\ \E kind \in kinds : of = [h \in Handle |-> NoFile(kind[h], FALSE)]
    /\ ior = [r \in Request |-> NoIO]
    /\ thr = [t \in Thread |-> Idle]
    /\ exiting = {} /\ ended = {}
    /\ panic = "none"

\* The thread goes on from step, and neither ends nor creates a thread.
At(t, step) == thr[t].pc = step /\ panic = "none" /\ UNCHANGED exitVars

\* The thread makes a system call.
Runs(t) == At(t, "run") /\ t \notin exiting \cup ended

\* The memory NEW returns: the first that is free.
Fresh(r) == r \in Pool /\ ior[r].step = "none" /\ \A q \in 1..r - 1 : ior[q].step # "none"

Go(t, step) == thr' = [thr EXCEPT ![t].pc = step]

Step(r, step) == [ior EXCEPT ![r].step = step]

\* REMOVE_FROM_DQUEUE: the list without r, which is in it once or not at all.
Without(list, r) ==
    IF \A i \in 1..Len(list) : list[i] # r THEN list
    ELSE LET i == CHOOSE j \in 1..Len(list) : list[j] = r
         IN  SubSeq(list, 1, i - 1) \o SubSeq(list, i + 1, Len(list))

\* The thread of t goes on with completing the requests of todo.
CompleteNext(t, todo, back) ==
    thr' = [thr EXCEPT ![t].pc = IF todo = <<>> THEN back ELSE "count",
                       ![t].todo = todo, ![t].back = back]

\* What the count of a file should say: its requests that are not completed, and the
\* calls that found it and have no request yet or no longer.
Counted(h) ==
    {r \in Request : ior[r].file = h /\ ior[r].step \notin {"none", "counted", "completed"}}

Calls(h) == {t \in Thread : thr[t].file = h /\ thr[t].pc \in {"found", "undo"}}

\* Memory that something refers to is not given out again.
Referenced(h) ==
    Counted(h) # {} \/ ior[h].step # "none" \/ \E t \in Thread : thr[t].file = h

----------------------------------------------------------------------------
\* The reference count of an OpenedFile

\* addFileIOCount(of, -1): a file that is closing or was not opened is deleted when its
\* last request is done, and accepts no other change.
Accepts(f) == ~f.deleteOnCompletion \/ f.ioCount = 1

Uncounted(f) ==
    IF f.deleteOnCompletion THEN NoFile(f.kind, f.refused)
    ELSE [f EXCEPT !.ioCount = @ - 1]

\* A count that is not checked.
UncountUnchecked(f) == "none"

\* The assertion of addFileIOCount, and the one of its callers on the result.
UncountPanic(f) ==
    IF ~Accepts(f) THEN "deleteOnCompletion" ELSE IF f.ioCount = 0 THEN "ioCount" ELSE "none"

Uncount(h) ==
    /\ panic' = UncountPanic(of[h])
    /\ of' = IF panic' = "none" THEN [of EXCEPT ![h] = Uncounted(@)] ELSE of

\* Closing a file whose requests have not all completed.
CloseAnyway(f) == f.deleteOnCompletion = FALSE

\* setFileClosing.
Closable(f) == f.deleteOnCompletion = FALSE /\ f.ioCount = 0

\* searchOpenFileList: the file is found by its handle under the lock of the manager and
\* counted or marked as closing.  A handle that is not in the list, a file that is being
\* closed and a file in use fail the call, which changes nothing.
FindFile(t, h, op) ==
    /\ of[h].state = "listed"
    /\ \/ /\ op = "close"
          /\ Closable(of[h])
          /\ of' = [of EXCEPT ![h].deleteOnCompletion = TRUE, ![h].ioCount = 1]
       \/ /\ op # "close"
          /\ ~of[h].deleteOnCompletion
          /\ of' = [of EXCEPT ![h].ioCount = @ + 1]
    /\ thr' = [thr EXCEPT ![t].pc = "found", ![t].file = h, ![t].op = op]
    /\ UNCHANGED <<ior, panic>>

searchOpenFileList(t, h, op) == Runs(t) /\ FindFile(t, h, op)

----------------------------------------------------------------------------
\* dispatchFileNameCommand and dispatchFileHandleCommand

\* A file is deleted with its only request until initOpenedFile2.
initOpenedFile(f) ==
    [f EXCEPT !.state = "opening", !.deleteOnCompletion = TRUE, !.ioCount = 1, !.refused = FALSE]
initOpenedFile2(f) == [f EXCEPT !.state = "listed", !.deleteOnCompletion = FALSE]

removeFromOpenFileList(f) == [f EXCEPT !.state = "closing"]

\* The file and its request to open are created.
createOpenFileRequests(t, h, r) ==
    /\ of' = [of EXCEPT ![h] = initOpenedFile(@)]
    /\ ior' = [ior EXCEPT ![r] = [step |-> "service", op |-> "open", file |-> h, task |-> t]]

\* The request is pended and the service called.  Failing to find the service or to allocate
\* changes nothing.
dispatchFileNameCommand(t, h, r) ==
    /\ Runs(t)
    /\ of[h].state = "none" /\ ~Referenced(h)
    /\ Fresh(r)
    /\ createOpenFileRequests(t, h, r)
    /\ thr' = [thr EXCEPT ![t].pc = "service", ![t].file = h, ![t].op = "open", ![t].req = r]
    /\ UNCHANGED panic

\* dispatchRWFileCommand cannot map the buffer, or a request cannot be allocated.
NotCreated(t) == thr[t].op # "close" /\ Go(t, "undo") /\ UNCHANGED ior

\* The request is allocated, its buffer mapped, and it is pended.  The request to close was
\* allocated with the file.
createFileIO(t, r) ==
    /\ At(t, "found")
    /\ \/ /\ IF thr[t].op = "close" THEN r = thr[t].file ELSE Fresh(r)
          /\ ior' = [ior EXCEPT ![r] = [step |-> "service", op |-> thr[t].op,
                                        file |-> thr[t].file, task |-> t]]
          /\ thr' = [thr EXCEPT ![t].pc = "service", ![t].req = r]
       \/ NotCreated(t)
    /\ UNCHANGED <<of, panic>>

\* Line 855, "undo addIOCount in searchOpenFileList".
undoCount(t) ==
    /\ At(t, "undo")
    /\ \/ Accepts(of[thr[t].file]) /\ Uncount(thr[t].file)
       \/ ~Accepts(of[thr[t].file]) /\ UNCHANGED <<of, panic>>
    /\ thr' = [thr EXCEPT ![t] = Idle]
    /\ UNCHANGED ior

\* The function of the service returned 0: cancelFailedFileIO deletes the request and,
\* in cancelDeleteFileIO, takes it off the count.  The caller of a failed open is done; for
\* the others line 855 follows.
cancelFailedFileIO(t) ==
    /\ ior' = [ior EXCEPT ![thr[t].req] = NoIO]
    /\ panic' = UncountPanic(of[thr[t].file])
    /\ of' = [of EXCEPT ![thr[t].file] =
                 IF panic' = "none" THEN
                     Uncounted([@ EXCEPT !.refused = of[thr[t].file].refused \/ thr[t].op # "open"])
                 ELSE @]
    /\ thr' = [thr EXCEPT ![t] = IF @.op = "open" THEN Idle ELSE [@ EXCEPT !.pc = "undo"]]

\* completeOpenFile, up to completeFileIO: initOpenedFile2 and addToOpenFileList.
completeOpenFile(t) ==
    /\ of' = [of EXCEPT ![thr[t].file] = initOpenedFile2(@)]
    /\ ior' = Step(thr[t].req, "claimed")
    /\ CompleteNext(t, <<thr[t].req>>, "run")
    /\ UNCHANGED panic

\* completeCloseFile, up to completeFileIO: removeFromOpenFileList.
completeCloseFile(t, back) ==
    /\ panic' = IF of[thr[t].file].ioCount = 1 THEN panic ELSE "ioCount"
    /\ of' = [of EXCEPT ![thr[t].file] = removeFromOpenFileList(@)]
    /\ ior' = Step(thr[t].req, "claimed")
    /\ CompleteNext(t, <<thr[t].req>>, back)

\* The service answers the request of the calling thread at once.
completeRequest(t) ==
    /\ ior' = Step(thr[t].req, "claimed")
    /\ CompleteNext(t, <<thr[t].req>>, "run")
    /\ UNCHANGED <<of, panic>>

----------------------------------------------------------------------------
\* completeFileIO

\* The request is taken off the count of its file, which deletes a file that is closed or
\* could not be opened.
completeCount(t) ==
    /\ At(t, "count")
    /\ Uncount(ior[Head(thr[t].todo)].file)
    /\ ior' = Step(Head(thr[t].todo), "counted")
    /\ Go(t, "list")

\* completeIO.
completeIO(t) ==
    /\ At(t, "list")
    /\ LET r == Head(thr[t].todo)
           rest == Tail(thr[t].todo)
       IN  /\ ior' = Step(r, "completed")
           /\ IF rest = <<>> /\ thr[t].back = "run"
              THEN thr' = [thr EXCEPT ![t] = Idle]
              ELSE CompleteNext(t, rest, thr[t].back)
    /\ UNCHANGED <<of, panic>>

\* acceptDeleteFileIO, when the owner waited for the request.
acceptDeleteFileIO(t, r) ==
    /\ Runs(t)
    /\ ior[r].task = t /\ ior[r].step = "completed"
    /\ ior' = [ior EXCEPT ![r] = NoIO]
    /\ UNCHANGED <<of, thr, panic>>

\* cacnelIOHandler, up to the call of cancelDeleteFileIO.
cancelIO(t, r) ==
    /\ Runs(t)
    /\ ior[r].task = t /\ ior[r].step = "queued"
    /\ ior' = Step(r, "cancelling")
    /\ thr' = [thr EXCEPT ![t].pc = "cancel", ![t].file = ior[r].file, ![t].req = r]
    /\ UNCHANGED <<of, panic>>

\* The second half of cancelDeleteFileIO, after the service forgot the request.
uncountCancelled(t) ==
    /\ At(t, "uncount")
    /\ Uncount(thr[t].file)
    /\ ior' = [ior EXCEPT ![thr[t].req] = NoIO]
    /\ thr' = [thr EXCEPT ![t] = Idle]

----------------------------------------------------------------------------
\* terminateCurrentTask and createUserThreadHandler

OwnIO(t) == {r \in Request : ior[r].task = t /\ ior[r].step # "none"}
Exits(t) == thr[t].pc = "run" /\ panic = "none" /\ t \in exiting

terminateCurrentTask(t) ==
    /\ thr[t].pc = "run" /\ panic = "none" /\ t \notin exiting \cup ended
    /\ exiting' = exiting \cup {t}
    /\ UNCHANGED <<of, ior, thr, ended, panic>>

\* cancelAllIORequests, for one of its requests: tryCancelIO takes it out of the pending
\* list if it is cancellable; otherwise the thread waits until it is completed.
cancelAllIORequests(t, r) ==
    /\ Exits(t) /\ r \in OwnIO(t)
    /\ \/ /\ ior[r].step = "queued"
          /\ ior' = Step(r, "cancelled")
          /\ thr' = [thr EXCEPT ![t].pc = "cancel", ![t].file = ior[r].file, ![t].req = r]
       \/ /\ ior[r].step = "completed"
          /\ ior' = [ior EXCEPT ![r] = NoIO]
          /\ UNCHANGED thr
    /\ UNCHANGED <<of, exitVars, panic>>

\* A thread that leaves its requests that cannot be cancelled behind.
LeaveRequests(t) == \A r \in OwnIO(t) : ior[r].step # "queued"

\* The loop of cancelAllIORequests is over when both lists are empty.
NoRequestLeft(t) == OwnIO(t) = {}

\* addOpenFileManagerReference(ofm, -1), when other threads have references.
leaveOpenFileManager(t) ==
    /\ Exits(t) /\ NoRequestLeft(t)
    /\ User \ ended # {t}
    /\ ended' = ended \cup {t} /\ exiting' = exiting \ {t}
    /\ UNCHANGED <<of, ior, thr, panic>>

\* closeAllOpenFileRequest, by the last thread: it closes a file of the list, whose request
\* it then waits for, or gives up on one that cannot be closed; in the end it deletes the
\* manager.
closeAllOpenFileRequest(t) ==
    /\ Exits(t) /\ NoRequestLeft(t)
    /\ User \ ended = {t}
    /\ \/ (\E h \in Handle : FindFile(t, h, "close")) /\ UNCHANGED exitVars
       \/ /\ \E h \in Handle : /\ of[h].state = "listed" /\ ~Closable(of[h])
                               /\ of' = [of EXCEPT ![h].state = "left"]
          /\ UNCHANGED <<ior, thr, exitVars, panic>>
       \/ /\ \A h \in Handle : of[h].state # "listed"
          /\ ended' = ended \cup {t} /\ exiting' = exiting \ {t}
          /\ UNCHANGED <<of, ior, thr, panic>>

\* A thread that ended stands for the memory of a new one.
createUserThread(t, u) ==
    /\ thr[t].pc = "run" /\ panic = "none" /\ t \notin exiting \cup ended
    /\ u \in ended
    /\ ended' = ended \ {u}
    /\ UNCHANGED <<of, ior, thr, exiting, panic>>

----------------------------------------------------------------------------
\* Properties

FileTypeOK ==
    /\ of \in [Handle -> [state : {"none", "opening", "listed", "closing", "left"}, kind : Kind,
                          deleteOnCompletion : BOOLEAN, ioCount : Nat, refused : BOOLEAN]]
    /\ ior \in [Request -> [step : RequestStep, op : Op, file : Handle \cup {NoHandle},
                            task : Thread \cup {NoHandle}]]
    /\ thr \in [Thread -> [pc : ThreadStep, file : Handle \cup {NoHandle}, op : Op,
                           req : Request \cup {NoRequest}, todo : Seq(Request),
                           back : {"run", "loop", "free"}, position : Nat]]
    /\ exiting \subseteq User /\ ended \subseteq User \ exiting
    /\ panic \in Panic

\* The count of OpenedFile is the number of calls and requests that use the file, so a
\* file is closed only when nothing else uses it: through every interleaving of open,
\* close, completion and cancellation, as long as no service function refused a request.
FileCountsRequests ==
    /\ FileTypeOK
    /\ panic = "none" => \A h \in Handle : ~of[h].refused =>
           of[h].ioCount = Cardinality(Counted(h)) + Cardinality(Calls(h))

\* When the last thread of a task ends, all files are closed: because every thread cancelled
\* or waited for its requests in cancelAllIORequests, none of the files in the list has one,
\* and closeAllOpenFileRequest gives up ("cannot close file") on none, unless the count of the
\* file is wrong because a service function refused a request.
ExitClosesFiles ==
    panic = "none" => \A h \in Handle : of[h].state = "left" => of[h].refused
=============================================================================
