---------------------------- MODULE FileServices -----------------------------
(***************************************************************************)
(* The file layer with the FIFO files and the files of the kernel image:   *)
(* all that the threads of a task do with them, until the last one ends.   *)
(***************************************************************************)
EXTENDS FIFOFile, KernelFS

Calling == {"close", "read", "write", "parameter"}

\* file.c, and the end of a thread in taskmanager.c.
FileLayer(t) ==
    \/ \E h \in Handle, r \in Pool : dispatchFileNameCommand(t, h, r)
    \/ \E h \in Handle, op \in Calling : searchOpenFileList(t, h, op)
    \/ \E r \in Request : \/ createFileIO(t, r) \/ acceptDeleteFileIO(t, r)
                          \/ cancelIO(t, r) \/ cancelAllIORequests(t, r)
    \/ undoCount(t) \/ uncountCancelled(t) \/ completeCount(t) \/ completeIO(t)
    \/ terminateCurrentTask(t) \/ leaveOpenFileManager(t) \/ closeAllOpenFileRequest(t)
    \/ \E u \in User : createUserThread(t, u)

FIFOService(t) ==
    \/ openFIFOFile(t) \/ readFIFOFile(t) \/ writeFIFOFile(t) \/ getFIFOFileParam(t)
    \/ processFIFO(t) \/ closeFIFOFile(t) \/ deleteFIFO(t) \/ cancelReadFIFO(t)

KernelFSService(t) ==
    \/ openKFS(t) \/ fetchOffset(t) \/ advanceOffset(t) \/ getKFSParameter(t)
    \/ refuseWriteKFS(t) \/ closeKFS(t)

FileServicesInit == FileInit([Handle -> {"fifo", "blob", "directory"}]) /\ FIFOInit /\ KFSInit

FileServicesNext ==
    \E t \in User : \/ FileLayer(t) /\ UNCHANGED <<fifo, offset>>
                    \/ FIFOService(t) /\ UNCHANGED offset
                    \/ KernelFSService(t) /\ UNCHANGED fifo

FileServicesSpec == FileServicesInit /\ [][FileServicesNext]_<<fileVars, fifo, offset>>
=============================================================================
