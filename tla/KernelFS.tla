------------------------------- MODULE KernelFS -------------------------------
(***************************************************************************)
(* The files in the kernel image (kernel/file/kernelfs.c), read at the     *)
(* offset file.c keeps for an OpenedFile: a file of BlobSize bytes that is *)
(* read ReadSize bytes at a time, and the directory of BlobCount entries.  *)
(***************************************************************************)
EXTENDS FileIO

CONSTANTS BlobSize, ReadSize, BlobCount

ASSUME KernelFSAssumption == BlobSize \in Nat /\ ReadSize \in Nat /\ BlobCount \in Nat

VARIABLE offset   \* OpenedFile.offset, for a directory in entries

InKFS(t, step) ==
    At(t, step) /\ thr[t].file \in Handle /\ of[thr[t].file].kind \in {"blob", "directory"}

InKFSService(t, op) == InKFS(t, "service") /\ thr[t].op = op

KFSInit == offset = [h \in Handle |-> 0]

\* A name that is not found and memory that is not available refuse the request.
openKFS(t) ==
    /\ InKFSService(t, "open")
    /\ \/ /\ completeOpenFile(t)
          /\ offset' = [offset EXCEPT ![thr[t].file] = 0]
       \/ /\ cancelFailedFileIO(t)
          /\ UNCHANGED offset

\* seekReadByOffset and enumReadKFS fetch the offset; a buffer too small for an entry is
\* refused, and the entry is asserted to lie before the end of the directory or at it
\* (the remainder of the difference by the size of an entry).
fetchOffset(t) ==
    /\ InKFSService(t, "read")
    /\ LET h == thr[t].file
       IN  \/ /\ thr' = [thr EXCEPT ![t].pc = "position", ![t].position = offset[h]]
              /\ panic' = IF of[h].kind = "directory" /\ offset[h] > BlobCount
                          THEN "entry" ELSE "none"
              /\ UNCHANGED <<of, ior>>
           \/ of[h].kind = "directory" /\ cancelFailedFileIO(t)
    /\ UNCHANGED offset

\* computeCopySize.
copySize(position) ==
    IF position > BlobSize THEN 0
    ELSE IF ReadSize < BlobSize - position THEN ReadSize ELSE BlobSize - position

\* completeRWFileIO, up to completeFileIO: a directory advances by an entry, the end of
\* it included, a file by what was copied.
advanceOffset(t) ==
    /\ InKFS(t, "position")
    /\ offset' = [offset EXCEPT ![thr[t].file] =
                     @ + IF of[thr[t].file].kind = "directory" THEN 1
                         ELSE copySize(thr[t].position)]
    /\ ior' = Step(thr[t].req, "claimed")
    /\ thr' = [thr EXCEPT ![t].pc = "count", ![t].todo = <<thr[t].req>>, ![t].position = 0]
    /\ UNCHANGED <<of, panic>>

\* FILE_PARAM_SIZE of a file is answered, everything else is refused.
getKFSParameter(t) ==
    /\ InKFSService(t, "parameter")
    /\ (of[thr[t].file].kind = "blob" /\ completeRequest(t)) \/ cancelFailedFileIO(t)
    /\ UNCHANGED offset

\* Neither can be written.
refuseWriteKFS(t) ==
    /\ InKFSService(t, "write")
    /\ cancelFailedFileIO(t)
    /\ UNCHANGED offset

closeKFS(t) ==
    /\ InKFSService(t, "close")
    /\ completeCloseFile(t, "run")
    /\ UNCHANGED offset
=============================================================================
