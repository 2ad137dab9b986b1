------------------------------- MODULE MCFiles --------------------------------
(***************************************************************************)
(* The file layer with its services for TLC: two threads of one task share *)
(* a file, and a thread of the kernel adds resources.  Which service the   *)
(* file belongs to is chosen initially.  The FAT32 service has no variable *)
(* in common with it and runs instead of it, with one file and all         *)
(* operations or with two files.                                           *)
(***************************************************************************)
EXTENDS FileServices, Resource, FAT, TLC

CONSTANT FATHandle1     \* of the part with one file

VARIABLE running

DiskReads == 0..2       \* clusters read before the disk fails; no file has more
TablePages == [1..2 -> BOOLEAN]

MCKinds == [Handle -> Kind]

MCSymmetry == Permutations(User) \cup Permutations(Description)

\* A disk with clusters of three units: the root directory in the clusters 2 and 3, a file
\* of four bytes in 4 and 5, and a directory in 6 whose second cluster is bad.
MCEntry(name, attribute, cluster, size) ==
    [name |-> name, attribute |-> attribute, cluster |-> cluster, size |-> size]
MCRoot == <<MCEntry("V", "volume", 0, 0), EmptyEntry, MCEntry("A", "file", 4, 4),
            MCEntry("D", "directory", 6, 0), EndEntry, EndEntry>>
MCDirectory == <<MCEntry(".", "directory", 6, 0), MCEntry("..", "directory", 0, 0), EmptyEntry>>
MCTable == [c \in 0..7 |-> <<90, 90, 3, 90, 5, 90, 7, 80>>[c + 1]]
MCDisk == [c \in 2..6 |-> <<SubSeq(MCRoot, 1, 3), SubSeq(MCRoot, 4, 6), <<1, 2, 3>>, <<4, 0, 0>>,
                            MCDirectory>>[c - 1]]
MCContents == [c \in {2, 4, 6} |-> CASE c = 2 -> SubSeq(MCRoot, 1, 4) [] c = 4 -> <<1, 2, 3, 4>>
                                       [] c = 6 -> MCDirectory]
MCPaths == {<<>>, <<"a">>, <<"v">>, <<"a", "a">>, <<"d", "..">>, <<"toolongname">>}

serviceVars == <<fileVars, fifo, offset, resourceVars>>
vars == <<running, serviceVars, fatVars>>

MCInit ==
    /\ running \in {"services", "fat", "fats"}
    /\ FileInit(IF running = "services" THEN MCKinds ELSE [Handle -> {"fifo"}])
    /\ FATInit /\ FIFOInit /\ KFSInit /\ ResourceInit

services == <<fifo, offset, resourceVars>>

Services == running = "services" /\ UNCHANGED <<running, fatVars>>
Fat == running \in {"fat", "fats"} /\ UNCHANGED <<running, serviceVars>>

\* One FAT file and everything a user does with it, or two that use the same directories.
FatUsed(h) == running = "fats" \/ h = FATHandle1
PathUsed(path, enumeration) == running = "fat" \/ (~enumeration /\ path \in {<<"a">>, <<"a", "a">>})
SizeUsed(n) == running = "fat" \/ n = 2

\* Resources matter only to enumerators.
HasEnumerator == \E h \in Handle : of[h].kind = "enumerator"

MCNext ==
    \/ \E t \in User, h \in Handle, r \in Pool : Services /\ dispatchFileNameCommand(t, h, r) /\ UNCHANGED services
    \/ \E t \in User, h \in Handle, op \in Calling : Services /\ searchOpenFileList(t, h, op) /\ UNCHANGED services
    \/ \E t \in User, r \in Request : Services /\ createFileIO(t, r) /\ UNCHANGED services
    \/ \E t \in User, r \in Request : Services /\ acceptDeleteFileIO(t, r) /\ UNCHANGED services
    \/ \E t \in User, r \in Request : Services /\ cancelIO(t, r) /\ UNCHANGED services
    \/ \E t \in User : Services /\ undoCount(t) /\ UNCHANGED services
    \/ \E t \in User : Services /\ uncountCancelled(t) /\ UNCHANGED services
    \/ \E t \in Thread : Services /\ completeCount(t) /\ UNCHANGED services
    \/ \E t \in Thread : Services /\ completeIO(t) /\ UNCHANGED services
    \/ \E t \in User : Services /\ openFIFOFile(t) /\ UNCHANGED <<offset, resourceVars>>
    \/ \E t \in User : Services /\ readFIFOFile(t) /\ UNCHANGED <<offset, resourceVars>>
    \/ \E t \in User : Services /\ writeFIFOFile(t) /\ UNCHANGED <<offset, resourceVars>>
    \/ \E t \in User : Services /\ getFIFOFileParam(t) /\ UNCHANGED <<offset, resourceVars>>
    \/ \E t \in User : Services /\ processFIFO(t) /\ UNCHANGED <<offset, resourceVars>>
    \/ \E t \in User : Services /\ closeFIFOFile(t) /\ UNCHANGED <<offset, resourceVars>>
    \/ \E t \in User : Services /\ deleteFIFO(t) /\ UNCHANGED <<offset, resourceVars>>
    \/ \E t \in User : Services /\ cancelReadFIFO(t) /\ UNCHANGED <<offset, resourceVars>>
    \/ \E t \in User : Services /\ openKFS(t) /\ UNCHANGED <<fifo, resourceVars>>
    \/ \E t \in User : Services /\ fetchOffset(t) /\ UNCHANGED <<fifo, resourceVars>>
    \/ \E t \in User : Services /\ advanceOffset(t) /\ UNCHANGED <<fifo, resourceVars>>
    \/ \E t \in User : Services /\ getKFSParameter(t) /\ UNCHANGED <<fifo, resourceVars>>
    \/ \E t \in User : Services /\ refuseWriteKFS(t) /\ UNCHANGED <<fifo, resourceVars>>
    \/ \E t \in User : Services /\ closeKFS(t) /\ UNCHANGED <<fifo, resourceVars>>
    \/ \E t \in User : Services /\ enumWaitable(t) /\ UNCHANGED <<fifo, offset>>
    \/ \E t \in User : Services /\ readEnumWaitable(t) /\ UNCHANGED <<fifo, offset>>
    \/ \E t \in User : Services /\ closeEnumWaitable(t) /\ UNCHANGED <<fifo, offset>>
    \/ \E t \in User : Services /\ cancelReadEnumWaitable(t) /\ UNCHANGED <<fifo, offset>>
    \/ \E t \in User : Services /\ refuseEnum(t) /\ UNCHANGED <<fifo, offset>>
    \/ \E k \in Kernel, d \in Description : Services /\ HasEnumerator /\ addWaitable(k, d) /\ UNCHANGED <<fifo, offset>>
    \/ \E k \in Kernel, d \in Description : Services /\ deleteResource(k, d) /\ UNCHANGED <<fifo, offset>>
    \/ \E t \in User : Services /\ terminateCurrentTask(t) /\ UNCHANGED services
    \/ \E t \in User, r \in Request : Services /\ cancelAllIORequests(t, r) /\ UNCHANGED services
    \/ \E t \in User : Services /\ leaveOpenFileManager(t) /\ UNCHANGED services
    \/ \E t \in User : Services /\ closeAllOpenFileRequest(t) /\ UNCHANGED services
    \/ \E t, u \in User : Services /\ createUserThread(t, u) /\ UNCHANGED services
    \/ \E opened, boot \in BOOLEAN, pages \in TablePages : Fat /\ fatService(opened, boot, pages)
    \/ \E h \in FATHandle, t \in FATTask, path \in Paths, l \in Letter, e \in BOOLEAN :
           Fat /\ FatUsed(h) /\ PathUsed(path, e) /\ openFAT(h, t, path, l, e)
    \/ \E t \in FATTask : Fat /\ walkFATPath(t)
    \/ \E t \in FATTask : Fat /\ lockDirectory(t)
    \/ \E t \in FATTask, n \in DiskReads : Fat /\ readDirectory(t, n)
    \/ \E t \in FATTask : Fat /\ leaveDirectory(t)
    \/ \E t \in FATTask, ok \in BOOLEAN : Fat /\ createOpenedFATFile(t, ok)
    \/ \E h \in FATHandle, t \in FATTask, n \in ReadSizes : Fat /\ SizeUsed(n) /\ readFAT(h, t, n)
    \/ \E h \in FATHandle, t \in FATTask, n \in ReadSizes, o \in SeekOffsets :
           Fat /\ running = "fat" /\ seekReadFAT(h, t, o, n)
    \/ \E t \in FATTask : Fat /\ lockFATFile(t)
    \/ \E t \in FATTask, n \in DiskReads : Fat /\ rwFATTask(t, n)
    \/ \E t \in FATTask : Fat /\ completeFATRead(t)
    \/ \E h \in FATHandle : Fat /\ closeFAT(h)
    \/ (panic # "none" \/ ended = User) /\ UNCHANGED vars

MCSpec == MCInit /\ [][MCNext]_vars
=============================================================================
