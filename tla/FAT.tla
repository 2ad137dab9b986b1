--------------------------------- MODULE FAT ---------------------------------
(***************************************************************************)
(* The FAT32 service (kernel/file/fat.c).  Every open and every read is    *)
(* done by a task of its own; the tasks share the list of FATFiles, in     *)
(* which a file has a count of references and a lock for readers, and the  *)
(* offset that the file layer keeps for an opened file.                    *)
(*                                                                         *)
(* The disk is constant.  What it stores is counted in units: a unit of a  *)
(* directory is an entry, a unit of a file is a byte.  A cluster read may  *)
(* fail, see module AHCI for the driver.                                   *)
(***************************************************************************)
EXTENDS Integers, Sequences, FiniteSets

CONSTANTS
    FATHandle,      \* memory for OpenedFATFiles
    FATTask,        \* the tasks created by openFAT and seekReadFAT
    Letters,        \* number of partition letters, 24 in fatService
    Table,          \* the file allocation table: a function from 0..n
    DiskCluster,    \* the units of every cluster
    RootCluster,
    EndOfCluster, BadCluster,
    ClusterSize,    \* in units
    OffsetRange,    \* 2^32 in the code
    Paths,          \* the paths that are opened, sequences of names
    ReadSizes, SeekOffsets,
    Contents,       \* what the files and directories contain, by first cluster
    NoFAT

ASSUME FATAssumption ==
    /\ Letters \in Nat \ {0}
    /\ ClusterSize \in 1..OffsetRange
    /\ EndOfCluster \notin DOMAIN Table /\ BadCluster \notin DOMAIN Table
    /\ RootCluster \in DOMAIN Table
    /\ \A c \in DOMAIN DiskCluster : Len(DiskCluster[c]) = ClusterSize

VARIABLES
    partition,      \* the letters of fat32List
    nextLetter,     \* of the loop of fatService
    fatFile,        \* fatFileList, by partition and first cluster
    fatOpen,        \* the OpenedFATFiles, with the offset of their OpenedFile
    fatTask         \* the tasks

fatVars == <<partition, nextLetter, fatFile, fatOpen, fatTask>>

Letter == 1..Letters
Key == Letter \X DOMAIN Table

NoFATFile == [references |-> 0, readers |-> 0]
EmptyEntry == [name |-> "", attribute |-> "empty", cluster |-> 0, size |-> 0]
EndEntry == [name |-> "", attribute |-> "end", cluster |-> 0, size |-> 0]
NotOpened == [state |-> "none", enumeration |-> FALSE, letter |-> 1, entry |-> EmptyEntry, offset |-> 0]

\* "walk": at the loop of openFATTask; "search", "read" and "leave": in
\* nextLevelDirectory, before its lock, with it, and before it gives its reference up;
\* "create": at the end of openFATTask; "lock" and "transfer": in rwFATTask;
\* "complete": at its completeRWFileIO.
FATStep == {"none", "walk", "search", "read", "leave", "create", "lock", "transfer", "complete"}

NoFATTask == [pc |-> "none", handle |-> NoFAT, path |-> <<>>, entry |-> EmptyEntry, ok |-> TRUE,
              offset |-> 0, size |-> 0, output |-> <<>>, next |-> 0, failed |-> FALSE,
              updateOffset |-> FALSE]

FATInit ==
    /\ partition = {} /\ nextLetter = 1
    /\ fatFile = [k \in Key |-> NoFATFile]
    /\ fatOpen = [h \in FATHandle |-> NotOpened]
    /\ fatTask = [t \in FATTask |-> NoFATTask]

----------------------------------------------------------------------------
\* The file allocation table

isValidCluster(c) == c \in DOMAIN Table /\ Table[c] # BadCluster

RECURSIVE countClusterByFAT(_)
countClusterByFAT(c) == IF isValidCluster(c) THEN 1 + countClusterByFAT(Table[c]) ELSE 0

\* The last cluster is copied whole.
CopyWholeCluster(index, offset, end) ==
    [begin |-> IF index > offset THEN index ELSE offset, end |-> index + ClusterSize]

\* The part of the cluster at index of the file that is copied.
CopyRange(index, offset, end) ==
    [begin |-> IF index > offset THEN index ELSE offset,
     end |-> IF index + ClusterSize < end THEN index + ClusterSize ELSE end]

\* The loop of readByFAT from the cluster c at index: the units copied, and whether a read
\* of the disk failed.  The disk reads clusters clusters and then fails.
RECURSIVE readClusters(_, _, _, _, _)
readClusters(c, index, offset, end, clusters) ==
    IF index >= end \/ ~isValidCluster(c) THEN [units |-> <<>>, failed |-> FALSE]
    ELSE IF index + ClusterSize <= offset
         THEN readClusters(Table[c], index + ClusterSize, offset, end, clusters)
    ELSE IF clusters = 0 THEN [units |-> <<>>, failed |-> TRUE]
    ELSE LET copy == CopyRange(index, offset, end)
             rest == readClusters(Table[c], index + ClusterSize, offset, end, clusters - 1)
             from == copy.begin % ClusterSize
         IN  [units |-> SubSeq(DiskCluster[c], from + 1, from + copy.end - copy.begin) \o rest.units,
              failed |-> rest.failed]

\* The end is computed in 32 bits.  That the buffer for a cluster cannot be allocated looks
\* to the caller like a disk that fails at once.
readByFAT(c, offset, size, clusters) ==
    readClusters(c, 0, offset, (offset + size) % OffsetRange, clusters)

----------------------------------------------------------------------------
\* Directories

\* Names are compared in upper case.  The part after the last dot is the extension,
\* so the parent directory's name becomes that of the directory itself, and that one blank.
\* The result for a name that does not fit is not used: formattedName is then not
\* initialised and may be anything.
toFATFileName(name) ==
    CASE name = "a" -> {"A"} [] name = "d" -> {"D"} [] name = "v" -> {"V"}
      [] name = ".." -> {"."} [] name = "." -> {" "}
      [] name = "toolongname" -> {"A", "D", "."}
      [] OTHER -> {name}

\* searchDirectory: the last entry with the name before the end of the directory.
searchDirectory(dir, name) ==
    LET Before(p) == \A i \in 1..p : dir[i].attribute # "end"
        found == {p \in 1..Len(dir) : Before(p) /\ dir[p].attribute # "empty" /\ dir[p].name = name}
    IN  IF found = {} THEN EmptyEntry
        ELSE dir[CHOOSE p \in found : \A i \in found : i <= p]

initRootDirEntry == [name |-> "", attribute |-> "directory", cluster |-> RootCluster, size |-> 0]

----------------------------------------------------------------------------
\* fatFileList

KeyOf(l, entry) == <<l, entry.cluster>>

\* A FATFile that is already in the list keeps the count it was created with.
SearchWithoutCount(k) ==
    [fatFile EXCEPT ![k].references = IF @ = 0 THEN 1 ELSE @]

\* searchCreateFATFile(dp, cluster, 1): found in the list, or created.
searchCreateFATFile(k) == [fatFile EXCEPT ![k].references = @ + 1]

\* addFATFileReference(ff, -1): the last one removes the file and deletes its lock.
addFATFileReference(k) ==
    [fatFile EXCEPT ![k] = IF @.references = 1 THEN NoFATFile ELSE [@ EXCEPT !.references = @ - 1]]

\* The lock is only ever acquired by readers, who then never wait: see module RWLock.
acquireReaderLock(k) == [fatFile EXCEPT ![k].readers = @ + 1]
releaseReaderWriterLock(f, k) == [f EXCEPT ![k].readers = @ - 1]

----------------------------------------------------------------------------
\* fatService

\* The table is read page by page, up to the first page that fails.
loadFAT32(pages) == \A p \in DOMAIN pages : pages[p]

\* The boot sector is read and has the signature, and the table is read.
createFATPartition(bootSector, pages) == bootSector /\ loadFAT32(pages)

addFAT32DiskPartition(l) == partition' = partition \cup {l}
searchFAT32DiskPartition(l) == l \in partition

\* The next partition is found and opened; one that fails uses its letter up.
fatService(opened, bootSector, pages) ==
    /\ nextLetter \in Letter
    /\ IF opened /\ createFATPartition(bootSector, pages)
       THEN addFAT32DiskPartition(nextLetter) ELSE UNCHANGED partition
    /\ nextLetter' = nextLetter + 1
    /\ UNCHANGED <<fatFile, fatOpen, fatTask>>

----------------------------------------------------------------------------
\* openFAT and its task

\* openFAT creates the task.  Failing to allocate changes nothing.
openFAT(h, t, path, l, enumeration) ==
    /\ fatOpen[h].state = "none" /\ fatTask[t].pc = "none"
    /\ fatOpen' = [fatOpen EXCEPT ![h].state = "opening", ![h].enumeration = enumeration,
                                  ![h].letter = l]
    /\ fatTask' = [fatTask EXCEPT ![t].pc = "walk", ![t].handle = h, ![t].path = path,
                                  ![t].entry = initRootDirEntry]
    /\ UNCHANGED <<partition, nextLetter, fatFile>>

TaskLetter(t) == fatOpen[fatTask[t].handle].letter
TaskKey(t) == KeyOf(TaskLetter(t), fatTask[t].entry)

\* failOpenFile and the end of the task.
FailOpen(t) ==
    /\ fatOpen' = [fatOpen EXCEPT ![fatTask[t].handle] = NotOpened]
    /\ fatTask' = [fatTask EXCEPT ![t] = NoFATTask]

\* searchFAT32DiskPartition fails; or the loop of openFATTask is at the end of the path,
\* or finds a file where a directory should be; or it goes one level down, and
\* nextLevelDirectory takes its reference.
walkFATPath(t) ==
    /\ fatTask[t].pc = "walk"
    /\ LET task == fatTask[t]
           Enterable == task.entry.attribute = "directory"
           Refused == \/ ~searchFAT32DiskPartition(TaskLetter(t))
                      \/ task.path # <<>> /\ ~Enterable
                      \/ task.path = <<>> /\ task.entry.attribute = "volume"
                      \/ task.path = <<>> /\ fatOpen[task.handle].enumeration /\ ~Enterable
       IN  \/ Refused /\ FailOpen(t) /\ UNCHANGED fatFile
           \/ /\ ~Refused /\ task.path # <<>>
              /\ fatFile' = searchCreateFATFile(TaskKey(t))
              /\ fatTask' = [fatTask EXCEPT ![t].pc = "search"]
              /\ UNCHANGED fatOpen
           \/ /\ ~Refused /\ task.path = <<>>
              /\ fatTask' = [fatTask EXCEPT ![t].pc = "create"]
              /\ UNCHANGED <<fatFile, fatOpen>>
    /\ UNCHANGED <<partition, nextLetter>>

lockDirectory(t) ==
    /\ fatTask[t].pc = "search"
    /\ fatFile' = acquireReaderLock(TaskKey(t))
    /\ fatTask' = [fatTask EXCEPT ![t].pc = "read"]
    /\ UNCHANGED <<partition, nextLetter, fatOpen>>

\* The whole directory is read; a failure of the disk or of the allocation, and a name that
\* is not in it, fail the open.
readDirectory(t, clusters) ==
    /\ fatTask[t].pc = "read"
    /\ LET c == fatTask[t].entry.cluster
           size == countClusterByFAT(c) * ClusterSize
           dir == readByFAT(c, 0, size, clusters).units
       IN  \E name \in toFATFileName(Head(fatTask[t].path)) :
           LET found == IF Len(dir) = size THEN searchDirectory(dir, name) ELSE EmptyEntry
           IN  fatTask' = [fatTask EXCEPT ![t].pc = "leave", ![t].ok = found # EmptyEntry,
                                          ![t].output = <<found>>]
    /\ fatFile' = releaseReaderWriterLock(fatFile, TaskKey(t))
    /\ UNCHANGED <<partition, nextLetter, fatOpen>>

\* The end of nextLevelDirectory, on success and on failure.
leaveDirectory(t) ==
    /\ fatTask[t].pc = "leave"
    /\ fatFile' = addFATFileReference(TaskKey(t))
    /\ IF fatTask[t].ok
       THEN /\ fatTask' = [fatTask EXCEPT ![t].pc = "walk", ![t].path = Tail(@), ![t].output = <<>>,
                                          ![t].entry = Head(fatTask[t].output)]
            /\ UNCHANGED fatOpen
       ELSE FailOpen(t)
    /\ UNCHANGED <<partition, nextLetter>>

\* createOpenedFATFile and completeOpenFile; it fails when there is no memory.
createOpenedFATFile(t, ok) ==
    /\ fatTask[t].pc = "create"
    /\ \/ /\ ok
          /\ fatFile' = searchCreateFATFile(TaskKey(t))
          /\ fatOpen' = [fatOpen EXCEPT ![fatTask[t].handle].state = "opened",
                                        ![fatTask[t].handle].entry = fatTask[t].entry]
          /\ fatTask' = [fatTask EXCEPT ![t] = NoFATTask]
       \/ ~ok /\ FailOpen(t) /\ UNCHANGED fatFile
    /\ UNCHANGED <<partition, nextLetter>>

----------------------------------------------------------------------------
\* seekReadFAT, readFAT and their task

Reading(h) == {t \in FATTask : fatTask[t].handle = h}

\* The 32 low bits of the offset go to the task.
CreateReadTask(h, t, offset, size, updateOffset) ==
    /\ fatOpen[h].state = "opened" /\ fatTask[t].pc = "none"
    /\ fatTask' = [fatTask EXCEPT ![t].pc = "lock", ![t].handle = h,
                                  ![t].entry = fatOpen[h].entry, ![t].updateOffset = updateOffset,
                                  ![t].offset = offset % OffsetRange, ![t].size = size]
    /\ UNCHANGED <<partition, nextLetter, fatFile, fatOpen>>

\* Only a file that was not opened for enumeration has a function seekRead.
seekReadFAT(h, t, offset, size) ==
    ~fatOpen[h].enumeration /\ CreateReadTask(h, t, offset, size, FALSE)

\* The offset is fetched now, and advanced when the read is complete.
readFAT(h, t, size) == CreateReadTask(h, t, fatOpen[h].offset, size, TRUE)

lockFATFile(t) ==
    /\ fatTask[t].pc = "lock"
    /\ fatFile' = acquireReaderLock(TaskKey(t))
    /\ fatTask' = [fatTask EXCEPT ![t].pc = "transfer"]
    /\ UNCHANGED <<partition, nextLetter, fatOpen>>

\* The loop of rwFATTask for a directory: the next entry in use, if there is one, and the
\* offset behind what was looked at.
RECURSIVE nextDirEntry(_, _, _)
nextDirEntry(c, offset, clusters) ==
    LET entry == readByFAT(c, offset, 1, clusters)
    IN  IF entry.units = <<>> THEN [output |-> <<>>, next |-> offset, failed |-> entry.failed]
        ELSE IF entry.units[1] = EndEntry
             THEN [output |-> <<>>, next |-> offset, failed |-> FALSE]
        ELSE IF entry.units[1] = EmptyEntry THEN nextDirEntry(c, offset + 1, clusters)
        ELSE [output |-> entry.units, next |-> offset + 1, failed |-> FALSE]

\* The size is limited by what the file has after the offset, computed in 32 bits.
readFileSize(f, offset, size) ==
    LET left == (f.entry.size - offset) % OffsetRange IN IF size < left THEN size ELSE left

\* rwFATTask, with the lock.  A FileEnumeration is one unit.
rwFATTask(t, clusters) ==
    /\ fatTask[t].pc = "transfer"
    /\ LET task == fatTask[t]
           f == fatOpen[task.handle]
           read == readByFAT(task.entry.cluster, task.offset, readFileSize(f, task.offset, task.size), clusters)
           result ==
             IF ~f.enumeration
             THEN [output |-> read.units, next |-> task.offset + Len(read.units), failed |-> read.failed]
             ELSE IF task.size = 0 THEN [output |-> <<>>, next |-> task.offset, failed |-> FALSE]
             ELSE nextDirEntry(task.entry.cluster, task.offset, clusters)
       IN  fatTask' = [fatTask EXCEPT ![t].pc = "complete", ![t].output = result.output,
                                      ![t].next = result.next, ![t].failed = result.failed]
    /\ fatFile' = releaseReaderWriterLock(fatFile, TaskKey(t))
    /\ UNCHANGED <<partition, nextLetter, fatOpen>>

\* completeRWFileIO: a read without an offset of its own advances that of the file, whatever
\* happened to it since the read fetched it.
completeFATRead(t) ==
    /\ fatTask[t].pc = "complete"
    /\ fatOpen' = [fatOpen EXCEPT ![fatTask[t].handle].offset =
                      @ + IF fatTask[t].updateOffset THEN fatTask[t].next - fatTask[t].offset ELSE 0]
    /\ fatTask' = [fatTask EXCEPT ![t] = NoFATTask]
    /\ UNCHANGED <<partition, nextLetter, fatFile>>

\* closeFAT, which the file layer calls when the file has no request: see module FileIO.
closeFAT(h) ==
    /\ fatOpen[h].state = "opened" /\ Reading(h) = {}
    /\ fatFile' = addFATFileReference(KeyOf(fatOpen[h].letter, fatOpen[h].entry))
    /\ fatOpen' = [fatOpen EXCEPT ![h] = NotOpened]
    /\ UNCHANGED <<partition, nextLetter, fatTask>>

----------------------------------------------------------------------------
\* Properties

Entry == [name : STRING, attribute : {"empty", "end", "file", "directory", "volume"},
          cluster : Nat, size : Nat]

FATTypeOK ==
    /\ partition \subseteq Letter /\ nextLetter \in 1..Letters + 1
    /\ fatFile \in [Key -> [references : Nat, readers : Nat]]
    /\ \A h \in FATHandle :
        /\ fatOpen[h].state \in {"none", "opening", "opened"} /\ fatOpen[h].letter \in Letter
        /\ fatOpen[h].enumeration \in BOOLEAN /\ fatOpen[h].offset \in Nat
        /\ fatOpen[h].entry \in Entry
    /\ \A t \in FATTask :
        /\ fatTask[t].pc \in FATStep /\ fatTask[t].handle \in FATHandle \cup {NoFAT}
        /\ fatTask[t].entry \in Entry /\ fatTask[t].offset \in 0..OffsetRange - 1

\* The users of a FATFile: files that are open and directories that are searched.
UsersOf(k) ==
    Cardinality({h \in FATHandle : fatOpen[h].state = "opened"
                                   /\ KeyOf(fatOpen[h].letter, fatOpen[h].entry) = k})
    + Cardinality({t \in FATTask : fatTask[t].pc \in {"search", "read", "leave"} /\ TaskKey(t) = k})

\* A FATFile is in the list as long as an opened file or a walk down a path refers to it,
\* and no longer; in particular the lock that a task of rwFATTask or nextLevelDirectory
\* holds, or is about to acquire, is not deleted by the close or the failed open of another
\* user of the same file or directory.
FATFilesReferenced ==
    /\ FATTypeOK
    /\ \A k \in Key :
           /\ fatFile[k].references = UsersOf(k)
           /\ fatFile[k].readers =
                Cardinality({t \in FATTask : fatTask[t].pc \in {"read", "transfer"} /\ TaskKey(t) = k})
           /\ (\E t \in FATTask : fatTask[t].pc \in {"search", "read", "lock", "transfer"} /\ TaskKey(t) = k)
              => fatFile[k].references > 0

Expected(s, from, to) == SubSeq(s, from + 1, IF to < Len(s) THEN to ELSE Len(s))

\* What rwFATTask returns is what the file holds from the offset on, up to the size
\* of the file, for every offset and size in and across clusters; or the next entry in use
\* of a directory.  A disk that fails makes the result shorter, never different.  An offset
\* behind the end of the file is left out, see line 581.
FATReadsFile ==
    \A t \in FATTask :
        fatTask[t].pc = "complete" =>
            LET task == fatTask[t]
                f == fatOpen[task.handle]
                whole == Contents[task.entry.cluster]
                file == IF f.enumeration THEN whole ELSE Expected(whole, 0, task.entry.size)
                expected == Expected(file, task.offset, task.offset + task.size)
            IN  IF f.enumeration
                THEN \/ task.output = <<>> /\ (task.failed \/ task.size = 0
                                               \/ \A p \in task.offset + 1..Len(file) : file[p] = EmptyEntry)
                     \/ /\ task.next \in task.offset + 1..Len(file)
                        /\ task.output = <<file[task.next]>> /\ file[task.next] # EmptyEntry
                        /\ \A p \in task.offset + 1..task.next - 1 : file[p] = EmptyEntry
                ELSE task.offset <= task.entry.size =>
                     /\ Len(task.output) <= Len(expected)
                     /\ task.output = SubSeq(expected, 1, Len(task.output))
                     /\ ~task.failed => task.output = expected
=============================================================================
