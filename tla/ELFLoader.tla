------------------------------ MODULE ELFLoader ------------------------------
(***************************************************************************)
(* A program is started from a file (createUserTaskFromELF and elfLoader   *)
(* of kernel/task/elfloader.c, createTaskAndMemorySpace and                *)
(* initUserLinearBlockManager of kernel/task/taskmanager.c).  The new task *)
(* loads its own address space: every page between the first and the last  *)
(* segment is taken, then mapped or given back one after the other, and    *)
(* the segments are read.  Each allocation and each request can fail.      *)
(***************************************************************************)
EXTENDS Integers, Sequences

CONSTANTS PageSize,
          AddressRange,    \* 2^32
          HeapEnd,         \* HEAP_END
          ProgramHeader,   \* ProgramHeader32: load (segmentType 1), address, memorySize,
                           \* fileSize, align
          HeaderCount      \* programHeaderLength

FLOOR(a, b) == (a \div b) * b
CEIL(a, b) == FLOOR((a + b - 1) % AddressRange, b)
phBegin(h) == FLOOR(h.address, h.align)
phEnd(h) == CEIL((h.address + h.memorySize) % AddressRange, h.align)

\* The fields of a header are 32 bits wide.  A segment is shorter than half of the address
\* space, and one that begins below HEAP_END ends there at the latest: only the former is
\* compared with HEAP_END.
ASSUME HeaderAssumption ==
    /\ PageSize \in Nat \ {0} /\ AddressRange \in Nat \ {0} /\ HeaderCount \in Nat
    /\ ProgramHeader \subseteq [load : BOOLEAN, address : 0..AddressRange - 1, memorySize : Nat,
                                fileSize : Nat, align : Nat]
    /\ \A h \in ProgramHeader :
        /\ h.memorySize + h.align < AddressRange \div 2
        /\ h.load /\ h.align > 0 /\ h.address < HeapEnd => phEnd(h) <= HeapEnd

VARIABLES elf,      \* the loader: its place, the program headers, the next page or header
                    \* of its loops, the program's range, whether the file is open
          held,     \* what has been allocated for the task and by the loader
          using,    \* pages of the range that the linear block manager has given out
          memory    \* bytes of the mapped pages

elfVars == <<elf, held, using, memory>>

BytesOf(page) == page..page + PageSize - 1

LoaderInit ==
    /\ elf \in [pc : {"param"}, ph : [1..HeaderCount -> ProgramHeader], i : {0},
                begin : {AddressRange - 1}, end : {0}, ok : {TRUE}, open : {FALSE}]
    /\ held = {} /\ using = {} /\ memory = <<>>

LoaderAt(pc) == elf.pc = pc
LoaderGoto(pc) == elf' = [elf EXCEPT !.pc = pc]

-----------------------------------------------------------------------------
(* createUserTaskFromELF: the parameter, then what the task consists of *)

Creates == <<"param", "pageTable", "taskMemory", "openFiles", "task">>
Following(pc) == Creates[CHOOSE k \in 2..5 : Creates[k - 1] = pc]

\* The error path of the last step begins with an assertion that the open file manager,
\* which exists, is NULL.
createTaskAndMemorySpace(ok) ==
    /\ \E k \in 1..5 : LoaderAt(Creates[k])
    /\ IF ok /\ LoaderAt("task")
       THEN held' = held \ {"param"} /\ LoaderGoto("open")
       ELSE IF ok THEN held' = held \cup {elf.pc} /\ LoaderGoto(Following(elf.pc))
       ELSE IF LoaderAt("task") THEN LoaderGoto("assertion") /\ UNCHANGED held
       ELSE held' = {} /\ LoaderGoto("none")
    /\ UNCHANGED <<using, memory>>

-----------------------------------------------------------------------------
(* elfLoader *)

syncOpenFileN(ok) ==
    /\ LoaderAt("open")
    /\ elf' = [elf EXCEPT !.open = ok, !.pc = IF ok THEN "header" ELSE "terminate"]
    /\ UNCHANGED <<held, using, memory>>

\* ok: the header is read completely and is that of an executable.
checkELFHeader32(ok) ==
    /\ LoaderAt("header")
    /\ LoaderGoto(IF ok THEN "allocate" ELSE "fail")
    /\ UNCHANGED <<held, using, memory>>

\* From here on, loadProgramHeader32 ends with the release of the headers.
Fails == [elf EXCEPT !.pc = "delete", !.ok = FALSE]

allocateProgramHeader32(ok) ==
    /\ LoaderAt("allocate")
    /\ held' = IF ok THEN held \cup {"headers"} ELSE held
    /\ LoaderGoto(IF ok THEN "read" ELSE "fail")
    /\ UNCHANGED <<using, memory>>

readProgramHeader32(ok) ==
    /\ LoaderAt("read")
    /\ elf' = IF ok THEN [elf EXCEPT !.pc = "check"] ELSE Fails
    /\ UNCHANGED <<held, using, memory>>

Loaded(n) == {k \in 1..n : elf.ph[k].load}

Accepted(h) == h.align % PageSize = 0 /\ h.memorySize >= h.fileSize /\ phBegin(h) <= phEnd(h)
Disjoint(g, h) == phEnd(g) <= phBegin(h) \/ phBegin(g) >= phEnd(h)

\* A broken version for the mutation test: segments may overlap.
CheckEach(k) == Accepted(elf.ph[k])

CheckHeader(k) ==
    Accepted(elf.ph[k]) /\ \A j \in Loaded(k - 1) : Disjoint(elf.ph[j], elf.ph[k])

\* The range is computed, with a division by align, before the header is looked at.
Divides(k) == elf.ph[k].align # 0

checkAllocateProgramHeader32 ==
    /\ LoaderAt("check")
    /\ elf' =
        IF elf.i = HeaderCount
        THEN IF elf.begin < elf.end THEN [elf EXCEPT !.pc = "manager", !.i = elf.begin] ELSE Fails
        ELSE \* the next header
             LET k == elf.i + 1
                 h == elf.ph[k]
             IN  CASE ~Divides(k) -> [elf EXCEPT !.pc = "divideError"]
                   [] Divides(k) /\ ~h.load -> [elf EXCEPT !.i = k]
                   [] Divides(k) /\ h.load /\ ~CheckHeader(k) -> Fails
                   [] OTHER -> [elf EXCEPT
                         !.i = k,
                         !.begin = IF phBegin(h) < @ THEN phBegin(h) ELSE @,
                         !.end = IF phEnd(h) > @ THEN phEnd(h) ELSE @]
    /\ UNCHANGED <<held, using, memory>>

\* The pages of the program are given out at once; ok: the manager's own pages are mapped.
initUserLinearBlockManager(ok) ==
    /\ LoaderAt("manager")
    /\ IF ok /\ elf.begin < HeapEnd
       THEN /\ held' = held \cup {"linear"}
            /\ using' = {a \in elf.begin..elf.end - 1 : a % PageSize = 0}
            /\ LoaderGoto("map")
       ELSE elf' = Fails /\ UNCHANGED <<held, using>>
    /\ UNCHANGED memory

Garbage == "garbage"   \* what a page holds when it is mapped

\* One page: it is mapped if it belongs to a segment and no page failed before, otherwise
\* it is given back.
mapAllocateProgramHeader32(ok) ==
    /\ LoaderAt("map")
    /\ IF elf.i >= elf.end
       THEN /\ elf' = IF elf.ok THEN [elf EXCEPT !.pc = "set", !.i = 0] ELSE Fails
            /\ UNCHANGED <<using, memory>>
       ELSE LET inRange == \E k \in Loaded(HeaderCount) :
                               elf.i \in phBegin(elf.ph[k])..phEnd(elf.ph[k]) - 1
                maps == elf.ok /\ inRange
            IN  /\ elf' = [elf EXCEPT !.i = @ + PageSize, !.ok = @ /\ (maps => ok)]
                /\ IF maps /\ ok
                   THEN memory' = [a \in DOMAIN memory \cup BytesOf(elf.i) |->
                                      IF a \in DOMAIN memory THEN memory[a] ELSE Garbage]
                        /\ UNCHANGED using
                   ELSE using' = using \ {elf.i} /\ UNCHANGED memory
    /\ UNCHANGED held

\* Byte n of the part of the file that segment k describes.
FileByte(k, n) == <<k, n>>
Zero == "zero"

\* One segment; ok: all of it is read.
setAllocateProgramHeader32(ok) ==
    /\ LoaderAt("set")
    /\ LET k == elf.i + 1
           h == elf.ph[k]
       IN  IF elf.i = HeaderCount THEN LoaderGoto("delete") /\ UNCHANGED memory
           ELSE IF ~h.load THEN elf' = [elf EXCEPT !.i = k] /\ UNCHANGED memory
           ELSE IF ~ok THEN elf' = Fails /\ UNCHANGED memory
           ELSE /\ elf' = [elf EXCEPT !.i = k]
                /\ memory' = [a \in DOMAIN memory |->
                       CASE a \in h.address..h.address + h.fileSize - 1 -> FileByte(k, a - h.address)
                         [] a \in h.address + h.fileSize..h.address + h.memorySize - 1 -> Zero
                         [] OTHER -> memory[a]]
    /\ UNCHANGED <<held, using>>

deleteProgramHeader32 ==
    /\ LoaderAt("delete")
    /\ held' = held \ {"headers"}
    /\ LoaderGoto(IF elf.ok THEN "close" ELSE "fail")
    /\ UNCHANGED <<using, memory>>

\* A file that cannot be closed is forgotten, whether or not the program is loaded.
syncCloseFile(ok) ==
    /\ elf.pc \in {"close", "fail"}
    /\ elf' = [elf EXCEPT !.open = ~ok, !.pc = IF @ = "close" THEN "switch" ELSE "terminate"]
    /\ UNCHANGED <<held, using, memory>>

\* ok: the stack of the program is allocated.
switchToUserMode(ok) ==
    /\ LoaderAt("switch")
    /\ LoaderGoto(IF ok THEN "user" ELSE "terminate")
    /\ UNCHANGED <<held, using, memory>>

\* Files are closed, the pages that are given out unmapped and the task's parts deleted.
terminateCurrentTask ==
    /\ elf.pc \in {"user", "terminate"}
    /\ elf' = [elf EXCEPT !.pc = "exited", !.open = FALSE]
    /\ held' = held \ {"openFiles", "linear", "pageTable", "taskMemory"}
    /\ memory' = [a \in {b \in DOMAIN memory : FLOOR(b, PageSize) \notin using} |-> memory[a]]
    /\ using' = {}

LoaderNext ==
    \/ \E ok \in BOOLEAN :
          \/ createTaskAndMemorySpace(ok)
          \/ syncOpenFileN(ok) \/ checkELFHeader32(ok)
          \/ allocateProgramHeader32(ok) \/ readProgramHeader32(ok)
          \/ initUserLinearBlockManager(ok)
          \/ mapAllocateProgramHeader32(ok) \/ setAllocateProgramHeader32(ok)
          \/ syncCloseFile(ok) \/ switchToUserMode(ok)
    \/ checkAllocateProgramHeader32 \/ deleteProgramHeader32 \/ terminateCurrentTask

LoaderSpec == LoaderInit /\ [][LoaderNext]_elfVars

LoaderEnded == elf.pc \in {"none", "assertion", "divideError", "exited"}

-----------------------------------------------------------------------------
\* A program runs only with its whole image: every byte of every segment of the file is
\* what setAllocateProgramHeader32 read or cleared for that segment.  When the task ends,
\* the loader having failed at any point, the pages given out by the linear block manager
\* are exactly the mapped ones, so that exiting unmaps all of them and no other, and
\* afterwards nothing is left of the task, its file and the loader's own memory.
ProgramLoadedOrGone ==
    /\ LoaderAt("user") =>
         \A k \in Loaded(HeaderCount) : \A n \in 0..elf.ph[k].memorySize - 1 :
            /\ elf.ph[k].address + n \in DOMAIN memory
            /\ memory[elf.ph[k].address + n] = IF n < elf.ph[k].fileSize THEN FileByte(k, n) ELSE Zero
    /\ elf.pc \in {"user", "terminate"} => DOMAIN memory = UNION {BytesOf(p) : p \in using}
    /\ elf.pc \in {"none", "exited"} => held = {} /\ memory = <<>> /\ ~elf.open
=============================================================================
