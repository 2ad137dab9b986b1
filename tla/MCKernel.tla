------------------------------- MODULE MCKernel -------------------------------
(***************************************************************************)
(* Kernel services for TLC.  An initial choice says which part runs: two   *)
(* CPUs that share the kernel's or a process's address space, the slab     *)
(* allocator above it, the program loader, the text display, or the        *)
(* console with two readers, where only blanks are typed so that what is   *)
(* displayed stays small.                                                  *)
(***************************************************************************)
EXTENDS Memory, Slab, ELFLoader, ConsoleRefinement, TLC

CONSTANTS c1, c2, s1, s2, s3

VARIABLE running   \* the part that this behaviour is about
vars == <<running, memVars, slabVars, elfVars, displayVars, consoleVars>>

MCCapacity == <<2, 3>>
MCSymmetry == Permutations(CPU)
MCTexts == {<<"a">>, <<Blank>>, <<NewLine>>, <<"a", NewLine, "a">>}

\* Segments in one page and across pages, with and without bytes that are not in the file,
\* empty ones, one aligned to two pages, headers that are refused at each check of the
\* loader, one that wraps around the address space and one above HEAP_END.
Segment(load, address, memorySize, fileSize, align) ==
    [load |-> load, address |-> address, memorySize |-> memorySize,
     fileSize |-> fileSize, align |-> align]
MCHeaders ==
    {Segment(TRUE, a, 3, f, 2) : a \in {2, 3, 8}, f \in {1, 3}} \cup
    {Segment(FALSE, 2, 0, 0, a) : a \in {0, 1}} \cup
    {Segment(TRUE, 2, 0, 0, 2), Segment(TRUE, 7, 3, 0, 4), Segment(TRUE, 2, 1, 3, 2),
     Segment(TRUE, 2, 1, 1, 3), Segment(TRUE, 2, 1, 1, 0), Segment(TRUE, 15, 3, 1, 2),
     Segment(TRUE, 12, 2, 1, 2)}

Init ==
    /\ running \in {"memory", "sharing", "slab", "loader", "display", "console"}
    /\ MemInit /\ createSlabManager /\ LoaderInit /\ initConsoleCommandLine
    /\ running \notin {"memory", "sharing"} => ~global
    /\ running = "sharing" => global
    /\ maxBlockCount = IF running = "sharing" THEN MaxLinear ELSE MaxLinear - 1
    /\ reserved = IF running = "memory" /\ global THEN {0, 1} ELSE {0}
    /\ running # "slab" => slab[s1] # Unused /\ slab[s1].size = 1
    /\ running # "loader" => elf.ph[1] = elf.ph[2] /\ elf.ph[1].address = 12

Memory == running \in {"memory", "sharing"} /\ UNCHANGED <<running, slabVars, elfVars, displayVars, consoleVars>>

\* Only a request for existing pages has a source.  With four linear blocks, pages are
\* shared two by two, and no translation is loaded.
Request(op, n, src) ==
    /\ src > 0 => op = "existing"
    /\ running = "sharing" => n = 2 /\ op # "contiguous"

Slabs == running = "slab" /\ UNCHANGED <<running, memVars, elfVars, displayVars, consoleVars>>
Loader == running = "loader" /\ UNCHANGED <<running, memVars, slabVars, displayVars, consoleVars>>
Screen == UNCHANGED <<running, memVars, slabVars, elfVars>>
Display == running = "display" /\ UNCHANGED consoleVars /\ Screen
Consoles == running = "console" /\ ~null /\ Screen

\* States after which a part says nothing any more.
Stopped == null \/ LoaderEnded

Next ==
    \/ Memory /\ \E c \in CPU, n \in Sizes, src \in Linear :
         \E op \in BeginOps(n) : Request(op, n, src) /\ allocateLinearBlock(c, op, n, src)
    \/ Memory /\ \E c \in CPU, n \in Sizes, src \in Linear :
         \E op \in BeginOps(n) : Request(op, n, src) /\ extendAndAllocate(c, op, n, src)
    \/ Memory /\ \E c \in CPU : commitAllocatingLinearBlock(c)
    \/ Memory /\ \E c \in CPU : releaseLinearBlock(c)
    \/ Memory /\ \E c \in CPU, l \in Linear : checkAndReleaseLinearBlock(c, l)
    \/ Memory /\ \E c \in CPU, l \in Linear : unmapPages(c, l)
    \/ Memory /\ \E c \in CPU : allocatePage(c)
    \/ Memory /\ \E c \in CPU : allocateContiguousPages(c)
    \/ Memory /\ \E c \in CPU : noPhysicalBlock(c)
    \/ Memory /\ \E c \in CPU : checkAndReservePage(c)
    \/ Memory /\ \E c \in CPU : map1Page_LP(c)
    \/ Memory /\ \E c \in CPU : releaseReservedPage(c)
    \/ Memory /\ \E c \in CPU : setPage(c)
    \/ Memory /\ \E c \in CPU : setPageFails(c)
    \/ Memory /\ \E c \in CPU : invalidatePage(c)
    \/ Memory /\ \E c \in CPU : sendINVLPG(c)
    \/ Memory /\ \E c \in CPU : invlpgHandler(c)
    \/ Memory /\ \E c \in CPU : addAndWaitAtBarrier(c)
    \/ Memory /\ \E c \in CPU : releaseInvalidatedPage(c)
    \/ Memory /\ running = "memory" /\ \E c \in CPU, l \in Linear : loadTLB(c, l)
    \/ Memory /\ \E c \in CPU : switchCR3(c)
    \/ Memory /\ \E c \in CPU : endTask(c)
    \/ Memory /\ \E c \in CPU : releaseAllLinearBlocks(c)
    \/ Memory /\ \E c \in CPU : invalidatePageTable(c)
    \/ Slabs /\ \E i \in SlabUnit : allocateSlab(i)
    \/ Slabs /\ \E i \in SlabUnit : allocateNewSlab(i)
    \/ Slabs /\ allocateLargeSlab
    \/ Slabs /\ \E e \in lent : releaseSlab(e[1], e[2])
    \/ Slabs /\ \E g \in SlabPage : releaseSlabPages(g)
    \/ \E ok \in BOOLEAN : Loader /\ createTaskAndMemorySpace(ok)
    \/ \E ok \in BOOLEAN : Loader /\ syncOpenFileN(ok)
    \/ \E ok \in BOOLEAN : Loader /\ checkELFHeader32(ok)
    \/ \E ok \in BOOLEAN : Loader /\ allocateProgramHeader32(ok)
    \/ \E ok \in BOOLEAN : Loader /\ readProgramHeader32(ok)
    \/ \E ok \in BOOLEAN : Loader /\ initUserLinearBlockManager(ok)
    \/ \E ok \in BOOLEAN : Loader /\ mapAllocateProgramHeader32(ok)
    \/ \E ok \in BOOLEAN : Loader /\ setAllocateProgramHeader32(ok)
    \/ \E ok \in BOOLEAN : Loader /\ syncCloseFile(ok)
    \/ \E ok \in BOOLEAN : Loader /\ switchToUserMode(ok)
    \/ Loader /\ checkAllocateProgramHeader32
    \/ Loader /\ deleteProgramHeader32
    \/ Loader /\ terminateCurrentTask
    \/ \E s \in Texts : Display /\ printString(s)
    \/ Display /\ printkBackspace
    \/ Consoles /\ printHandler(Blank)
    \/ Consoles /\ backspaceHandler
    \/ Consoles /\ enterHandler
    \/ Consoles /\ countListeners
    \/ \E created \in BOOLEAN : Consoles /\ parseCommand(<<Blank>>, created)
    \/ Consoles /\ sendLine
    \/ \E a \in Actor : Consoles /\ takeRequest(a)
    \/ \E a \in Actor : Consoles /\ readLineFIFO(a)
    \/ \E a \in Actor : Consoles /\ returnRequest(a)
    \/ \E u \in ConsoleUser : Consoles /\ openConsole(u)
    \/ \E u \in ConsoleUser, n \in BufferSizes : Consoles /\ readConsole(u, n)
    \/ \E u \in ConsoleUser : Consoles /\ writeConsole(u, <<Blank>>)
    \/ \E u \in ConsoleUser : Consoles /\ closeConsole(u)
    \/ \E u \in ConsoleUser : Consoles /\ flushLineFIFO(u)
    \/ Stopped /\ UNCHANGED vars

Spec == Init /\ [][Next]_vars

=============================================================================
