-------------------------------- MODULE Memory --------------------------------
(***************************************************************************)
(* Linear memory, physical memory, page tables and the TLBs                *)
(* (kernel/memory/linearblock.c, physicalblock.c, page.c, memorymanager.c).*)
(* Every CPU runs one task of an address space whose LinearMemoryManager   *)
(* is shared: the kernel's (global) or a user process's.  A step is one    *)
(* section under the lock of the linear blocks, of the physical blocks, of *)
(* a page directory or of sendINVLPG.  A CPU may load any present          *)
(* translation into its TLB at any moment.                                 *)
(***************************************************************************)
EXTENDS Buddy

CONSTANTS CPU,
          MaxLinear,      \* bound on maxBlockCount of the linear blocks
          InitialLinear,  \* initialBlockCount
          PerPage,        \* LinearMemoryBlocks in one page of the block array
          MaxPhysical,    \* blocks of the physical block array
          Layouts,        \* memory layouts: the physical blocks that no region reports as usable
          Sizes           \* sizes of a request; no size leaves a part of its block unmapped

ASSUME MemoryAssumption ==
    /\ InitialLinear \in 1..MaxLinear /\ PerPage \in 1..MaxLinear
    /\ MaxLinear <= InitialLinear + PerPage   \* an extension needs at most one page
    /\ Layouts \subseteq SUBSET (0..MaxPhysical - 1)
    /\ Sizes \subseteq {2^o : o \in Order}

Linear == 0..MaxLinear - 1
Physical == 0..MaxPhysical - 1

VARIABLES global,       \* the manager is kernelLinear
          maxBlockCount, \* of the linear block manager
          reserved,     \* the layout of this machine
          phys, ref,    \* PhysicalMemoryBlockManager and its referenceCounts
          lin, status, mappedSize, buffer, \* LinearMemoryBlockManager; a block mapped by a kernel buffer
          pte,          \* PTE of every linear page, with its present bit
          tables,       \* physical pages of the page table and of the extended block array
          pde,          \* the PDE of the linear pages is present
          tlb, cr3,     \* translations a CPU has loaded; its task belongs to the address space
          args,         \* INVLPGArguments, the lock of sendINVLPG and the undelivered interrupts
          th            \* the task of every CPU
memVars == <<global, maxBlockCount, reserved, phys, ref, lin, status, mappedSize, buffer, pte, tables, pde, tlb, cr3, args, th>>

NoPage == [p |-> NoBlock, present |-> FALSE]
Task == [pc |-> "run", op |-> "none", b |-> 0, n |-> 0, i |-> 0, src |-> 0, p |-> NoBlock]
NoArgs == [lock |-> "none", from |-> 0, size |-> 0, pending |-> {}, count |-> 0]

RECURSIVE releaseEach(_, _)
releaseEach(m, bs) ==
    IF bs = {} THEN m ELSE LET b == CHOOSE x \in bs : \A y \in bs : x <= y
                           IN  releaseEach(releaseBlock(m, b), bs \ {b})

createPhysicalMemoryBlockManager == resetBlockArray(MaxPhysical, MaxPhysical)

\* Every block has a reference until a usable region releases it.
initKernelPhysicalBlock == releaseEach(createPhysicalMemoryBlockManager, Physical \ reserved)

\* initKernelLinearBlock, and the manager of a new process: every block is released.
createLinearBlockManager == releaseEach(resetBlockArray(MaxLinear, InitialLinear), 0..InitialLinear - 1)

MemInit ==
    /\ global \in BOOLEAN /\ reserved \in Layouts /\ maxBlockCount \in InitialLinear..MaxLinear
    /\ phys = initKernelPhysicalBlock
    /\ ref = [p \in Physical |-> IF p \in reserved THEN 1 ELSE 0]
    /\ lin = createLinearBlockManager
    /\ status = [l \in Linear |-> "free"] /\ mappedSize = [l \in Linear |-> 0]
    /\ buffer = [l \in Linear |-> FALSE] /\ pte = [l \in Linear |-> NoPage]
    /\ tables = {} /\ pde = global
    /\ tlb = [c \in CPU |-> {}] /\ cr3 = [c \in CPU |-> TRUE]
    /\ args = NoArgs
    /\ th = [c \in CPU |-> Task]

\* The task of c runs and is at pc.
At(c, pc) == cr3[c] /\ th[c].pc = pc
Goto(c, pc) == th' = [th EXCEPT ![c].pc = pc]
Fixed == <<global, maxBlockCount, reserved>>
LinearVars == <<lin, status, mappedSize, buffer>>
TLBVars == <<Fixed, tlb, cr3, args>>

----------------------------------------------------------------------------
(* Physical blocks *)

allocatePhysicalBlock(b, n) ==
    /\ phys' = allocateBlock(phys, b, n, 1)
    /\ ref' = [p \in Physical |-> IF p \in b..b + n - 1 THEN 1 ELSE ref[p]]

\* A reference lost, a block released while another mapping needs it.
ReleaseAtOnce(bs) ==
    /\ ref' = [p \in Physical |-> IF p \in bs THEN 0 ELSE ref[p]]
    /\ phys' = releaseEach(phys, bs)

\* The last reference releases the block.
releasePhysicalBlock(bs) ==
    /\ ref' = [p \in Physical |-> IF p \in bs THEN ref[p] - 1 ELSE ref[p]]
    /\ phys' = releaseEach(phys, {p \in bs : ref[p] = 1})

addPhysicalBlockReference(p) == ref' = [ref EXCEPT ![p] = @ + 1] /\ UNCHANGED phys

----------------------------------------------------------------------------
(* Linear blocks *)

\* 0 if the array cannot grow far enough.
getExtendBlockCount(size) ==
    LET add == 2^ceilAllocateOrder(size)
        new == add + ((lin.blockCount + add - 1) \div add) * add
    IN  IF new > maxBlockCount THEN 0 ELSE new - lin.blockCount

\* The pages of the block array that count blocks occupy.
ArrayPages(count) == (count + PerPage - 1) \div PerPage

\* extendLinearBlock_noLock for as many of ex blocks as there is memory for the array.
\* The pages are allocated one by one in the course of it.
extendLinearBlock(ex) ==
    LET old == lin.blockCount
        free == UNION {Cover(phys, b) : b \in UNION {phys.freeBlock[o] : o \in Order}}
        fits == {k \in 0..ex : ArrayPages(old + k) - ArrayPages(old) <= Cardinality(free)}
        added == CHOOSE k \in fits : \A j \in fits : j <= k
    IN  [added |-> added,
         pages |-> ArrayPages(old + added) - ArrayPages(old),
         lin |-> releaseEach([lin EXCEPT !.blockCount = old + added], old..old + added - 1)]

\* allocateLinearBlock: at once, or after the block array has been extended by ext (with
\* physical page p for its new part, NoBlock if it needs none).
lockBlock(c, op, m, n, b, src) ==
    /\ lin' = allocateBlock(m, b, n, n)
    /\ status' = [status EXCEPT ![b] = "locked"]
    /\ mappedSize' = [mappedSize EXCEPT ![b] = n]
    /\ th' = [th EXCEPT ![c] = [Task EXCEPT !.op = op, !.pc = "physical", !.b = b, !.n = n, !.src = src]]

\* allocatePages, allocateContiguousPages (the same for one page), and, for buffers in the
\* kernel, checkAndMapExistingPages of n pages from src on.
BeginOps(n) ==
    {"pages"} \cup (IF n > 1 THEN {"contiguous"} ELSE {}) \cup (IF global THEN {"existing"} ELSE {})

allocateLinearBlock(c, op, n, src) ==
    /\ At(c, "run") /\ op \in BeginOps(n)
    /\ \E b \in findFreeBlock(lin, ceilAllocateOrder(n)) : lockBlock(c, op, lin, n, b, src)
    /\ UNCHANGED <<phys, ref, buffer, pte, tables, pde, TLBVars>>

extendAndAllocate(c, op, n, src) ==
    LET ex == getExtendBlockCount(n)
        e == extendLinearBlock(ex)
    IN  /\ At(c, "run") /\ op \in BeginOps(n)
        /\ findFreeBlock(lin, ceilAllocateOrder(n)) = {} /\ ex > 0
        /\ IF e.pages = 0 THEN UNCHANGED <<phys, ref, tables>>
           ELSE \E p \in findFreeBlock(phys, 0) : allocatePhysicalBlock(p, 1) /\ tables' = tables \cup {p}
        /\ IF e.added < ex
           THEN lin' = e.lin /\ UNCHANGED <<status, mappedSize, th>>
           ELSE \E b \in findFreeBlock(e.lin, ceilAllocateOrder(n)) : lockBlock(c, op, e.lin, n, b, src)
        /\ UNCHANGED <<buffer, pte, pde, TLBVars>>

commitAllocatingLinearBlock(c) ==
    /\ At(c, "commit")
    /\ status' = [status EXCEPT ![th[c].b] = "using"]
    /\ buffer' = [buffer EXCEPT ![th[c].b] = (th[c].op = "existing")]
    /\ th' = [th EXCEPT ![c] = Task]
    /\ UNCHANGED <<phys, ref, lin, mappedSize, pte, tables, pde, TLBVars>>

\* The end of releaseLinearBlock and of checkAndReleaseLinearBlock.
releaseLinearBlock(c) ==
    /\ At(c, "unlock")
    /\ status' = [status EXCEPT ![th[c].b] = "free"]
    /\ buffer' = [buffer EXCEPT ![th[c].b] = FALSE]
    /\ lin' = releaseBlock(lin, th[c].b)
    /\ th' = [th EXCEPT ![c] = IF th[c].op = "exit" THEN [Task EXCEPT !.pc = "all", !.b = th[c].b] ELSE Task]
    /\ UNCHANGED <<phys, ref, mappedSize, pte, tables, pde, TLBVars>>

\* A second release of a block whose first is not over.
AnyUsed(l) == status[l] # "free"

isReleasableBlock(l) == status[l] = "using"

\* isUsingBlock_noLock: l belongs to a block in use, found from one buddy to the one that
\* covers it.
RECURSIVE coveringBlock(_)
coveringBlock(l) ==
    LET buddy == getBuddy(lin, l)
    IN  IF buddy = NoBlock \/ lin.sizeOrder[buddy] <= lin.sizeOrder[l] THEN l ELSE coveringBlock(buddy)

isUsingBlock(l) == status[coveringBlock(l)] = "using"

\* The first half of checkAndReleaseLinearBlock.
startRelease(c, l, op) ==
    /\ status' = [status EXCEPT ![l] = "locked"]
    /\ th' = [th EXCEPT ![c] = [Task EXCEPT !.op = op, !.pc = "invalidate", !.b = l, !.i = mappedSize[l]]]

checkAndReleaseLinearBlock(c, l) ==
    /\ At(c, "run") /\ l < lin.blockCount /\ isReleasableBlock(l) /\ ~buffer[l]
    /\ startRelease(c, l, "release")
    /\ UNCHANGED <<phys, ref, lin, mappedSize, buffer, pte, tables, pde, TLBVars>>

\* unmapPages does not lock the block: the kernel unmaps only its own buffers.
unmapPages(c, l) ==
    /\ At(c, "run") /\ status[l] = "using" /\ buffer[l]
    /\ \A d \in CPU : th[d].pc = "run" \/ th[d].b # l
    /\ th' = [th EXCEPT ![c] = [Task EXCEPT !.op = "unmap", !.pc = "invalidate", !.b = l, !.i = mappedSize[l]]]
    /\ UNCHANGED <<phys, ref, LinearVars, pte, tables, pde, TLBVars>>

----------------------------------------------------------------------------
(* Page tables *)

\* _mapPage_L: a physical block for the next page.
allocatePage(c) ==
    /\ At(c, "physical") /\ th[c].op = "pages"
    /\ \E b \in findFreeBlock(phys, 0) :
         /\ allocatePhysicalBlock(b, 1)
         /\ th' = [th EXCEPT ![c].p = b, ![c].pc = "set"]
    /\ UNCHANGED <<LinearVars, pte, tables, pde, TLBVars>>

\* _mapContiguousPage_L: the blocks of all pages at once.
allocateContiguousPages(c) ==
    LET n == th[c].n
    IN  /\ At(c, "physical") /\ th[c].op = "contiguous"
        /\ \E b \in findFreeBlock(phys, ceilAllocateOrder(n)) :
             /\ allocatePhysicalBlock(b, n)
             /\ th' = [th EXCEPT ![c].p = b, ![c].pc = "set"]
        /\ UNCHANGED <<LinearVars, pte, tables, pde, TLBVars>>

noPhysicalBlock(c) ==
    LET t == th[c]
    IN  /\ At(c, "physical") /\ t.op # "existing"
        /\ findFreeBlock(phys, IF t.op = "contiguous" THEN ceilAllocateOrder(t.n) ELSE 0) = {}
        /\ Goto(c, IF t.i = 0 THEN "unlock" ELSE "invalidate")
        /\ UNCHANGED <<phys, ref, LinearVars, pte, tables, pde, TLBVars>>

\* checkAndReservePage of the next page of the source: the lock of the linear blocks covers
\* the check and the reference.  The source may have been released since the page before;
\* the pages that are mapped already are unmapped then.
\* A source is never itself a buffer: its caller owns it, or it is in a user's manager.
checkAndReservePage(c) ==
    LET t == th[c]
        l == t.src + t.i
        Shareable == l < lin.blockCount /\ isUsingBlock(l) /\ ~buffer[coveringBlock(l)]
    IN  /\ At(c, "physical") /\ t.op = "existing"
        /\ \/ /\ Shareable
              /\ addPhysicalBlockReference(pte[l].p)
              /\ th' = [th EXCEPT ![c].p = pte[l].p, ![c].pc = "map1"]
           \/ /\ ~Shareable
              /\ Goto(c, IF t.i = 0 THEN "unlock" ELSE "invalidate")
              /\ UNCHANGED <<phys, ref>>
        /\ UNCHANGED <<LinearVars, pte, tables, pde, TLBVars>>

\* The reference of the new mapping, in map1Page_LP.
map1Page_LP(c) ==
    /\ At(c, "map1")
    /\ addPhysicalBlockReference(th[c].p)
    /\ Goto(c, "set")
    /\ UNCHANGED <<LinearVars, pte, tables, pde, TLBVars>>

releaseReservedPage(c) ==
    /\ At(c, "unreserve")
    /\ releasePhysicalBlock({th[c].p})
    /\ Goto(c, IF th[c].i = th[c].n THEN "commit" ELSE "physical")
    /\ UNCHANGED <<LinearVars, pte, tables, pde, TLBVars>>

\* Where the mapping goes on after i pages.
Mapped(t, i) == IF t.op = "existing" THEN "unreserve" ELSE IF i = t.n THEN "commit"
                ELSE IF t.op = "contiguous" THEN "set" ELSE "physical"

\* setPage; a missing page table is allocated under the lock of the page directory.
setPage(c) ==
    LET t == th[c]
        page == IF t.op = "contiguous" THEN t.p + t.i ELSE t.p
    IN  /\ At(c, "set")
        /\ IF pde THEN UNCHANGED <<phys, ref, tables>>
           ELSE \E b \in findFreeBlock(phys, 0) : allocatePhysicalBlock(b, 1) /\ tables' = tables \cup {b}
        /\ pde' = TRUE
        /\ pte' = [pte EXCEPT ![t.b + t.i] = [p |-> page, present |-> TRUE]]
        /\ th' = [th EXCEPT ![c].i = @ + 1, ![c].pc = Mapped(t, t.i + 1)]
        /\ UNCHANGED <<LinearVars, TLBVars>>

\* No memory for the page table: the first setPage of the address space, so no page of
\* the block is mapped and what is allocated for the others is released.
setPageFails(c) ==
    LET t == th[c]
    IN  /\ At(c, "set") /\ ~pde /\ findFreeBlock(phys, 0) = {}
        /\ releasePhysicalBlock(IF t.op = "contiguous" THEN t.p + t.i..t.p + t.n - 1 ELSE {t.p})
        /\ Goto(c, IF t.i = 0 THEN "unlock" ELSE "invalidate")
        /\ UNCHANGED <<LinearVars, pte, tables, pde, TLBVars>>

----------------------------------------------------------------------------
(* Unmapping and the TLBs *)

Pages(t) == t.b..t.b + t.i - 1

invalidatePage(c) ==
    /\ At(c, "invalidate")
    /\ pte' = [l \in Linear |-> IF l \in Pages(th[c]) THEN [pte[l] EXCEPT !.present = FALSE] ELSE pte[l]]
    /\ Goto(c, "shoot")
    /\ UNCHANGED <<phys, ref, LinearVars, tables, pde, TLBVars>>

\* invlpgOrSetCR3 on CPU c.
Flush(c, from, size) == tlb' = [tlb EXCEPT ![c] = {e \in @ : e[1] \notin from..from + size - 1}]

\* The barrier is reset while no interrupt is on its way.
resetBarrier == 0

\* sendINVLPG_enabled up to the barrier, with the lock and interrupts off.
sendINVLPG(c) ==
    /\ At(c, "shoot") /\ args.lock = "none"
    /\ args' = [lock |-> c, from |-> th[c].b, size |-> th[c].i, pending |-> CPU \ {c}, count |-> resetBarrier + 1]
    /\ Flush(c, th[c].b, th[c].i)
    /\ Goto(c, "barrier")
    /\ UNCHANGED <<Fixed, phys, ref, LinearVars, pte, tables, pde, cr3>>

\* A handler that compares nothing but the address space of the task.
FlushUser(c) == cr3[c] /\ ~global

\* What invlpgHandler flushes: the interrupted task may belong to another address space.
Affected(c) == global \/ cr3[c]

invlpgHandler(c) ==
    /\ c \in args.pending /\ th[c].pc # "barrier"
    /\ args' = [args EXCEPT !.pending = @ \ {c}, !.count = @ + 1]
    /\ IF Affected(c) THEN Flush(c, args.from, args.size) ELSE UNCHANGED tlb
    /\ UNCHANGED <<Fixed, phys, ref, LinearVars, pte, tables, pde, cr3, th>>

addAndWaitAtBarrier(c) ==
    /\ At(c, "barrier") /\ args.count = Cardinality(CPU)
    /\ args' = [NoArgs EXCEPT !.count = args.count]
    /\ Goto(c, "free")
    /\ UNCHANGED <<Fixed, phys, ref, LinearVars, pte, tables, pde, tlb, cr3>>

\* The last page first; the address left in the PTE is not used again.
releaseInvalidatedPage(c) ==
    LET t == th[c]
        l == t.b + t.i - 1
    IN  /\ At(c, "free")
        /\ releasePhysicalBlock({pte[l].p})
        /\ pte' = [pte EXCEPT ![l] = NoPage]
        /\ th' = [th EXCEPT ![c].i = @ - 1, ![c].pc = IF t.i = 1 THEN "unlock" ELSE "free"]
        /\ UNCHANGED <<LinearVars, tables, pde, TLBVars>>

\* External: the processor walks the page table.
loadTLB(c, l) ==
    /\ pte[l].present /\ (global \/ cr3[c])
    /\ tlb' = [tlb EXCEPT ![c] = @ \cup {<<l, pte[l].p>>}]
    /\ UNCHANGED <<Fixed, phys, ref, LinearVars, pte, tables, pde, cr3, args, th>>

\* setCR3 in a task switch, to another address space and back.
switchCR3(c) ==
    /\ ~global /\ th[c].pc \notin {"barrier", "dead"}
    /\ cr3' = [cr3 EXCEPT ![c] = ~@]
    /\ tlb' = [tlb EXCEPT ![c] = {}]
    /\ UNCHANGED <<Fixed, phys, ref, LinearVars, pte, tables, pde, args, th>>

----------------------------------------------------------------------------
(* The end of a process *)

Last(c) == \A d \in CPU \ {c} : th[d].pc = "dead"

endTask(c) ==
    /\ At(c, "run") /\ ~global
    /\ IF Last(c) THEN Goto(c, "all") /\ UNCHANGED <<tlb, cr3>>
       ELSE /\ Goto(c, "dead")
            /\ cr3' = [cr3 EXCEPT ![c] = FALSE]
            /\ tlb' = [tlb EXCEPT ![c] = {}]
    /\ UNCHANGED <<Fixed, phys, ref, LinearVars, pte, tables, pde, args>>

\* releaseAllLinearBlocks: release block b, or go on behind it.
releaseAllLinearBlocks(c) ==
    LET b == th[c].b
    IN  /\ At(c, "all") /\ b < lin.blockCount
        /\ IF isReleasableBlock(b) THEN startRelease(c, b, "exit")
           ELSE th' = [th EXCEPT ![c].b = @ + 2^lin.sizeOrder[b]] /\ UNCHANGED status
        /\ UNCHANGED <<phys, ref, lin, mappedSize, buffer, pte, tables, pde, TLBVars>>

\* The pages of the block array and invalidatePageTable; then a new process takes its place.
invalidatePageTable(c) ==
    /\ At(c, "all") /\ th[c].b >= lin.blockCount
    /\ releasePhysicalBlock(tables)
    /\ tables' = {} /\ pde' = FALSE
    /\ lin' = createLinearBlockManager
    /\ status' = [l \in Linear |-> "free"] /\ mappedSize' = [l \in Linear |-> 0]
    /\ buffer' = [l \in Linear |-> FALSE] /\ pte' = [l \in Linear |-> NoPage]
    /\ tlb' = [tlb EXCEPT ![c] = {}]
    /\ cr3' = [d \in CPU |-> TRUE]
    /\ th' = [d \in CPU |-> Task]
    /\ UNCHANGED <<Fixed, args>>

----------------------------------------------------------------------------

MemTypeOK ==
    /\ global \in BOOLEAN /\ reserved \in Layouts /\ pde \in BOOLEAN
    /\ maxBlockCount \in InitialLinear..MaxLinear /\ lin.blockCount \in InitialLinear..maxBlockCount /\ lin.freeSize \in 0..MaxLinear
    /\ phys.freeSize \in 0..MaxPhysical
    /\ ref \in [Physical -> 0..MaxLinear + 2 * Cardinality(CPU)]
    /\ status \in [Linear -> {"free", "locked", "using"}]
    /\ mappedSize \in [Linear -> {0} \cup Sizes] /\ buffer \in [Linear -> BOOLEAN]
    /\ pte \in [Linear -> [p : Physical \cup {NoBlock}, present : BOOLEAN]]
    /\ tables \subseteq Physical /\ cr3 \in [CPU -> BOOLEAN]
    /\ tlb \in [CPU -> SUBSET (Linear \X Physical)]
    /\ args.lock \in CPU \cup {"none"} /\ args.pending \subseteq CPU /\ args.count \in 0..Cardinality(CPU)
    /\ \A c \in CPU : th[c].pc \in {"run", "physical", "map1", "set", "unreserve", "commit", "invalidate",
                                    "shoot", "barrier", "free", "unlock", "all", "dead"}

\* Both block managers: the free blocks and the blocks in use (those with a reference, or
\* USING or LOCKED) partition the range whatever was split, merged and extended in
\* between, and no two free buddies stay apart (buddy.c:132-147 and 157-170).
FreeBlocksPartition ==
    /\ MemTypeOK
    /\ Partition(phys, {p \in Physical : ref[p] > 0})
    /\ Partition(lin, {l \in Linear : status[l] # "free"})

\* Physical blocks that the task of c has in hand and not in a page table.
InHand(c, p) ==
    LET t == th[c]
    IN  CASE t.pc \in {"map1", "unreserve"} -> IF t.p = p THEN 1 ELSE 0
          [] t.pc = "set" /\ t.op = "pages" -> IF t.p = p THEN 1 ELSE 0
          [] t.pc = "set" /\ t.op = "existing" -> IF t.p = p THEN 2 ELSE 0
          [] t.pc = "set" /\ t.op = "contiguous" -> IF p \in t.p + t.i..t.p + t.n - 1 THEN 1 ELSE 0
          [] OTHER -> 0

RECURSIVE InHands(_, _)
InHands(cs, p) == IF cs = {} THEN 0 ELSE LET c == CHOOSE x \in cs : TRUE
                                         IN  InHand(c, p) + InHands(cs \ {c}, p)

\* The referenceCount of every usable physical block is the number of page table entries,
\* tables and unfinished operations that use it: none is lost on an error path or at the
\* end of a process, and none is freed early (physicalblock.c:85 and 100).
ReferencesMatchMappings ==
    \A p \in Physical \ reserved :
        ref[p] = Cardinality({l \in Linear : pte[l].p = p}) + InHands(CPU, p) + (IF p \in tables THEN 1 ELSE 0)

\* A translation in the TLB of any CPU is that of a page whose physical block has not
\* been released: it is mapped, or its unmapper has still to pass the barrier of
\* sendINVLPG_enabled (page.c:585, before the blocks are released at 592).
NoStaleTranslation ==
    \A c \in CPU : \A e \in tlb[c] :
        /\ pte[e[1]].p = e[2] /\ ref[e[2]] > 0
        /\ \/ pte[e[1]].present
           \/ \E d \in CPU : th[d].pc \in {"shoot", "barrier"} /\ e[1] \in Pages(th[d])
=============================================================================
