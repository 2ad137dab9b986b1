-------------------------------- MODULE Buddy ---------------------------------
(***************************************************************************)
(* The buddy allocator of kernel/memory/buddy.c, as operators on the state *)
(* of a MemoryBlockManager: the sizeOrder of every block and the free list *)
(* of every order.  Sizes and addresses are in units of MIN_BLOCK_SIZE and *)
(* orders count from MIN_BLOCK_ORDER.  Which block of an order is first in *)
(* its free list is left open.                                             *)
(***************************************************************************)
EXTENDS Integers, FiniteSets

CONSTANT MaxOrder   \* MAX_BLOCK_ORDER - MIN_BLOCK_ORDER

Order == 0..MaxOrder

NoBlock == -1

\* resetBlockArray: blocks of the least order, none of them free.
resetBlockArray(capacity, count) ==
    [blockCount |-> count, freeSize |-> 0, sizeOrder |-> [b \in 0..capacity - 1 |-> 0],
     freeBlock |-> [o \in Order |-> {}]]

IsFree(m, b) == \E o \in Order : b \in m.freeBlock[o]

\* The xor with the size of the block.
getBuddy(m, b) ==
    LET size == 2^m.sizeOrder[b]
        buddy == IF (b \div size) % 2 = 0 THEN b + size ELSE b - size
    IN  IF buddy >= m.blockCount THEN NoBlock ELSE buddy

\* MaxOrder + 1 if the size is too large.
ceilAllocateOrder(size) ==
    CHOOSE o \in 0..MaxOrder + 1 :
        /\ o = MaxOrder + 1 \/ 2^o >= size
        /\ \A p \in 0..o - 1 : 2^p < size

\* The blocks that findFreeBlock may return: those of the least order that has any.
findFreeBlock(m, minOrder) ==
    LET usable == {o \in minOrder..MaxOrder : m.freeBlock[o] # {}}
    IN  IF usable = {} THEN {} ELSE m.freeBlock[CHOOSE o \in usable : \A p \in usable : o <= p]

\* A merge of buddies that forgets that the buddy may be split.
Merges(m, b, buddy) == IsFree(m, buddy)

\* The buddy is free as a whole.
Mergeable(m, b, buddy) == buddy \in m.freeBlock[m.sizeOrder[b]]

RECURSIVE merge(_, _)
merge(m, b) ==
    LET o == m.sizeOrder[b]
        buddy == getBuddy(m, b)
        low == IF b < buddy THEN b ELSE buddy
    IN  IF o < MaxOrder /\ buddy # NoBlock /\ Mergeable(m, b, buddy)
        THEN merge([m EXCEPT !.freeBlock[m.sizeOrder[buddy]] = @ \ {buddy},
                             !.sizeOrder[low] = o + 1], low)
        ELSE [m EXCEPT !.freeBlock[o] = @ \cup {b}]

releaseBlock(m, b) == merge([m EXCEPT !.freeSize = @ + 2^m.sizeOrder[b]], b)

\* Block b of the free lists is taken out and split until it has order o.
RECURSIVE splitTo(_, _, _)
splitTo(m, b, o) ==
    LET p == m.sizeOrder[b]
        half == p - 1
    IN  IF p = o THEN [m EXCEPT !.freeBlock[o] = @ \ {b}]
        ELSE splitTo([m EXCEPT !.freeBlock = [@ EXCEPT ![p] = @ \ {b},
                                                       ![half] = @ \cup {b, b + 2^half}],
                               !.sizeOrder[b] = half], b, o)

RECURSIVE splitAll(_, _, _, _)
splitAll(m, b, o, n) ==
    IF n = 0 THEN m ELSE splitAll(splitTo(m, b, o), b + 2^o, o, n - 1)

\* allocateBlock_noLock with the free block b: size is divided into blocks of splitSize.
allocateBlock(m, b, size, splitSize) ==
    LET whole == splitSize >= size
        o == ceilAllocateOrder(IF whole THEN size ELSE splitSize)
        n == IF whole THEN 1 ELSE (size + splitSize - 1) \div splitSize
    IN  [splitAll(m, b, o, n) EXCEPT !.freeSize = @ - n * 2^o]

----------------------------------------------------------------------------

Cover(m, b) == b..b + 2^m.sizeOrder[b] - 1

\* The free blocks of a manager: aligned, within its range, apart from each other, as
\* large as freeSize says and merged wherever two buddies are free.  held are the blocks
\* in use: with the free ones they make up the whole range.
Partition(m, held) ==
    LET free == UNION {m.freeBlock[o] : o \in Order}
        all == free \cup held
    IN  /\ free \cap held = {}
        /\ \A o \in Order : \A b \in m.freeBlock[o] :
             /\ m.sizeOrder[b] = o /\ b % 2^o = 0
             /\ o < MaxOrder => getBuddy(m, b) \notin m.freeBlock[o]
        /\ \A a, b \in all : a # b => Cover(m, a) \cap Cover(m, b) = {}
        /\ UNION {Cover(m, b) : b \in all} = 0..m.blockCount - 1
        /\ m.freeSize = Cardinality(UNION {Cover(m, b) : b \in free})
=============================================================================
