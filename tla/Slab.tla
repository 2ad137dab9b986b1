--------------------------------- MODULE Slab ---------------------------------
(***************************************************************************)
(* The slab allocator of kernel/memory/slab.c: units of a few sizes in     *)
(* slabs of one page, whole pages for larger sizes.  Which slab of a list  *)
(* is its head, and the order of a slab's freeList, are left open.         *)
(***************************************************************************)
EXTENDS Naturals, FiniteSets

CONSTANTS SlabPage,   \* the pages that allocatePages can return
          SlabUnit,   \* the index of slabUnit
          Capacity    \* units in a slab of each of them

\* SLAB_SIZE holds two units of the largest size.
ASSUME SlabAssumption == Capacity \in [SlabUnit -> Nat \ {0, 1}]

VARIABLES slab,       \* what every page is, with its usedCount and freeList
          lent        \* units and pages that callers hold
slabVars == <<slab, lent>>

Units(i) == 1..Capacity[i]
Unused == [list |-> "none", size |-> 0, usedCount |-> 0, freeList |-> {}]

isTotallyUsed(s) == s.freeList = {}
isTotallyFree(s) == s.usedCount = 0

initSlab(i) == [list |-> "usable", size |-> i, usedCount |-> 0, freeList |-> Units(i)]

\* createSlabManager: the manager is the first unit of the first slab.
createSlabManager ==
    \E g \in SlabPage, i \in SlabUnit :
        /\ slab = [x \in SlabPage |-> IF x # g THEN Unused
                                      ELSE [initSlab(i) EXCEPT !.usedCount = 1, !.freeList = @ \ {1}]]
        /\ lent = {}

usableSlab(i) == {g \in SlabPage : slab[g].list = "usable" /\ slab[g].size = i}

\* allocateUnit that leaves a full slab where it is.
KeepUsable(s, u) == [s EXCEPT !.usedCount = @ + 1, !.freeList = @ \ {u}]

\* allocateUnit; a slab without a free unit moves to usedSlab.
allocateUnit(s, u) ==
    LET taken == [s EXCEPT !.usedCount = @ + 1, !.freeList = @ \ {u}]
    IN  [taken EXCEPT !.list = IF isTotallyUsed(taken) THEN "used" ELSE @]

Lend(g, s, u) ==
    /\ slab' = [slab EXCEPT ![g] = allocateUnit(s, u)]
    /\ lent' = lent \cup {<<g, u>>}

allocateSlab(i) ==
    \E g \in usableSlab(i) : \E u \in slab[g].freeList : Lend(g, slab[g], u)

\* The page is allocated and initialised under the lock of the manager.
allocateNewSlab(i) ==
    /\ usableSlab(i) = {}
    /\ \E g \in SlabPage : slab[g] = Unused /\ \E u \in Units(i) : Lend(g, initSlab(i), u)

\* A size beyond the largest unit.
allocateLargeSlab ==
    \E g \in SlabPage :
        /\ slab[g] = Unused
        /\ slab' = [slab EXCEPT ![g].list = "pages"]
        /\ lent' = lent \cup {<<g, 0>>}

\* freeUnit: a slab on usedSlab stays there until its last unit comes back.
freeUnit(g, u) ==
    LET s == [slab[g] EXCEPT !.usedCount = @ - 1, !.freeList = @ \cup {u}]
    IN  [s EXCEPT !.list = IF isTotallyFree(s) THEN "releasing" ELSE @]

releaseSlab(g, u) ==
    /\ <<g, u>> \in lent
    /\ lent' = lent \ {<<g, u>>}
    /\ slab' = [slab EXCEPT ![g] = IF u = 0 THEN [Unused EXCEPT !.list = "releasing"] ELSE freeUnit(g, u)]

\* releasePages, after the lock has been released.
releaseSlabPages(g) ==
    /\ slab[g].list = "releasing"
    /\ slab' = [slab EXCEPT ![g] = Unused]
    /\ UNCHANGED lent

SlabNext ==
    \/ \E i \in SlabUnit : allocateSlab(i) \/ allocateNewSlab(i)
    \/ allocateLargeSlab
    \/ \E e \in lent : releaseSlab(e[1], e[2])
    \/ \E g \in SlabPage : releaseSlabPages(g)

SlabSpec == createSlabManager /\ [][SlabNext]_slabVars

----------------------------------------------------------------------------

SlabTypeOK ==
    /\ slab \in [SlabPage -> [list : {"none", "usable", "used", "pages", "releasing"},
                              size : SlabUnit \cup {0}, usedCount : Nat, freeList : SUBSET Nat]]
    /\ lent \subseteq SlabPage \X Nat

\* A unit is lent at most once and only from a live slab, the usedCount of a slab is the
\* number of its lent units (and the manager itself in the first one), usableSlab never
\* leads to a slab without a unit (slab.c:119 takes its head without looking further),
\* and only a slab without users is given back (slab.c:145).
SlabListsConsistent ==
    /\ SlabTypeOK
    /\ \A g \in SlabPage :
           LET s == slab[g]
               out == {e \in lent : e[1] = g}
               units == {e[2] : e \in out}
           IN  IF s.list \in {"usable", "used"}
               THEN /\ units \cap s.freeList = {}
                    /\ s.usedCount + Cardinality(s.freeList) = Capacity[s.size]
                    /\ s.usedCount - Cardinality(out) \in {0, 1}
                    /\ s.usedCount > 0
                    /\ s.list = "usable" => s.freeList # {}
               ELSE units = IF s.list = "pages" THEN {0} ELSE {}
=============================================================================
