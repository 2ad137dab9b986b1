---------------------------- MODULE KernelProofs -----------------------------
(***************************************************************************)
(* Components of the kernel that stand by themselves, each for every value *)
(* of its constants: the slabs of the memory manager, the command line of  *)
(* the console, and fifoarray.c with its refinement of the bounded queue.  *)
(* Each has an inductive invariant, a lemma per action, and its theorems.  *)
(***************************************************************************)
EXTENDS Slab, Console, FIFOArray, SemaphoreProofs, FiniteSetTheorems

\* A leaf that cites no prover is first-order and goes to Zenon; arithmetic and sequences
\* go to SMT.
USE Zenon

\* Sequences
LEMMA SeqLength ==
    ASSUME NEW S, NEW q \in Seq(S)
    PROVE  Len(q) \in Nat /\ q \in [1..Len(q) -> S] /\ DOMAIN q = 1..Len(q)
BY SMT

LEMMA SeqElement ==
    ASSUME NEW S, NEW q \in Seq(S), NEW i \in 1..Len(q)
    PROVE  q[i] \in S
BY SMT

LEMMA SeqEmpty ==
    ASSUME NEW S
    PROVE  <<>> \in Seq(S) /\ Len(<<>>) = 0 /\ \A q \in Seq(S) : q # <<>> => Len(q) \in Nat \ {0}
BY SMT

-----------------------------------------------------------------------------
(* Slabs *)

\* What callers hold of page g.
Out(g) == {e \in lent : e[1] = g}

PageType == [list : {"none", "usable", "used", "pages", "releasing"},
             size : SlabUnit \cup {0}, usedCount : Nat, freeList : SUBSET Nat]

\* The units o that callers hold of a slab s, and its free ones, are different units of it;
\* the others are those that the manager takes.
SlabCounts(s, o) ==
    /\ s \in PageType /\ s.size \in SlabUnit
    /\ s.freeList \subseteq Units(s.size) /\ IsFiniteSet(o)
    /\ \A e \in o : e[2] \in Units(s.size) \ s.freeList
    /\ s.usedCount + Cardinality(s.freeList) = Capacity[s.size]
    /\ s.usedCount - Cardinality(o) \in {0, 1}

Live(s) == s.list \in {"usable", "used"}

\* The page s, of which callers hold o.
PageOK(g, s, o) ==
    /\ s \in PageType /\ o \subseteq {g} \X Nat
    /\ Live(s) => /\ SlabCounts(s, o) /\ s.usedCount > 0
                  /\ s.list = "usable" => s.freeList # {}
    /\ ~Live(s) => o = IF s.list = "pages" THEN {<<g, 0>>} ELSE {}

SlabInv ==
    /\ slab \in [SlabPage -> PageType] /\ lent \subseteq SlabPage \X Nat
    /\ \A g \in SlabPage : PageOK(g, slab[g], Out(g))

LEMMA UnitsFinite ==
    ASSUME NEW i \in SlabUnit
    PROVE  /\ Capacity[i] \in Nat \ {0, 1} /\ Units(i) \subseteq Nat /\ 0 \notin Units(i)
           /\ IsFiniteSet(Units(i)) /\ Cardinality(Units(i)) = Capacity[i]
<1>1. Capacity[i] \in Nat \ {0, 1}
  BY SlabAssumption
<1>2. Units(i) = 1..Capacity[i] /\ 1 \in Nat
  BY DEF Units
<1>3. 1 \in Int /\ Capacity[i] \in Int /\ ~(1 > Capacity[i]) /\ Capacity[i] - 1 + 1 = Capacity[i]
  BY SMT, <1>1
<1>4. /\ IsFiniteSet(1..Capacity[i])
      /\ Cardinality(1..Capacity[i]) = IF 1 > Capacity[i] THEN 0 ELSE Capacity[i] - 1 + 1
  BY <1>3, FS_Interval
<1>5. Cardinality(1..Capacity[i]) = Capacity[i]
  BY <1>3, <1>4
<1>6. Units(i) \subseteq Nat /\ 0 \notin Units(i)
  BY SMT, <1>1, <1>2
<1>. QED BY <1>1, <1>2, <1>4, <1>5, <1>6

\* A new slab.
LEMMA InitSlabCounts ==
    ASSUME NEW i \in SlabUnit
    PROVE  SlabCounts(initSlab(i), {}) /\ initSlab(i).freeList = Units(i)
<1>1. initSlab(i) \in PageType /\ initSlab(i).size = i /\ initSlab(i).freeList = Units(i)
      /\ initSlab(i).usedCount = 0
  BY UnitsFinite DEF initSlab, PageType
<1>. QED BY SMT, <1>1, UnitsFinite, FS_EmptySet DEF SlabCounts

\* A unit of a slab is taken off its freeList.
TakeUnit(s, u) == [s EXCEPT !.usedCount = @ + 1, !.freeList = @ \ {u}]

LEMMA TakeUnitCounts ==
    ASSUME NEW s, NEW o, SlabCounts(s, o), NEW u \in s.freeList
    PROVE  /\ TakeUnit(s, u) \in PageType
           /\ TakeUnit(s, u).size = s.size /\ TakeUnit(s, u).list = s.list
           /\ TakeUnit(s, u).usedCount = s.usedCount + 1
           /\ TakeUnit(s, u).freeList = s.freeList \ {u}
           /\ TakeUnit(s, u).usedCount + Cardinality(TakeUnit(s, u).freeList) = Capacity[s.size]
<1>1. s \in PageType /\ s.size \in SlabUnit /\ s.freeList \subseteq Units(s.size)
      /\ s.usedCount + Cardinality(s.freeList) = Capacity[s.size]
  BY DEF SlabCounts
<1>2. IsFiniteSet(s.freeList)
  BY <1>1, UnitsFinite, FS_Subset
<1>3. Cardinality(s.freeList \ {u}) = Cardinality(s.freeList) - 1 /\ Cardinality(s.freeList) \in Nat
  BY <1>2, FS_RemoveElement, FS_CardinalityType
<1>. DEFINE t1 == [s EXCEPT !.usedCount = @ + 1]
            t2 == [t1 EXCEPT !.freeList = @ \ {u}]
<1>4. t1 \in PageType /\ t1.size = s.size /\ t1.list = s.list /\ t1.freeList = s.freeList
      /\ t1.usedCount = s.usedCount + 1
  BY SMT, <1>1 DEF PageType
<1>. HIDE DEF t1
<1>5. t2 \in PageType /\ t2.size = s.size /\ t2.list = s.list /\ t2.freeList = s.freeList \ {u}
      /\ t2.usedCount = s.usedCount + 1
  BY <1>4 DEF PageType
<1>6. s.usedCount \in Nat /\ Capacity[s.size] \in Nat
  BY <1>1, SlabAssumption DEF PageType
<1>7. t2.usedCount + Cardinality(t2.freeList) = Capacity[t2.size]
  BY SMT, <1>1, <1>3, <1>5, <1>6
<1>8. TakeUnit(s, u) = t2
  BY <1>1 DEF t1, PageType, TakeUnit
<1>. QED BY <1>5, <1>7, <1>8

LEMMA AllocateUnitOK ==
    ASSUME NEW g, NEW s, NEW o, SlabCounts(s, o), s.list = "usable", NEW u \in s.freeList,
           o \subseteq {g} \X Nat
    PROVE  PageOK(g, allocateUnit(s, u), o \cup {<<g, u>>}) /\ u \in Nat
<1>. DEFINE t == TakeUnit(s, u)
            p == o \cup {<<g, u>>}
            a == allocateUnit(s, u)
<1>1. /\ t \in PageType /\ t.size = s.size /\ t.list = "usable"
      /\ t.usedCount = s.usedCount + 1 /\ t.freeList = s.freeList \ {u}
      /\ t.usedCount + Cardinality(t.freeList) = Capacity[t.size]
  BY SMT, TakeUnitCounts
<1>2. /\ a \in PageType /\ a.size = s.size /\ a.usedCount = s.usedCount + 1
      /\ a.freeList = s.freeList \ {u} /\ a.list = IF t.freeList = {} THEN "used" ELSE "usable"
      /\ a.usedCount + Cardinality(a.freeList) = Capacity[a.size]
  BY <1>1 DEF allocateUnit, isTotallyUsed, PageType, TakeUnit
<1>3. s \in PageType /\ s.size \in SlabUnit /\ s.freeList \subseteq Units(s.size) /\ IsFiniteSet(o)
      /\ (\A e \in o : e[2] \in Units(s.size) \ s.freeList)
      /\ s.usedCount - Cardinality(o) \in {0, 1} /\ s.usedCount \in Nat
  BY DEF SlabCounts, PageType
<1>4. <<g, u>> \notin o
  BY <1>3
<1>5. IsFiniteSet(p) /\ Cardinality(p) = Cardinality(o) + 1 /\ Cardinality(o) \in Nat
  BY <1>3, <1>4, FS_AddElement, FS_CardinalityType
<1>6. \A e \in p : e[2] \in Units(a.size) \ a.freeList
  BY SMT, <1>2, <1>3
<1>7. SlabCounts(a, p) /\ a.usedCount > 0
  BY SMT, <1>2, <1>3, <1>5, <1>6 DEF SlabCounts
<1>8. u \in Nat /\ Live(a) /\ (a.list = "usable" => a.freeList # {})
  BY <1>1, <1>2, <1>3, UnitsFinite DEF Live
<1>9. p \subseteq {g} \X Nat
  BY SMT, <1>8
<1>. QED BY <1>2, <1>7, <1>8, <1>9 DEF PageOK

LEMMA FreeUnitOK ==
    ASSUME NEW g \in SlabPage, NEW o, PageOK(g, slab[g], o), NEW u, <<g, u>> \in o, u # 0
    PROVE  PageOK(g, freeUnit(g, u), o \ {<<g, u>>})
<1>. DEFINE s == slab[g]
            t == [s EXCEPT !.usedCount = @ - 1, !.freeList = @ \cup {u}]
            p == o \ {<<g, u>>}
            a == freeUnit(g, u)
<1>1. Live(s) /\ SlabCounts(s, o) /\ s.usedCount > 0
  BY SMT DEF PageOK
<1>2. s \in PageType /\ s.size \in SlabUnit /\ s.freeList \subseteq Units(s.size) /\ IsFiniteSet(o)
      /\ (\A e \in o : e[2] \in Units(s.size) \ s.freeList)
      /\ s.usedCount + Cardinality(s.freeList) = Capacity[s.size]
      /\ s.usedCount - Cardinality(o) \in {0, 1} /\ s.usedCount \in Nat
  BY <1>1 DEF SlabCounts, PageType
<1>3. u \in Units(s.size) /\ u \notin s.freeList /\ Units(s.size) \subseteq Nat
  BY <1>2, UnitsFinite
<1>4. IsFiniteSet(s.freeList)
  BY <1>2, UnitsFinite, FS_Subset
<1>5. Cardinality(s.freeList \cup {u}) = Cardinality(s.freeList) + 1 /\ Cardinality(s.freeList) \in Nat
  BY <1>3, <1>4, FS_AddElement, FS_CardinalityType
<1>6. IsFiniteSet(p) /\ Cardinality(p) = Cardinality(o) - 1 /\ Cardinality(o) \in Nat
  BY <1>2, FS_RemoveElement, FS_CardinalityType
<1>7. /\ t \in PageType /\ t.size = s.size /\ t.list = s.list
      /\ t.usedCount = s.usedCount - 1 /\ t.freeList = s.freeList \cup {u}
  <2>. DEFINE t1 == [s EXCEPT !.usedCount = @ - 1]
              t2 == [t1 EXCEPT !.freeList = @ \cup {u}]
  <2>1. t1 \in PageType /\ t1.size = s.size /\ t1.list = s.list /\ t1.freeList = s.freeList
        /\ t1.usedCount = s.usedCount - 1
    BY SMT, <1>1, <1>2 DEF PageType
  <2>. HIDE DEF t1
  <2>2. t2 \in PageType /\ t2.size = s.size /\ t2.list = s.list
        /\ t2.freeList = s.freeList \cup {u} /\ t2.usedCount = s.usedCount - 1
    BY <1>3, <2>1 DEF PageType
  <2>3. t = t2
    BY <1>2 DEF t1, PageType
  <2>. QED BY <2>2, <2>3
<1>8. /\ a \in PageType /\ a.size = s.size /\ a.usedCount = s.usedCount - 1
      /\ a.freeList = s.freeList \cup {u} /\ a.list = IF t.usedCount = 0 THEN "releasing" ELSE s.list
  BY <1>7 DEF freeUnit, isTotallyFree, PageType
<1>9. CASE s.usedCount = 1
  <2>1. ~Live(a) /\ a.list # "pages"
    BY SMT, <1>7, <1>8, <1>9 DEF Live
  <2>2. p = {}
    BY SMT, <1>2, <1>6, <1>9, FS_EmptySet
  <2>. QED BY <1>8, <2>1, <2>2 DEF PageOK
<1>10. CASE s.usedCount # 1
  <2>1. Live(a) /\ a.usedCount > 0 /\ a.usedCount \in Nat
    BY SMT, <1>1, <1>2, <1>7, <1>8, <1>10 DEF Live
  <2>2. \A e \in p : e[2] \in Units(a.size) \ a.freeList
    <3>. SUFFICES ASSUME NEW e \in p PROVE e[2] # u
      BY <1>2, <1>8
    <3>. QED BY SMT DEF PageOK
  <2>3. SlabCounts(a, p)
    BY SMTT(20), <1>2, <1>3, <1>5, <1>6, <1>8, <2>2 DEF SlabCounts
  <2>. QED BY <1>8, <2>1, <2>3 DEF PageOK
<1>. QED BY <1>9, <1>10

\* A step that changes one page.
LEMMA OnePage ==
    ASSUME SlabInv, NEW g \in SlabPage, NEW s, slab' = [slab EXCEPT ![g] = s],
           lent' \subseteq SlabPage \X Nat,
           \A e \in SlabPage \X Nat : e[1] # g => (e \in lent' <=> e \in lent),
           PageOK(g, s, Out(g)')
    PROVE  SlabInv'
<1>1. slab' \in [SlabPage -> PageType]
  BY DEF SlabInv, PageOK
<1>2. ASSUME NEW h \in SlabPage PROVE PageOK(h, slab'[h], Out(h)')
  <2>1. CASE h = g
    BY <2>1 DEF SlabInv
  <2>2. CASE h # g
    <3>1. Out(h)' = Out(h)
      BY <2>2 DEF SlabInv, Out
    <3>2. slab'[h] = slab[h]
      BY <2>2 DEF SlabInv
    <3>. QED BY <3>1, <3>2 DEF SlabInv
  <2>. QED BY <2>1, <2>2
<1>. QED BY <1>1, <1>2 DEF SlabInv

LEMMA UnusedPage ==
    ASSUME NEW g
    PROVE  PageOK(g, Unused, {}) /\ Unused \in PageType
BY DEF PageOK, PageType, Unused, Live

LEMMA CreateSlabManagerInv == createSlabManager => SlabInv
<1>. SUFFICES ASSUME createSlabManager PROVE SlabInv
  OBVIOUS
<1>1. PICK g \in SlabPage, i \in SlabUnit :
          /\ slab = [x \in SlabPage |-> IF x # g THEN Unused
                                        ELSE [initSlab(i) EXCEPT !.usedCount = 1, !.freeList = @ \ {1}]]
          /\ lent = {}
  BY DEF createSlabManager
<1>. DEFINE s == initSlab(i)
            t == TakeUnit(s, 1)
<1>2. SlabCounts(s, {}) /\ s.freeList = Units(i) /\ s.usedCount = 0 /\ s.list = "usable" /\ s.size = i
  BY InitSlabCounts DEF initSlab
<1>3. 1 \in s.freeList /\ 2 \in s.freeList
  BY SMT, <1>2, UnitsFinite DEF Units
<1>4. /\ t \in PageType /\ t.size = s.size /\ t.list = s.list
      /\ t.usedCount = s.usedCount + 1 /\ t.freeList = s.freeList \ {1}
      /\ t.usedCount + Cardinality(t.freeList) = Capacity[t.size]
  BY SMT, <1>2, <1>3, TakeUnitCounts
<1>5. slab[g] = t
  BY SMT, <1>1, <1>2 DEF initSlab, TakeUnit
<1>6. SlabCounts(t, {}) /\ t.usedCount = 1 /\ t.list = "usable" /\ t.freeList # {}
  BY SMTT(20), <1>2, <1>3, <1>4, FS_EmptySet DEF SlabCounts
<1>7. PageOK(g, slab[g], {})
  BY SMT, <1>4, <1>5, <1>6 DEF PageOK, Live
<1>8. \A h \in SlabPage : Out(h) = {} /\ PageOK(h, slab[h], {})
  BY <1>1, <1>7, UnusedPage DEF Out
<1>9. slab \in [SlabPage -> PageType]
  BY <1>1, <1>8 DEF PageOK
<1>. QED BY <1>1, <1>8, <1>9 DEF SlabInv

LEMMA LendInv ==
    ASSUME SlabInv, NEW g \in SlabPage, NEW s, NEW u \in s.freeList, SlabCounts(s, Out(g)),
           s.list = "usable", Lend(g, s, u)
    PROVE  SlabInv'
<1>1. Out(g) \subseteq {g} \X Nat
  BY DEF SlabInv, PageOK
<1>2. PageOK(g, allocateUnit(s, u), Out(g) \cup {<<g, u>>}) /\ u \in Nat
  BY <1>1, AllocateUnitOK
<1>3. Out(g)' = Out(g) \cup {<<g, u>>}
  BY SMT DEF Lend, Out
<1>4. lent' \subseteq SlabPage \X Nat /\ \A e \in SlabPage \X Nat : e[1] # g => (e \in lent' <=> e \in lent)
  BY SMT, <1>2 DEF SlabInv, Lend
<1>. QED BY <1>2, <1>3, <1>4, OnePage DEF Lend

LEMMA ReleaseSlabInv ==
    ASSUME SlabInv, NEW g, NEW u, releaseSlab(g, u)
    PROVE  SlabInv'
<1>1. g \in SlabPage /\ u \in Nat /\ <<g, u>> \in Out(g) /\ PageOK(g, slab[g], Out(g))
  BY DEF releaseSlab, SlabInv, Out
<1>2. lent' \subseteq SlabPage \X Nat /\ \A e \in SlabPage \X Nat : e[1] # g => (e \in lent' <=> e \in lent)
  BY SMT DEF SlabInv, releaseSlab
<1>3. Out(g)' = Out(g) \ {<<g, u>>}
  BY DEF releaseSlab, Out
<1>4. CASE u = 0
  <2>1. ~Live(slab[g])
    <3>. SUFFICES ASSUME Live(slab[g]) PROVE FALSE
      OBVIOUS
    <3>1. <<g, u>>[2] \in Units(slab[g].size) /\ slab[g].size \in SlabUnit
      BY <1>1 DEF PageOK, SlabCounts
    <3>. QED BY <1>4, <3>1, UnitsFinite
  <2>2. Out(g) = {<<g, 0>>}
    BY <1>1, <2>1 DEF PageOK
  <2>3. PageOK(g, [Unused EXCEPT !.list = "releasing"], {})
    BY DEF PageOK, PageType, Unused, Live
  <2>4. Out(g)' = {}
    BY <1>3, <1>4, <2>2
  <2>5. slab' = [slab EXCEPT ![g] = [Unused EXCEPT !.list = "releasing"]]
    BY <1>4 DEF releaseSlab
  <2>. QED BY <1>1, <1>2, <2>3, <2>4, <2>5, OnePage
<1>5. CASE u # 0
  <2>1. PageOK(g, freeUnit(g, u), Out(g)')
    BY <1>1, <1>3, <1>5, FreeUnitOK
  <2>2. slab' = [slab EXCEPT ![g] = freeUnit(g, u)]
    BY <1>5 DEF releaseSlab
  <2>. QED BY <1>1, <1>2, <2>1, <2>2, OnePage
<1>. QED BY <1>4, <1>5

LEMMA SlabNextInv == SlabInv /\ [SlabNext]_slabVars => SlabInv'
<1>. SUFFICES ASSUME SlabInv, [SlabNext]_slabVars PROVE SlabInv'
  OBVIOUS
<1>1. CASE UNCHANGED slabVars
  BY <1>1 DEF SlabInv, slabVars, Out
<1>2. ASSUME NEW i \in SlabUnit, allocateSlab(i) PROVE SlabInv'
  <2>1. PICK g \in usableSlab(i) : \E u \in slab[g].freeList : Lend(g, slab[g], u)
    BY <1>2 DEF allocateSlab
  <2>2. g \in SlabPage /\ slab[g].list = "usable" /\ SlabCounts(slab[g], Out(g))
    BY <2>1 DEF usableSlab, SlabInv, PageOK, Live
  <2>. QED BY <2>1, <2>2, LendInv
<1>3. ASSUME NEW i \in SlabUnit, allocateNewSlab(i) PROVE SlabInv'
  <2>1. PICK g \in SlabPage, u \in Units(i) : slab[g] = Unused /\ Lend(g, initSlab(i), u)
    BY <1>3 DEF allocateNewSlab
  <2>2. Out(g) = {}
    BY SMT, <2>1 DEF SlabInv, PageOK, Unused, Live
  <2>3. initSlab(i).list = "usable" /\ u \in initSlab(i).freeList /\ SlabCounts(initSlab(i), Out(g))
    BY <2>1, <2>2, InitSlabCounts DEF initSlab
  <2>. QED BY <2>1, <2>3, LendInv
<1>4. CASE allocateLargeSlab
  <2>1. PICK g \in SlabPage : slab[g] = Unused /\ slab' = [slab EXCEPT ![g].list = "pages"]
                              /\ lent' = lent \cup {<<g, 0>>}
    BY <1>4 DEF allocateLargeSlab
  <2>2. Out(g) = {}
    BY SMT, <2>1 DEF SlabInv, PageOK, Unused, Live
  <2>3. Out(g)' = {<<g, 0>>}
    BY SMT, <2>1, <2>2 DEF Out
  <2>4. PageOK(g, [Unused EXCEPT !.list = "pages"], Out(g)')
    BY SMT, <2>3 DEF PageOK, PageType, Unused, Live
  <2>5. slab' = [slab EXCEPT ![g] = [Unused EXCEPT !.list = "pages"]]
    BY <2>1
  <2>6. lent' \subseteq SlabPage \X Nat /\ \A e \in SlabPage \X Nat : e[1] # g => (e \in lent' <=> e \in lent)
    BY SMT, <2>1 DEF SlabInv
  <2>. QED BY <2>4, <2>5, <2>6, OnePage
<1>5. ASSUME NEW e \in lent, releaseSlab(e[1], e[2]) PROVE SlabInv'
  BY <1>5, ReleaseSlabInv
<1>6. ASSUME NEW g \in SlabPage, releaseSlabPages(g) PROVE SlabInv'
  <2>1. slab[g].list = "releasing" /\ slab' = [slab EXCEPT ![g] = Unused] /\ lent' = lent
    BY <1>6 DEF releaseSlabPages
  <2>2. Out(g) = {} /\ Out(g)' = Out(g)
    BY <2>1 DEF SlabInv, PageOK, Live, Out
  <2>3. lent' \subseteq SlabPage \X Nat
    BY <2>1 DEF SlabInv
  <2>. QED BY <2>1, <2>2, <2>3, UnusedPage, OnePage
<1>. QED BY <1>1, <1>2, <1>3, <1>4, <1>5, <1>6 DEF SlabNext

\* The slab allocator (slab.c) lends a unit at most once and only from a live slab, counts
\* the units it has lent, finds a free unit at the head of every usableSlab list, and gives
\* back only pages without users, for any number of pages, unit sizes and units per slab.
THEOREM SlabListsAlwaysConsistent == SlabSpec => []SlabListsConsistent
<1>1. SlabInv => SlabListsConsistent
  <2>. SUFFICES ASSUME SlabInv, NEW g \in SlabPage
       PROVE  LET s == slab[g]
                  out == {e \in lent : e[1] = g}
                  units == {e[2] : e \in out}
              IN  IF s.list \in {"usable", "used"}
                  THEN /\ units \cap s.freeList = {}
                       /\ s.usedCount + Cardinality(s.freeList) = Capacity[s.size]
                       /\ s.usedCount - Cardinality(out) \in {0, 1}
                       /\ s.usedCount > 0
                       /\ s.list = "usable" => s.freeList # {}
                  ELSE units = IF s.list = "pages" THEN {0} ELSE {}
    BY DEF SlabListsConsistent, SlabInv, SlabTypeOK, PageType
  <2>1. CASE Live(slab[g])
    BY SMT, <2>1 DEF SlabInv, PageOK, SlabCounts, Live, Out
  <2>2. CASE ~Live(slab[g])
    <3>1. {e \in lent : e[1] = g} = IF slab[g].list = "pages" THEN {<<g, 0>>} ELSE {}
      BY <2>2 DEF SlabInv, PageOK, Out
    <3>2. {e[2] : e \in {<<g, 0>>}} = {0} /\ {e[2] : e \in {}} = {}
      BY SMT
    <3>. QED BY <2>2, <3>1, <3>2 DEF Live
  <2>. QED BY <2>1, <2>2
<1>. QED BY <1>1, CreateSlabManagerInv, SlabNextInv, PTL DEF SlabSpec

-----------------------------------------------------------------------------
(* The console *)

Places == {"idle", "enter", "parse", "send", "process", "read", "return", "flush"}
Serving == {"send", "process", "read", "return", "flush"}

CommandLine == [lineEnd : 0..MaxLine, listenerCount : Nat, requests : Seq(ConsoleUser),
                lineFIFO : 0..LineFIFOLength]
ConsoleActor == [pc : Places, serves : ConsoleUser \cup {NoReader}, count : Nat,
                 open : BOOLEAN, reads : BOOLEAN, size : BufferSizes \cup {0}]

Openers == {u \in ConsoleUser : console[u].open}

\* What users and the console task do, a line that leaves room for the line feed while it
\* is edited, and the number of listeners.
ConsoleState ==
    /\ cmd \in CommandLine /\ console \in [Actor -> ConsoleActor] /\ missed \in BOOLEAN
    /\ \A a \in Actor : console[a].pc \in {"read", "return"} => console[a].serves \in ConsoleUser
    /\ console[ConsoleTask].pc # "flush"
    /\ \A u \in ConsoleUser : console[u].pc \notin {"enter", "parse", "send"}
    /\ console[ConsoleTask].pc = "idle" => cmd.lineEnd < MaxLine
    /\ cmd.listenerCount = Cardinality(Openers)

\* A read waits beside input only while somebody is about to serve it.
InputServed ==
    cmd.requests # <<>> /\ cmd.lineFIFO > 0 /\ ~missed => \E a \in Actor : console[a].pc \in Serving

ConsoleInv == ConsoleState /\ InputServed

USE DEF ConsoleAt

LEMMA OpenersFinite == IsFiniteSet(Openers) /\ Cardinality(Openers) \in 0..Cardinality(ConsoleUser)
<1>1. Openers \subseteq ConsoleUser
  BY DEF Openers
<1>. QED BY SMT, <1>1, ConsoleAssumption, FS_Subset, FS_CardinalityType

LEMMA ActorFacts == ConsoleTask \in Actor /\ (\A u \in ConsoleUser : u \in Actor /\ u # ConsoleTask)
                    /\ MaxLine \in Nat \ {0} /\ LineFIFOLength \in Nat \ {0}
                    /\ \A a \in Actor : a = ConsoleTask \/ a \in ConsoleUser
BY ConsoleAssumption DEF Actor

LEMMA InitConsoleInv == initConsoleCommandLine => ConsoleInv
<1>. SUFFICES ASSUME initConsoleCommandLine PROVE ConsoleInv
  OBVIOUS
<1>1. cmd = [lineEnd |-> 0, listenerCount |-> 0, requests |-> <<>>, lineFIFO |-> 0]
      /\ console = [a \in Actor |-> Resting] /\ missed = FALSE
  BY DEF initConsoleCommandLine
<1>2. Resting \in ConsoleActor /\ Resting.pc = "idle" /\ Resting.open = FALSE
  BY DEF Resting, ConsoleActor, Places
<1>3. Openers = {}
  BY <1>1, <1>2, ActorFacts DEF Openers
<1>4. cmd \in CommandLine
  BY SMT, <1>1, ActorFacts DEF CommandLine
<1>5. console \in [Actor -> ConsoleActor] /\ \A a \in Actor : console[a].pc = "idle"
  BY <1>1, <1>2
<1>6. Cardinality(Openers) = 0
  BY <1>3, FS_EmptySet
<1>8. cmd.lineFIFO = 0 /\ cmd.lineEnd = 0 /\ cmd.listenerCount = 0 /\ missed \in BOOLEAN
  BY <1>1
<1>7. ConsoleState
  BY SMTT(20), <1>4, <1>5, <1>6, <1>8, ActorFacts DEF ConsoleState
<1>9. InputServed
  BY SMT, <1>8 DEF InputServed
<1>. QED BY <1>7, <1>9 DEF ConsoleInv

\* A step that changes neither who has the console open nor the number of listeners.
LEMMA SameListeners ==
    ASSUME ConsoleState, cmd'.listenerCount = cmd.listenerCount,
           \A u \in ConsoleUser : console'[u].open = console[u].open
    PROVE  cmd'.listenerCount = Cardinality(Openers)'
<1>1. Openers' = Openers
  BY DEF Openers
<1>. QED BY <1>1 DEF ConsoleState

\* A step of a that neither opens nor closes the console.
ActorStep(a) ==
    /\ console' \in [Actor -> ConsoleActor] /\ cmd' \in CommandLine /\ missed' \in BOOLEAN
    /\ cmd'.listenerCount = cmd.listenerCount
    /\ \A b \in Actor : /\ console'[b].open = console[b].open
                        /\ b # a => console'[b].pc = console[b].pc /\ console'[b].serves = console[b].serves
    /\ console'[a].pc \in {"read", "return"} => console'[a].serves \in ConsoleUser
    /\ a = ConsoleTask => /\ console'[a].pc # "flush"
                          /\ console'[a].pc = "idle" => cmd'.lineEnd < MaxLine
    /\ a # ConsoleTask => /\ console'[a].pc \notin {"enter", "parse", "send"}
                          /\ cmd'.lineEnd = cmd.lineEnd

LEMMA ActorStepState ==
    ASSUME ConsoleState, NEW a \in Actor, ActorStep(a)
    PROVE  ConsoleState'
<1>1. cmd'.listenerCount = Cardinality(Openers)'
  BY SameListeners, ActorFacts DEF ActorStep
<1>2. console'[ConsoleTask].pc # "flush" /\ (console'[ConsoleTask].pc = "idle" => cmd'.lineEnd < MaxLine)
  BY ActorFacts DEF ActorStep, ConsoleState
<1>3. \A u \in ConsoleUser : console'[u].pc \notin {"enter", "parse", "send"}
  BY ActorFacts DEF ActorStep, ConsoleState
<1>4. \A b \in Actor : console'[b].pc \in {"read", "return"} => console'[b].serves \in ConsoleUser
  BY DEF ActorStep, ConsoleState
<1>. QED BY <1>1, <1>2, <1>3, <1>4 DEF ActorStep, ConsoleState

LEMMA PrintHandlerInv ==
    ASSUME ConsoleInv, NEW key, printHandler(key)
    PROVE  ConsoleInv'
<1>1. cmd' = [cmd EXCEPT !.lineEnd = @ + 1] /\ cmd.lineEnd < MaxLine - 1
      /\ console' = console /\ missed' = missed /\ console[ConsoleTask].pc = "idle"
  BY DEF printHandler
<1>2. cmd' \in CommandLine /\ cmd'.lineEnd < MaxLine
      /\ cmd'.listenerCount = cmd.listenerCount /\ cmd'.requests = cmd.requests
      /\ cmd'.lineFIFO = cmd.lineFIFO
  BY SMTT(20), <1>1, ActorFacts DEF ConsoleInv, ConsoleState, CommandLine
<1>3. ActorStep(ConsoleTask)
  BY <1>1, <1>2, ActorFacts DEF ActorStep, ConsoleInv, ConsoleState
<1>4. InputServed'
  BY <1>1, <1>2 DEF ConsoleInv, InputServed
<1>. QED BY <1>3, <1>4, ActorStepState, ActorFacts DEF ConsoleInv

LEMMA BackspaceInv ==
    ASSUME ConsoleInv, backspaceHandler
    PROVE  ConsoleInv'
<1>1. cmd' = [cmd EXCEPT !.lineEnd = @ - Erased] /\ cmd.lineEnd > 0 /\ Erased \in {0, 1}
      /\ console[ConsoleTask].pc = "idle" /\ console' = console /\ missed' = missed
  BY DEF backspaceHandler, Erased
<1>2. cmd' \in CommandLine /\ cmd'.lineEnd < MaxLine
      /\ cmd'.listenerCount = cmd.listenerCount /\ cmd'.requests = cmd.requests
      /\ cmd'.lineFIFO = cmd.lineFIFO
  BY SMT, <1>1, ActorFacts DEF ConsoleInv, ConsoleState, CommandLine
<1>3. ActorStep(ConsoleTask)
  BY <1>1, <1>2, ActorFacts DEF ActorStep, ConsoleInv, ConsoleState
<1>4. InputServed'
  BY <1>1, <1>2 DEF ConsoleInv, InputServed
<1>. QED BY <1>3, <1>4, ActorStepState, ActorFacts DEF ConsoleInv

LEMMA EnterInv ==
    ASSUME ConsoleInv, enterHandler
    PROVE  ConsoleInv'
<1>1. cmd' = [cmd EXCEPT !.lineEnd = @ + 1] /\ console[ConsoleTask].pc = "idle"
      /\ console' = [console EXCEPT ![ConsoleTask].pc = "enter"] /\ missed' = missed
  BY DEF enterHandler, ConsoleGoto
<1>2. cmd' \in CommandLine
      /\ cmd'.listenerCount = cmd.listenerCount /\ cmd'.requests = cmd.requests
      /\ cmd'.lineFIFO = cmd.lineFIFO
  BY SMT, <1>1, ActorFacts DEF ConsoleInv, ConsoleState, CommandLine
<1>3. console' \in [Actor -> ConsoleActor] /\ console'[ConsoleTask].pc = "enter"
      /\ (\A b \in Actor : console'[b].open = console[b].open)
      /\ \A b \in Actor : b # ConsoleTask => console'[b] = console[b]
  BY SMT, <1>1, ActorFacts DEF ConsoleInv, ConsoleState, ConsoleActor, Places
<1>4. ActorStep(ConsoleTask)
  BY <1>1, <1>2, <1>3, ActorFacts DEF ActorStep, ConsoleInv, ConsoleState
<1>5. InputServed'
  BY <1>1, <1>2, <1>3 DEF ConsoleInv, InputServed, Serving
<1>. QED BY <1>4, <1>5, ActorStepState, ActorFacts DEF ConsoleInv

LEMMA CountListenersInv ==
    ASSUME ConsoleInv, countListeners
    PROVE  ConsoleInv'
<1>. DEFINE pc == IF cmd.listenerCount = 0 THEN "parse" ELSE "send"
<1>1. cmd' = cmd /\ console[ConsoleTask].pc = "enter"
      /\ console' = [console EXCEPT ![ConsoleTask].pc = pc] /\ missed' = missed
  BY DEF countListeners, ConsoleGoto
<1>2. console' \in [Actor -> ConsoleActor] /\ console'[ConsoleTask].pc \in {"parse", "send"}
      /\ (\A b \in Actor : console'[b].open = console[b].open)
      /\ \A b \in Actor : b # ConsoleTask => console'[b] = console[b]
  BY SMT, <1>1, ActorFacts DEF ConsoleInv, ConsoleState, ConsoleActor, Places
<1>3. ActorStep(ConsoleTask)
  BY <1>1, <1>2, ActorFacts DEF ActorStep, ConsoleInv, ConsoleState
<1>4. InputServed'
  BY <1>1, <1>2 DEF ConsoleInv, InputServed, Serving
<1>. QED BY <1>3, <1>4, ActorStepState, ActorFacts DEF ConsoleInv

LEMMA ParseCommandInv ==
    ASSUME ConsoleInv, NEW s, NEW created, parseCommand(s, created)
    PROVE  ConsoleInv'
<1>1. cmd' = [cmd EXCEPT !.lineEnd = 0] /\ console[ConsoleTask].pc = "parse"
      /\ console' = [console EXCEPT ![ConsoleTask].pc = "idle"] /\ missed' = missed
  BY DEF parseCommand, ConsoleGoto
<1>2. cmd' \in CommandLine /\ cmd'.lineEnd < MaxLine
      /\ cmd'.listenerCount = cmd.listenerCount /\ cmd'.requests = cmd.requests
      /\ cmd'.lineFIFO = cmd.lineFIFO
  BY SMTT(20), <1>1, ActorFacts DEF ConsoleInv, ConsoleState, CommandLine
<1>3. console' \in [Actor -> ConsoleActor] /\ console'[ConsoleTask].pc = "idle"
      /\ (\A b \in Actor : console'[b].open = console[b].open)
      /\ \A b \in Actor : b # ConsoleTask => console'[b] = console[b]
  BY SMT, <1>1, ActorFacts DEF ConsoleInv, ConsoleState, ConsoleActor, Places
<1>4. ActorStep(ConsoleTask)
  BY <1>1, <1>2, <1>3, ActorFacts DEF ActorStep, ConsoleInv, ConsoleState
<1>5. InputServed'
  BY <1>1, <1>2, <1>3 DEF ConsoleInv, InputServed, Serving
<1>. QED BY <1>4, <1>5, ActorStepState, ActorFacts DEF ConsoleInv

LEMMA SendLineInv ==
    ASSUME ConsoleInv, sendLine
    PROVE  ConsoleInv'
<1>1. missed' = FALSE /\ console[ConsoleTask].pc = "send"
  BY DEF sendLine
<1>2. \/ /\ cmd' = [cmd EXCEPT !.lineFIFO = @ + 1] /\ cmd.lineFIFO < LineFIFOLength
         /\ console' = [console EXCEPT ![ConsoleTask].count = @ + 1]
      \/ /\ console' = [console EXCEPT ![ConsoleTask].pc = "process", ![ConsoleTask].count = 0]
         /\ cmd' = cmd
  BY DEF sendLine
<1>3. cmd' \in CommandLine /\ cmd'.listenerCount = cmd.listenerCount
  BY SMT, <1>2, ActorFacts DEF ConsoleInv, ConsoleState, CommandLine
<1>4. console' \in [Actor -> ConsoleActor] /\ console'[ConsoleTask].pc \in {"send", "process"}
      /\ (\A b \in Actor : console'[b].open = console[b].open)
      /\ \A b \in Actor : b # ConsoleTask => console'[b] = console[b]
  BY SMT, <1>1, <1>2, ActorFacts DEF ConsoleInv, ConsoleState, ConsoleActor, Places
<1>5. ActorStep(ConsoleTask)
  BY <1>1, <1>3, <1>4, ActorFacts DEF ActorStep, ConsoleInv, ConsoleState
<1>6. InputServed'
  BY <1>4, ActorFacts DEF InputServed, Serving
<1>. QED BY <1>5, <1>6, ActorStepState, ActorFacts DEF ConsoleInv

LEMMA FinishedFacts ==
    ASSUME ConsoleState, NEW a \in Actor
    PROVE  /\ Finished(a) \in [Actor -> ConsoleActor] /\ Finished(a)[a].pc = "idle"
           /\ Finished(a)[a].open = console[a].open
           /\ \A b \in Actor : b # a => Finished(a)[b] = console[b]
<1>. DEFINE c1 == [console EXCEPT ![a].pc = "idle"]
            c2 == [c1 EXCEPT ![a].serves = NoReader]
            c3 == [c2 EXCEPT ![a].count = 0]
<1>1. c1 \in [Actor -> ConsoleActor] /\ c1[a].pc = "idle" /\ c1[a].open = console[a].open
      /\ \A b \in Actor : b # a => c1[b] = console[b]
  BY SMT DEF ConsoleState, ConsoleActor, Places
<1>. HIDE DEF c1
<1>2. c2 \in [Actor -> ConsoleActor] /\ c2[a].pc = "idle" /\ c2[a].open = console[a].open
      /\ \A b \in Actor : b # a => c2[b] = console[b]
  BY <1>1 DEF ConsoleActor
<1>. HIDE DEF c2
<1>3. c3 \in [Actor -> ConsoleActor] /\ c3[a].pc = "idle" /\ c3[a].open = console[a].open
      /\ \A b \in Actor : b # a => c3[b] = console[b]
  BY <1>2 DEF ConsoleActor
<1>4. Finished(a) = c3
  BY DEF Finished, c1, c2
<1>. QED BY <1>3, <1>4

LEMMA TakeRequestInv ==
    ASSUME ConsoleInv, NEW a \in Actor, takeRequest(a)
    PROVE  ConsoleInv'
<1>1. missed' = missed /\ console[a].pc = "process"
  BY DEF takeRequest
<1>2. CASE cmd.requests = <<>>
  <2>1. console' = Finished(a) /\ cmd' = [cmd EXCEPT !.lineEnd = LineEnd(a)]
    BY <1>2 DEF takeRequest
  <2>2. cmd' \in CommandLine /\ cmd'.listenerCount = cmd.listenerCount /\ cmd'.requests = <<>>
        /\ cmd'.lineEnd = LineEnd(a)
    BY SMT, <1>2, <2>1, ActorFacts DEF ConsoleInv, ConsoleState, CommandLine, LineEnd
  <2>3. console' \in [Actor -> ConsoleActor] /\ console'[a].pc = "idle"
        /\ (\A b \in Actor : console'[b].open = console[b].open)
        /\ \A b \in Actor : b # a => console'[b] = console[b]
    BY <2>1, FinishedFacts DEF ConsoleInv
  <2>4. ActorStep(a)
    BY SMTT(20), <1>1, <2>2, <2>3, ActorFacts DEF ActorStep, LineEnd, ConsoleInv, ConsoleState
  <2>5. InputServed'
    BY <2>2 DEF InputServed
  <2>. QED BY <2>4, <2>5, ActorStepState DEF ConsoleInv
<1>3. CASE cmd.requests # <<>>
  <2>1. cmd' = [cmd EXCEPT !.requests = Tail(@)]
        /\ console' = [console EXCEPT ![a].pc = "read", ![a].serves = Head(cmd.requests)]
    BY <1>3 DEF takeRequest
  <2>2. cmd.requests \in Seq(ConsoleUser)
    BY DEF ConsoleInv, ConsoleState, CommandLine
  <2>3. Head(cmd.requests) \in ConsoleUser /\ Tail(cmd.requests) \in Seq(ConsoleUser)
    BY SMT, <1>3, <2>2
  <2>4. cmd' \in CommandLine /\ cmd'.listenerCount = cmd.listenerCount /\ cmd'.lineEnd = cmd.lineEnd
    BY <2>1, <2>3 DEF ConsoleInv, ConsoleState, CommandLine
  <2>5. console' \in [Actor -> ConsoleActor] /\ console'[a].pc = "read" /\ console'[a].serves \in ConsoleUser
        /\ (\A b \in Actor : console'[b].open = console[b].open)
        /\ \A b \in Actor : b # a => console'[b] = console[b]
    <3>1. console \in [Actor -> ConsoleActor] /\ console[a] \in ConsoleActor
      BY DEF ConsoleInv, ConsoleState
    <3>. DEFINE e == [console[a] EXCEPT !.pc = "read", !.serves = Head(cmd.requests)]
    <3>2. e \in ConsoleActor /\ e.pc = "read" /\ e.serves \in ConsoleUser /\ e.open = console[a].open
      BY <2>3, <3>1 DEF ConsoleActor, Places
    <3>3. console' = [console EXCEPT ![a] = e]
      BY <2>1
    <3>. HIDE DEF e
    <3>. QED BY <3>1, <3>2, <3>3
  <2>6. ActorStep(a)
    BY <1>1, <2>4, <2>5 DEF ActorStep, ConsoleInv, ConsoleState
  <2>7. InputServed'
    BY <2>5 DEF InputServed, Serving
  <2>. QED BY <2>6, <2>7, ActorStepState DEF ConsoleInv
<1>. QED BY <1>2, <1>3

LEMMA ReadLineFIFOInv ==
    ASSUME ConsoleInv, NEW a \in Actor, readLineFIFO(a)
    PROVE  ConsoleInv'
<1>1. missed' = missed /\ console[a].pc = "read" /\ Serves(a) \in Actor /\ console[a].serves \in ConsoleUser
  BY ActorFacts DEF readLineFIFO, Serves, ConsoleInv, ConsoleState
<1>2. \/ /\ cmd' = [cmd EXCEPT !.lineFIFO = @ - 1] /\ cmd.lineFIFO > 0
         /\ console' = [console EXCEPT ![a].count = @ + 1]
      \/ cmd' = cmd /\ console' = completeConsoleRequest(a)
      \/ cmd' = cmd /\ console' = [console EXCEPT ![a].pc = "return"]
  BY DEF readLineFIFO
<1>3. cmd' \in CommandLine /\ cmd'.listenerCount = cmd.listenerCount /\ cmd'.lineEnd = cmd.lineEnd
  BY SMTT(20), <1>2, ActorFacts DEF ConsoleInv, ConsoleState, CommandLine
<1>4. console' \in [Actor -> ConsoleActor] /\ console'[a].pc \in {"read", "process", "return"}
      /\ (console'[a].pc \in {"read", "return"} => console'[a].serves = console[a].serves)
      /\ (\A b \in Actor : console'[b].open = console[b].open)
      /\ \A b \in Actor : b # a => console'[b].pc = console[b].pc /\ console'[b].serves = console[b].serves
  <2>1. CASE console' = [console EXCEPT ![a].count = @ + 1]
    BY SMT, <1>1, <2>1 DEF ConsoleInv, ConsoleState, ConsoleActor, Places
  <2>2. CASE console' = completeConsoleRequest(a)
    <3>. DEFINE c1 == [console EXCEPT ![Serves(a)].reads = FALSE]
                c2 == [c1 EXCEPT ![a].pc = "process"]
                c3 == [c2 EXCEPT ![a].serves = NoReader]
                c4 == [c3 EXCEPT ![a].count = 0]
                Same(c) == \A b \in Actor : /\ c[b].open = console[b].open
                                            /\ b # a => c[b].pc = console[b].pc /\ c[b].serves = console[b].serves
    <3>1. c1 \in [Actor -> ConsoleActor] /\ Same(c1)
      BY <1>1 DEF ConsoleInv, ConsoleState, ConsoleActor
    <3>. HIDE DEF c1
    <3>2. c2 \in [Actor -> ConsoleActor] /\ Same(c2) /\ c2[a].pc = "process"
      BY SMT, <3>1 DEF ConsoleActor, Places
    <3>. HIDE DEF c2
    <3>3. c3 \in [Actor -> ConsoleActor] /\ Same(c3) /\ c3[a].pc = "process"
      BY SMT, <3>2 DEF ConsoleActor
    <3>. HIDE DEF c3
    <3>4. c4 \in [Actor -> ConsoleActor] /\ Same(c4) /\ c4[a].pc = "process"
      BY <3>3 DEF ConsoleActor
    <3>5. completeConsoleRequest(a) = c4
      BY DEF completeConsoleRequest, c1, c2, c3
    <3>. QED BY <2>2, <3>4, <3>5
  <2>3. CASE console' = [console EXCEPT ![a].pc = "return"]
    BY ZenonT(30), <1>1, <2>3 DEF ConsoleInv, ConsoleState, ConsoleActor, Places
  <2>. QED BY <1>2, <2>1, <2>2, <2>3
<1>5. ActorStep(a)
  BY <1>1, <1>3, <1>4 DEF ActorStep, ConsoleInv, ConsoleState
<1>6. InputServed'
  BY <1>4 DEF InputServed, Serving
<1>. QED BY <1>5, <1>6, ActorStepState DEF ConsoleInv

LEMMA ReturnRequestInv ==
    ASSUME ConsoleInv, NEW a \in Actor, returnRequest(a)
    PROVE  ConsoleInv'
<1>1. console[a].pc = "return" /\ console' = Finished(a) /\ missed' = (missed \/ cmd.lineFIFO > 0)
      /\ cmd' = [cmd EXCEPT !.requests = <<Serves(a)>> \o @, !.lineEnd = LineEnd(a)]
  BY DEF returnRequest
<1>2. Serves(a) \in ConsoleUser /\ cmd.requests \in Seq(ConsoleUser)
  BY <1>1 DEF Serves, ConsoleInv, ConsoleState, CommandLine
<1>3. <<Serves(a)>> \o cmd.requests \in Seq(ConsoleUser)
  BY SMT, <1>2
<1>4. LineEnd(a) \in 0..MaxLine
  BY SMT, ActorFacts DEF LineEnd, ConsoleInv, ConsoleState, CommandLine
<1>5. cmd' \in CommandLine /\ cmd'.listenerCount = cmd.listenerCount /\ cmd'.lineFIFO = cmd.lineFIFO
      /\ cmd'.lineEnd = LineEnd(a)
  BY <1>1, <1>3, <1>4 DEF ConsoleInv, ConsoleState, CommandLine
<1>6. console' \in [Actor -> ConsoleActor] /\ console'[a].pc = "idle"
      /\ (\A b \in Actor : console'[b].open = console[b].open)
      /\ \A b \in Actor : b # a => console'[b] = console[b]
  BY <1>1, FinishedFacts DEF ConsoleInv
<1>7. ActorStep(a)
  BY SMTT(20), <1>1, <1>5, <1>6, ActorFacts DEF ActorStep, LineEnd, ConsoleInv, ConsoleState
<1>8. InputServed'
  BY <1>1, <1>5 DEF InputServed
<1>. QED BY <1>7, <1>8, ActorStepState DEF ConsoleInv

LEMMA ReadConsoleInv ==
    ASSUME ConsoleInv, NEW u \in ConsoleUser, NEW size \in BufferSizes, readConsole(u, size)
    PROVE  ConsoleInv'
<1>1. console[u].pc = "idle" /\ missed' = FALSE /\ cmd' = [cmd EXCEPT !.requests = <<u>> \o @]
      /\ console' = [console EXCEPT ![u].pc = "process", ![u].reads = TRUE, ![u].size = size]
  BY DEF readConsole
<1>2. <<u>> \o cmd.requests \in Seq(ConsoleUser)
  BY SMT DEF ConsoleInv, ConsoleState, CommandLine
<1>3. cmd' \in CommandLine /\ cmd'.listenerCount = cmd.listenerCount /\ cmd'.lineEnd = cmd.lineEnd
  BY <1>1, <1>2 DEF ConsoleInv, ConsoleState, CommandLine
<1>4. console' \in [Actor -> ConsoleActor] /\ console'[u].pc = "process"
      /\ (\A b \in Actor : console'[b].open = console[b].open)
      /\ \A b \in Actor : b # u => console'[b] = console[b]
  <2>. DEFINE c1 == [console EXCEPT ![u].pc = "process"]
              c2 == [c1 EXCEPT ![u].reads = TRUE]
              c3 == [c2 EXCEPT ![u].size = size]
              Same(c) == (\A b \in Actor : c[b].open = console[b].open)
                         /\ \A b \in Actor : b # u => c[b] = console[b]
  <2>0. u \in Actor
    BY ActorFacts
  <2>1. c1 \in [Actor -> ConsoleActor] /\ Same(c1) /\ c1[u].pc = "process"
    BY SMT, <2>0 DEF ConsoleInv, ConsoleState, ConsoleActor, Places
  <2>. HIDE DEF c1
  <2>2. c2 \in [Actor -> ConsoleActor] /\ Same(c2) /\ c2[u].pc = "process"
    BY <2>0, <2>1 DEF ConsoleActor
  <2>. HIDE DEF c2
  <2>3. c3 \in [Actor -> ConsoleActor] /\ Same(c3) /\ c3[u].pc = "process"
    BY <2>0, <2>2 DEF ConsoleActor
  <2>4. console' = c3
    BY <1>1 DEF c1, c2
  <2>. QED BY <2>3, <2>4
<1>5. ActorStep(u)
  BY <1>1, <1>3, <1>4, ActorFacts DEF ActorStep, ConsoleInv, ConsoleState
<1>6. InputServed'
  BY <1>4, ActorFacts DEF InputServed, Serving
<1>. QED BY <1>5, <1>6, ActorStepState, ActorFacts DEF ConsoleInv

LEMMA FlushLineFIFOInv ==
    ASSUME ConsoleInv, NEW u \in ConsoleUser, flushLineFIFO(u)
    PROVE  ConsoleInv'
<1>1. console[u].pc = "flush" /\ missed' = missed
  BY DEF flushLineFIFO
<1>2. \/ cmd.lineFIFO > 0 /\ cmd' = [cmd EXCEPT !.lineFIFO = @ - 1] /\ console' = console
      \/ ~(cmd.lineFIFO > 0) /\ cmd' = cmd /\ console' = [console EXCEPT ![u].pc = "idle"]
  BY DEF flushLineFIFO, ConsoleGoto
<1>3. cmd' \in CommandLine /\ cmd'.listenerCount = cmd.listenerCount /\ cmd'.lineEnd = cmd.lineEnd
  BY SMTT(20), <1>2, ActorFacts DEF ConsoleInv, ConsoleState, CommandLine
<1>4. console' \in [Actor -> ConsoleActor] /\ console'[u].pc \in {"flush", "idle"}
      /\ (console'[u].pc = "idle" => ~(cmd'.lineFIFO > 0))
      /\ (\A b \in Actor : console'[b].open = console[b].open)
      /\ \A b \in Actor : b # u => console'[b] = console[b]
  BY SMT, <1>1, <1>2, ActorFacts DEF ConsoleInv, ConsoleState, ConsoleActor, Places
<1>5. ActorStep(u)
  BY <1>1, <1>3, <1>4, ActorFacts DEF ActorStep, ConsoleInv, ConsoleState
<1>6. InputServed'
  BY <1>4, ActorFacts DEF InputServed, Serving
<1>. QED BY <1>5, <1>6, ActorStepState, ActorFacts DEF ConsoleInv

LEMMA OpenConsoleInv ==
    ASSUME ConsoleInv, NEW u \in ConsoleUser, openConsole(u)
    PROVE  ConsoleInv'
<1>1. console[u].pc = "idle" /\ ~console[u].open /\ missed' = missed
      /\ cmd' = [cmd EXCEPT !.listenerCount = @ + 1] /\ console' = [console EXCEPT ![u].open = TRUE]
  BY DEF openConsole
<1>2. cmd' \in CommandLine /\ cmd'.listenerCount = cmd.listenerCount + 1 /\ cmd'.lineEnd = cmd.lineEnd
      /\ cmd'.requests = cmd.requests /\ cmd'.lineFIFO = cmd.lineFIFO
  BY SMT, <1>1 DEF ConsoleInv, ConsoleState, CommandLine
<1>3. console' \in [Actor -> ConsoleActor] /\ console'[u].open
      /\ (\A b \in Actor : console'[b].pc = console[b].pc /\ console'[b].serves = console[b].serves)
      /\ \A b \in Actor : b # u => console'[b].open = console[b].open
  <2>1. console \in [Actor -> ConsoleActor] /\ console[u] \in ConsoleActor /\ u \in Actor
    BY ActorFacts DEF ConsoleInv, ConsoleState
  <2>. DEFINE e == [console[u] EXCEPT !.open = TRUE]
  <2>2. e \in ConsoleActor /\ e.open /\ e.pc = console[u].pc /\ e.serves = console[u].serves
    BY <2>1 DEF ConsoleActor
  <2>3. console' = [console EXCEPT ![u] = e]
    BY <1>1
  <2>. HIDE DEF e
  <2>. QED BY <2>1, <2>2, <2>3
<1>4. Openers' = Openers \cup {u} /\ u \notin Openers
  BY <1>1, <1>3, ActorFacts DEF Openers
<1>5. Cardinality(Openers') = Cardinality(Openers) + 1
  BY <1>4, OpenersFinite, FS_AddElement
<1>6. ConsoleState'
  BY <1>1, <1>2, <1>3, <1>5, ActorFacts DEF ConsoleInv, ConsoleState
<1>7. InputServed'
  BY <1>1, <1>2, <1>3 DEF ConsoleInv, InputServed
<1>. QED BY <1>6, <1>7 DEF ConsoleInv

LEMMA CloseConsoleInv ==
    ASSUME ConsoleInv, NEW u \in ConsoleUser, closeConsole(u)
    PROVE  ConsoleInv'
<1>. DEFINE pc == IF cmd.listenerCount = 1 THEN "flush" ELSE "idle"
<1>1. console[u].pc = "idle" /\ console[u].open /\ missed' = missed
      /\ cmd' = [cmd EXCEPT !.listenerCount = @ - 1]
      /\ console' = [console EXCEPT ![u].open = FALSE, ![u].pc = pc]
  BY DEF closeConsole
<1>2. u \in Openers
  BY <1>1 DEF Openers
<1>3. Cardinality(Openers \ {u}) = Cardinality(Openers) - 1 /\ Cardinality(Openers) \in Nat
      /\ Cardinality(Openers \ {u}) \in Nat
  BY <1>2, OpenersFinite, FS_RemoveElement, FS_CardinalityType
<1>4. cmd' \in CommandLine /\ cmd'.listenerCount = cmd.listenerCount - 1 /\ cmd'.lineEnd = cmd.lineEnd
      /\ cmd'.requests = cmd.requests /\ cmd'.lineFIFO = cmd.lineFIFO
  BY <1>1, <1>3 DEF ConsoleInv, ConsoleState, CommandLine
<1>5. console' \in [Actor -> ConsoleActor] /\ ~console'[u].open /\ console'[u].pc \in {"flush", "idle"}
      /\ \A b \in Actor : b # u => console'[b] = console[b]
  <2>. DEFINE c1 == [console EXCEPT ![u].open = FALSE]
              c2 == [c1 EXCEPT ![u].pc = pc]
  <2>0. u \in Actor /\ pc \in {"flush", "idle"}
    BY ActorFacts
  <2>1. c1 \in [Actor -> ConsoleActor] /\ ~c1[u].open /\ \A b \in Actor : b # u => c1[b] = console[b]
    BY <2>0 DEF ConsoleInv, ConsoleState, ConsoleActor
  <2>. HIDE DEF c1, pc
  <2>2. /\ c2 \in [Actor -> ConsoleActor] /\ ~c2[u].open /\ c2[u].pc = pc
        /\ \A b \in Actor : b # u => c2[b] = console[b]
    BY SMT, <2>0, <2>1 DEF ConsoleActor, Places
  <2>3. console' = c2
    BY <1>1 DEF c1
  <2>. QED BY <2>0, <2>2, <2>3
<1>6. Openers' = Openers \ {u}
  BY <1>5, ActorFacts DEF Openers
<1>7. ConsoleState'
  BY ZenonT(30), <1>1, <1>3, <1>4, <1>5, <1>6, ActorFacts DEF ConsoleInv, ConsoleState
<1>8. InputServed'
  BY <1>1, <1>4, <1>5, ActorFacts DEF ConsoleInv, InputServed, Serving
<1>. QED BY <1>7, <1>8 DEF ConsoleInv

LEMMA StutterConsoleInv ==
    ASSUME ConsoleInv, UNCHANGED consoleVars
    PROVE  ConsoleInv'
BY DEF ConsoleInv, ConsoleState, InputServed, Openers, consoleVars

LEMMA ConsoleNextInv == ConsoleInv /\ [ConsoleNext]_<<consoleVars, displayVars>> => ConsoleInv'
<1>. SUFFICES ASSUME ConsoleInv, [ConsoleNext]_<<consoleVars, displayVars>> PROVE ConsoleInv'
  OBVIOUS
<1>1. CASE UNCHANGED <<consoleVars, displayVars>>
  BY <1>1, StutterConsoleInv
<1>2. CASE \E u \in ConsoleUser, s \in Texts : writeConsole(u, s)
  BY <1>2, StutterConsoleInv DEF writeConsole
<1>3. CASE \E u \in ConsoleUser : openConsole(u) \/ closeConsole(u) \/ flushLineFIFO(u)
  BY <1>3, OpenConsoleInv, CloseConsoleInv, FlushLineFIFOInv
<1>4. CASE \E u \in ConsoleUser, size \in BufferSizes : readConsole(u, size)
  BY <1>4, ReadConsoleInv
<1>5. CASE \E a \in Actor : takeRequest(a) \/ readLineFIFO(a) \/ returnRequest(a)
  BY <1>5, TakeRequestInv, ReadLineFIFOInv, ReturnRequestInv
<1>6. CASE \/ \E key \in Typed : printHandler(key)
           \/ backspaceHandler \/ enterHandler \/ countListeners \/ sendLine
           \/ \E s \in Texts, created \in BOOLEAN : parseCommand(s, created)
  BY <1>6, PrintHandlerInv, BackspaceInv, EnterInv, CountListenersInv, SendLineInv, ParseCommandInv
<1>. QED BY <1>1, <1>2, <1>3, <1>4, <1>5, <1>6 DEF ConsoleNext

\* Whatever the order in which users open, read, write and close the console and lines are
\* entered, a read request waits beside characters of lineFIFO only while some task is
\* about to serve it (processConsoleInput) or was overtaken by a line; the line never
\* outgrows its buffer and listenerCount is at most the number of users, for any number of
\* them and any length of a line and of lineFIFO.
THEOREM NoReadEverWaitsBesideInput == ConsoleSpec => []NoReadWaitsBesideInput
<1>1. ConsoleInv => NoReadWaitsBesideInput
  <2>. SUFFICES ASSUME ConsoleInv PROVE NoReadWaitsBesideInput
    OBVIOUS
  <2>1. ConsoleTypeOK
    BY OpenersFinite DEF ConsoleInv, ConsoleState, CommandLine, ConsoleActor, ConsoleTypeOK
  <2>. QED BY <2>1 DEF NoReadWaitsBesideInput, ConsoleInv, InputServed, Serving
<1>. QED BY <1>1, InitConsoleInv, ConsoleNextInv, PTL DEF ConsoleSpec

-----------------------------------------------------------------------------
(* The FIFO of tasks and interrupt handlers *)

----------------------------------------------------------------------------
\* Index arithmetic

LEMMA ModOnce ==
    ASSUME NEW n \in Nat \ {0}, NEW i \in 0..(2 * n - 1)
    PROVE  i % n = IF i < n THEN i ELSE i - n
<1>1. CASE i < n
  BY SMT, <1>1
<1>2. CASE i >= n
  BY SMT, <1>2
<1>. QED BY SMT, <1>1, <1>2

LEMMA LengthType == bufferLength \in Nat \ {0}
BY FIFOAssumption

LEMMA IndexOnce ==
    ASSUME NEW i \in 0..(2 * bufferLength - 1)
    PROVE  Index(i) = IF i < bufferLength THEN i ELSE i - bufferLength
BY ModOnce, LengthType DEF Index

LEMMA IndexType ==
    ASSUME NEW i \in Nat
    PROVE  Index(i) \in 0..(bufferLength - 1)
BY SMT, LengthType DEF Index

----------------------------------------------------------------------------
\* The inductive invariant

IInv == TypeOK /\ SemInv /\ ReaderStatus /\ PermitsMatchElements

LEMMA CountsFinite ==
    /\ IsFiniteSet(Releasing) /\ Cardinality(Releasing) \in Nat
    /\ IsFiniteSet(Permitted) /\ Cardinality(Permitted) \in Nat
<1>1. IsFiniteSet(Releasing)
  BY FS_Subset, FIFOAssumption DEF Releasing
<1>2. IsFiniteSet(Permitted)
  BY FS_Subset, FIFOAssumption DEF Permitted
<1>. QED BY <1>1, <1>2, FS_CardinalityType

\* A reader that owns a permit is counted, so there is an element for it.
LEMMA PermittedHasElement ==
    ASSUME IInv, NEW r \in Permitted
    PROVE  dataLength > 0
<1>1. Cardinality(Permitted) # 0
  BY CountsFinite, FS_EmptySet
<1>. QED BY SMT, <1>1, CountsFinite DEF IInv, TypeOK, SemTypeOK, PermitsMatchElements

LEMMA InitIInv == Init => IInv
<1>. SUFFICES ASSUME Init PROVE IInv
  OBVIOUS
<1>1. TypeOK /\ SemInv /\ ReaderStatus
  BY SMT, SemInitInv, FIFOAssumption
     DEF Init, TypeOK, SemInit, SemInv, ReaderStatus, ReaderStep
<1>2. Releasing = {} /\ Permitted = {}
  BY DEF Init, SemInit, Releasing, Permitted
<1>3. PermitsMatchElements
  BY SMTT(20), <1>2, FS_EmptySet, FIFOAssumption DEF Init, SemInit, PermitsMatchElements
<1>. QED BY <1>1, <1>3 DEF IInv

LEMMA WriteFIFOInv ==
    ASSUME IInv, NEW w \in Writer, NEW d \in Data, WriteFIFO(w, d)
    PROVE  IInv'
<1>1. SemInv'
  BY SemStutterInv DEF IInv, WriteFIFO
<1>2. TypeOK' /\ ReaderStatus'
  <2>1. Index(begin + dataLength) \in 0..(bufferLength - 1)
    BY SMT, IndexType, LengthType DEF IInv, TypeOK
  <2>2. dataLength' \in 0..bufferLength
    BY SMT, LengthType DEF IInv, TypeOK, WriteFIFO, Store
  <2>. QED
    BY <2>1, <2>2 DEF IInv, TypeOK, SemTypeOK, ReaderStatus, WriteFIFO, Store, semVars
<1>3. Permitted' = Permitted /\ Releasing' = Releasing \cup {w} /\ w \notin Releasing
  BY DEF IInv, TypeOK, WriteFIFO, semVars, Permitted, Releasing
<1>4. Cardinality(Releasing') = Cardinality(Releasing) + 1
  BY <1>3, CountsFinite, FS_AddElement
<1>5. PermitsMatchElements'
  BY SMTT(20), <1>3, <1>4, CountsFinite
     DEF IInv, TypeOK, SemTypeOK, PermitsMatchElements, WriteFIFO, Store, semVars
<1>. QED BY <1>1, <1>2, <1>5 DEF IInv

LEMMA OverwriteFIFOInv ==
    ASSUME IInv, NEW w \in Writer, NEW d \in Data, OverwriteFIFO(w, d)
    PROVE  IInv'
<1>1. SemInv'
  BY SemStutterInv DEF IInv, OverwriteFIFO
<1>2. TypeOK' /\ ReaderStatus'
  <2>1. /\ Index(begin + 1) \in 0..(bufferLength - 1)
        /\ Index(begin + 1 + (dataLength - 1)) \in 0..(bufferLength - 1)
    BY SMTT(20), IndexType, LengthType DEF IInv, TypeOK, OverwriteFIFO
  <2>. QED
    BY <2>1 DEF IInv, TypeOK, SemTypeOK, ReaderStatus, OverwriteFIFO, semVars
<1>3. Permitted' = Permitted /\ Releasing' = Releasing
  BY DEF OverwriteFIFO, semVars, Permitted, Releasing
<1>4. PermitsMatchElements'
  BY <1>3 DEF IInv, PermitsMatchElements, OverwriteFIFO, semVars
<1>. QED BY <1>1, <1>2, <1>4 DEF IInv

LEMMA WriterReleaseInv ==
    ASSUME IInv, NEW w \in Writer, WriterRelease(w)
    PROVE  IInv'
<1>1. SemInv'
  BY ReleaseInv DEF IInv, WriterRelease
<1>2. Releasing' = Releasing \ {w} /\ w \in Releasing
  BY DEF IInv, TypeOK, WriterRelease, Releasing
<1>3. Cardinality(Releasing') = Cardinality(Releasing) - 1
  BY <1>2, CountsFinite, FS_RemoveElement
<1>4. CASE taskQueue = <<>>
  <2>1. quota' = quota + 1 /\ UNCHANGED <<taskQueue, status>>
    BY <1>4 DEF WriterRelease, Release
  <2>2. TypeOK' /\ ReaderStatus' /\ Permitted' = Permitted
    BY <1>1, <2>1
       DEF IInv, TypeOK, SemInv, ReaderStatus, WriterRelease, Permitted, fifoVars
  <2>3. PermitsMatchElements'
    BY SMTT(20), <1>3, <2>1, <2>2, CountsFinite
       DEF IInv, TypeOK, SemTypeOK, PermitsMatchElements, WriterRelease, fifoVars
  <2>. QED BY <1>1, <2>2, <2>3 DEF IInv
<1>5. CASE taskQueue # <<>>
  <2>. DEFINE h == Head(taskQueue)
  <2>1. h \in Task /\ h = taskQueue[1] /\ 1 \in 1..Len(taskQueue)
    <3>1. taskQueue \in Seq(Task)
      BY DEF IInv, SemInv, SemTypeOK
    <3>2. h \in Task /\ h = taskQueue[1] /\ Len(taskQueue) \in Nat \ {0}
      BY <1>5, <3>1, TailFacts
    <3>. QED BY SMT, <3>2
  <2>2. quota' = quota /\ status' = [status EXCEPT ![h] = "granted"]
    BY <1>5 DEF WriterRelease, Release
  <2>3. status[h] = "waiting" /\ readerPC[h] = "acquire"
    BY SMT, <2>1 DEF IInv, SemInv, QueueHoldsWaiters, ReaderStatus
  <2>4. TypeOK' /\ ReaderStatus'
    BY <1>1, <2>1, <2>2, <2>3
       DEF IInv, TypeOK, SemInv, SemTypeOK, ReaderStatus, WriterRelease, fifoVars
  <2>5. Permitted' = Permitted \cup {h} /\ h \notin Permitted
    BY <2>1, <2>2, <2>3 DEF IInv, TypeOK, SemTypeOK, Permitted, WriterRelease
  <2>6. Cardinality(Permitted') = Cardinality(Permitted) + 1
    BY <2>5, CountsFinite, FS_AddElement
  <2>7. PermitsMatchElements'
    BY SMTT(20), <1>3, <2>2, <2>6, CountsFinite
       DEF IInv, TypeOK, SemTypeOK, PermitsMatchElements, WriterRelease, fifoVars
  <2>. QED BY <1>1, <2>4, <2>7 DEF IInv
<1>. QED BY <1>4, <1>5

\* A reader that takes a permit from quota becomes one more permitted reader.
LEMMA TakePermitInv ==
    ASSUME IInv, NEW r \in Task, NEW pc \in {"read", "readNonBlock"},
           readerPC[r] = "idle", AcquirePermit(r),
           readerPC' = [readerPC EXCEPT ![r] = pc],
           UNCHANGED <<fifoVars, writerPC, received>>
    PROVE  IInv'
<1>1. SemInv'
  BY AcquirePermitInv DEF IInv
<1>2. TypeOK' /\ ReaderStatus'
  BY <1>1 DEF IInv, TypeOK, SemInv, ReaderStatus, ReaderStep, AcquirePermit, fifoVars
<1>3. Permitted' = Permitted \cup {r} /\ r \notin Permitted /\ Releasing' = Releasing
  BY DEF IInv, TypeOK, Permitted, Releasing, AcquirePermit
<1>4. Cardinality(Permitted') = Cardinality(Permitted) + 1
  BY <1>3, CountsFinite, FS_AddElement
<1>5. PermitsMatchElements'
  BY SMT, <1>3, <1>4, CountsFinite
     DEF IInv, TypeOK, SemTypeOK, PermitsMatchElements, AcquirePermit, fifoVars
<1>. QED BY <1>1, <1>2, <1>5 DEF IInv

LEMMA ReadFIFOInv ==
    ASSUME IInv, NEW r \in Task, ReadFIFO(r)
    PROVE  IInv'
<1>1. CASE AcquirePermit(r) /\ readerPC' = [readerPC EXCEPT ![r] = "read"]
  BY <1>1, TakePermitInv DEF ReadFIFO
<1>2. CASE Block(r) /\ readerPC' = [readerPC EXCEPT ![r] = "acquire"]
  <2>1. SemInv'
    BY <1>2, BlockInv DEF IInv
  <2>2. TypeOK' /\ ReaderStatus'
    BY <1>2, <2>1
       DEF IInv, TypeOK, SemInv, SemTypeOK, ReaderStatus, ReaderStep, ReadFIFO, Block,
           fifoVars
  <2>3. Permitted' = Permitted /\ Releasing' = Releasing
    BY <1>2 DEF IInv, TypeOK, SemTypeOK, Permitted, Releasing, ReadFIFO, Block
  <2>4. PermitsMatchElements'
    BY <1>2, <2>3 DEF IInv, PermitsMatchElements, ReadFIFO, Block, fifoVars
  <2>. QED BY <2>1, <2>2, <2>4 DEF IInv
<1>. QED BY <1>1, <1>2 DEF ReadFIFO

LEMMA ReadFIFONonBlockInv ==
    ASSUME IInv, NEW r \in Task, ReadFIFONonBlock(r)
    PROVE  IInv'
BY TakePermitInv DEF ReadFIFONonBlock

LEMMA ReaderResumesInv ==
    ASSUME IInv, NEW r \in Task, ReaderResumes(r)
    PROVE  IInv'
<1>1. SemInv'
  BY ReturnFromBlockInv DEF IInv, ReaderResumes
<1>2. TypeOK' /\ ReaderStatus'
  BY <1>1
     DEF IInv, TypeOK, SemInv, SemTypeOK, ReaderStatus, ReaderStep, ReaderResumes,
         ReturnFromBlock, fifoVars
<1>3. Permitted' = Permitted /\ Releasing' = Releasing
  BY DEF IInv, TypeOK, SemTypeOK, Permitted, Releasing, ReaderResumes, ReturnFromBlock
<1>4. PermitsMatchElements'
  BY <1>3 DEF IInv, PermitsMatchElements, ReaderResumes, ReturnFromBlock, fifoVars
<1>. QED BY <1>1, <1>2, <1>4 DEF IInv

LEMMA TakeElementInv ==
    ASSUME IInv, NEW r \in Task, TakeElement(r)
    PROVE  IInv'
<1>1. SemInv'
  BY SemStutterInv DEF IInv, TakeElement
<1>2. r \in Permitted /\ status[r] = "out"
  BY DEF IInv, TypeOK, SemTypeOK, Status, ReaderStatus, Permitted, TakeElement
<1>3. dataLength > 0
  BY <1>2, PermittedHasElement
<1>4. /\ received' = [received EXCEPT ![r] = buffer[Index(begin)]]
      /\ begin' = Index(begin + 1)
      /\ dataLength' = dataLength - 1
      /\ buffer' = buffer
  BY SMT, <1>3 DEF TakeElement, dequeueBuffer
<1>5. TypeOK' /\ ReaderStatus'
  <2>1. Index(begin + 1) \in 0..(bufferLength - 1) /\ Index(begin) \in 0..(bufferLength - 1)
    BY SMTT(20), IndexType, LengthType DEF IInv, TypeOK
  <2>2. dataLength' \in 0..bufferLength
    BY SMT, <1>3, <1>4, LengthType DEF IInv, TypeOK
  <2>. QED
    BY <1>2, <1>4, <2>1, <2>2
       DEF IInv, TypeOK, SemTypeOK, ReaderStatus, ReaderStep, TakeElement, semVars
<1>6. Permitted' = Permitted \ {r} /\ Releasing' = Releasing
  BY <1>2 DEF IInv, TypeOK, Permitted, Releasing, TakeElement, semVars
<1>7. Cardinality(Permitted') = Cardinality(Permitted) - 1
  BY <1>2, <1>6, CountsFinite, FS_RemoveElement
<1>8. PermitsMatchElements'
  BY SMTT(20), <1>4, <1>6, <1>7, CountsFinite
     DEF IInv, TypeOK, SemTypeOK, PermitsMatchElements, TakeElement, semVars
<1>. QED BY <1>1, <1>5, <1>8 DEF IInv

LEMMA StutterIInv ==
    ASSUME IInv, UNCHANGED vars
    PROVE  IInv'
<1>1. SemInv'
  BY SemStutterInv DEF IInv, vars
<1>2. TypeOK' /\ ReaderStatus' /\ Permitted' = Permitted /\ Releasing' = Releasing
  BY DEF IInv, TypeOK, SemTypeOK, ReaderStatus, Permitted, Releasing, vars, semVars, fifoVars
<1>3. PermitsMatchElements'
  BY <1>2 DEF IInv, PermitsMatchElements, vars, semVars, fifoVars
<1>. QED BY <1>1, <1>2, <1>3 DEF IInv

LEMMA NextIInv == IInv /\ [Next]_vars => IInv'
BY WriteFIFOInv, OverwriteFIFOInv, WriterReleaseInv, ReadFIFOInv, ReadFIFONonBlockInv,
   ReaderResumesInv, TakeElementInv, StutterIInv
   DEF Next, WriterNext, ReaderNext

THEOREM Invariance == Spec => []IInv
BY InitIInv, NextIInv, PTL DEF Spec

\* The type invariant, for every buffer length, number of readers and of writers.
THEOREM TypeCorrect == Spec => []TypeOK
<1>1. IInv => TypeOK
  BY DEF IInv
<1>. QED BY <1>1, Invariance, PTL

\* Elements and permits stay matched across the two locks.
THEOREM PermitsMatch == Spec => []PermitsMatchElements
<1>1. IInv => PermitsMatchElements
  BY DEF IInv
<1>. QED BY <1>1, Invariance, PTL

\* The assertion r == 1 of readFIFO never fails.
THEOREM ReadAssertion == Spec => []PermittedReaderFindsData
<1>1. IInv => PermittedReaderFindsData
  BY PermittedHasElement DEF PermittedReaderFindsData, Permitted
<1>. QED BY <1>1, Invariance, PTL

\* The limit that _releaseSemaphore asserts is out of reach: there are never more
\* permits, given out or about to be, than elements.
THEOREM ReleaseAssertion == Spec => []QuotaBelowLimit
<1>1. IInv => QuotaBelowLimit
  <2>. SUFFICES ASSUME IInv PROVE QuotaBelowLimit
    OBVIOUS
  <2>1. bufferLength + 1 < MaxQuota /\ MaxQuota \in Nat
    BY FIFOAssumption, SemaphoreAssumption
  <2>. QED
    BY SMT, <2>1, CountsFinite, LengthType
       DEF IInv, TypeOK, SemTypeOK, PermitsMatchElements, QuotaBelowLimit
<1>. QED BY <1>1, Invariance, PTL

----------------------------------------------------------------------------
\* The refinement of BoundedQueue

\* The i-th element lies i - 1 slots after begin, with at most one wrap.
SlotSeq(b, n, buf) == [i \in 1..n |-> buf[Index(b + (i - 1))]]

LEMMA Slots ==
    ASSUME NEW b \in 0..(bufferLength - 1), NEW n \in 0..bufferLength,
           NEW buf \in [0..(bufferLength - 1) -> Data]
    PROVE  /\ SlotSeq(b, n, buf) \in Seq(Data)
           /\ Len(SlotSeq(b, n, buf)) = n
           /\ \A i \in 1..n : SlotSeq(b, n, buf)[i] = buf[Index(b + (i - 1))]
<1>1. \A i \in 1..n : buf[Index(b + (i - 1))] \in Data
  <2>. SUFFICES ASSUME NEW i \in 1..n PROVE buf[Index(b + (i - 1))] \in Data
    OBVIOUS
  <2>1. b + (i - 1) \in Nat
    BY SMT, LengthType
  <2>2. Index(b + (i - 1)) \in 0..(bufferLength - 1)
    BY <2>1, IndexType
  <2>. QED BY <2>2
<1>2. n \in Nat
  BY SMT, LengthType
<1>. QED BY SMT, <1>1, <1>2 DEF SlotSeq

LEMMA ItemsFacts ==
    ASSUME TypeOK
    PROVE  /\ Items \in Seq(Data)
           /\ Len(Items) = dataLength
           /\ \A i \in 1..dataLength : Items[i] = buffer[Index(begin + (i - 1))]
<1>1. Items = SlotSeq(begin, dataLength, buffer)
  BY DEF Items, SlotSeq
<1>2. /\ begin \in 0..(bufferLength - 1)
      /\ dataLength \in 0..bufferLength
      /\ buffer \in [0..(bufferLength - 1) -> Data]
  BY DEF TypeOK
<1>. QED BY ONLY Zenon, <1>1, <1>2, Slots

LEMMA ItemsFactsNext ==
    ASSUME TypeOK'
    PROVE  /\ Items' \in Seq(Data)
           /\ Len(Items') = dataLength'
           /\ \A i \in 1..dataLength' : Items'[i] = buffer'[Index(begin' + (i - 1))]
<1>1. Items' = SlotSeq(begin', dataLength', buffer')
  BY DEF Items, SlotSeq, Index
<1>2. /\ begin' \in 0..(bufferLength - 1)
      /\ dataLength' \in 0..bufferLength
      /\ buffer' \in [0..(bufferLength - 1) -> Data]
  BY DEF TypeOK
<1>. QED BY ONLY Zenon, <1>1, <1>2, Slots

\* Two slots less than bufferLength apart are different slots.
LEMMA SlotsDiffer ==
    ASSUME TypeOK, NEW i \in 0..bufferLength, NEW j \in 0..(bufferLength - 1), j < i,
           i < j + bufferLength
    PROVE  Index(begin + j) # Index(begin + i)
<1>1. CASE begin + i <= 2 * bufferLength - 1
  BY SMTT(20), <1>1, IndexOnce, LengthType DEF TypeOK
<1>2. CASE begin + i > 2 * bufferLength - 1
  BY SMTT(20), <1>2, IndexOnce, LengthType DEF TypeOK
<1>. QED BY SMTT(20), <1>1, <1>2, LengthType DEF TypeOK

\* Advancing begin by one slot shifts every index by one.
LEMMA IndexShift ==
    ASSUME TypeOK, NEW i \in 0..(bufferLength - 1)
    PROVE  Index(Index(begin + 1) + i) = Index(begin + (i + 1))
<1>1. Index(begin + 1) = IF begin + 1 < bufferLength THEN begin + 1 ELSE 0
  <2>1. CASE bufferLength = 1
    BY SMTT(20), <2>1, LengthType DEF Index, TypeOK
  <2>2. CASE bufferLength > 1
    BY SMTT(20), <2>2, IndexOnce, LengthType DEF TypeOK
  <2>. QED BY SMTT(20), <2>1, <2>2, LengthType
<1>2. CASE begin + 1 < bufferLength
  BY SMTT(20), <1>1, <1>2, LengthType DEF TypeOK
<1>3. CASE begin + 1 = bufferLength
  <2>1. Index(0 + i) = i
    BY SMTT(20), IndexOnce, LengthType
  <2>2. begin + (i + 1) \in 0..(2 * bufferLength - 1)
    BY SMTT(20), <1>3, LengthType DEF TypeOK
  <2>3. Index(begin + (i + 1)) = i
    BY SMTT(20), <1>3, <2>2, IndexOnce, LengthType DEF TypeOK
  <2>. QED BY SMTT(20), <1>1, <1>3, <2>1, <2>3, LengthType
<1>. QED BY SMTT(20), <1>2, <1>3, LengthType DEF TypeOK

\* A write puts the element behind the last one and moves no other.
LEMMA StoreAppends ==
    ASSUME IInv, IInv', NEW d \in Data, Store(d)
    PROVE  Items' = Append(Items, d)
<1>1. Items \in Seq(Data) /\ Len(Items) = dataLength
      /\ \A i \in 1..dataLength : Items[i] = buffer[Index(begin + (i - 1))]
  BY ItemsFacts DEF IInv
<1>2. Items' \in Seq(Data) /\ Len(Items') = dataLength + 1
      /\ \A i \in 1..(dataLength + 1) : Items'[i] = buffer'[Index(begin + (i - 1))]
  BY ItemsFactsNext DEF IInv, Store
<1>3. \A i \in 1..dataLength : Items'[i] = Items[i]
  <2>. SUFFICES ASSUME NEW i \in 1..dataLength PROVE Items'[i] = Items[i]
    OBVIOUS
  <2>0. /\ dataLength \in 0..bufferLength /\ i - 1 \in 0..(bufferLength - 1)
        /\ i - 1 < dataLength /\ dataLength < (i - 1) + bufferLength
        /\ begin + (i - 1) \in Nat
    BY SMT, LengthType DEF IInv, TypeOK, Store
  <2>1. Index(begin + (i - 1)) # Index(begin + dataLength)
    BY <2>0, SlotsDiffer DEF IInv
  <2>2. Index(begin + (i - 1)) \in 0..(bufferLength - 1)
    BY <2>0, IndexType
  <2>3. buffer'[Index(begin + (i - 1))] = buffer[Index(begin + (i - 1))]
    BY <2>1, <2>2 DEF IInv, TypeOK, Store
  <2>4. i \in 1..(dataLength + 1)
    BY SMT, LengthType DEF IInv, TypeOK
  <2>. QED BY <1>1, <1>2, <2>3, <2>4
<1>4. Items'[dataLength + 1] = d
  <2>0. begin \in Nat /\ dataLength \in Nat
    BY SMT, LengthType DEF IInv, TypeOK
  <2>1. begin + dataLength \in Nat /\ (dataLength + 1) - 1 = dataLength
    BY SMT, <2>0
  <2>2. Index(begin + dataLength) \in 0..(bufferLength - 1)
    BY <2>1, IndexType
  <2>3. buffer'[Index(begin + dataLength)] = d
    BY <2>2 DEF IInv, TypeOK, Store
  <2>4. dataLength + 1 \in 1..(dataLength + 1)
    BY SMT, <2>0
  <2>. QED BY <1>2, <2>1, <2>3, <2>4
<1>5. /\ Append(Items, d) \in Seq(Data) /\ Len(Append(Items, d)) = dataLength + 1
      /\ \A i \in 1..dataLength : Append(Items, d)[i] = Items[i]
      /\ Append(Items, d)[dataLength + 1] = d
  BY SMTT(20), <1>1, AppendFacts
<1>6. \A i \in 1..Len(Items') : Items'[i] = Append(Items, d)[i]
  <2>1. dataLength \in Nat
    BY SMT, LengthType DEF IInv, TypeOK
  <2>. QED BY SMTT(20), <1>2, <1>3, <1>4, <1>5, <2>1
<1>. QED BY <1>2, <1>5, <1>6, SameSeq

\* Dropping the element at begin leaves the others in order.
LEMMA DequeueTails ==
    ASSUME IInv, IInv', dataLength > 0, dequeueBuffer, buffer' = buffer
    PROVE  /\ Items # <<>>
           /\ Head(Items) = buffer[Index(begin)]
           /\ Items' = Tail(Items)
<1>1. Items \in Seq(Data) /\ Len(Items) = dataLength
      /\ \A i \in 1..dataLength : Items[i] = buffer[Index(begin + (i - 1))]
  BY ItemsFacts DEF IInv
<1>2. Items' \in Seq(Data) /\ Len(Items') = dataLength - 1
      /\ \A i \in 1..(dataLength - 1) : Items'[i] = buffer[Index(Index(begin + 1) + (i - 1))]
  BY ItemsFactsNext DEF IInv, dequeueBuffer
<1>3. dataLength \in 1..bufferLength /\ begin \in Nat
  BY SMT, LengthType DEF IInv, TypeOK
<1>4. \A i \in 1..(dataLength - 1) : Items'[i] = Items[i + 1]
  <2>. SUFFICES ASSUME NEW i \in 1..(dataLength - 1) PROVE Items'[i] = Items[i + 1]
    OBVIOUS
  <2>1. i - 1 \in 0..(bufferLength - 1) /\ (i - 1) + 1 = (i + 1) - 1 /\ i + 1 \in 1..dataLength
    BY SMTT(20), <1>3, LengthType
  <2>2. Index(Index(begin + 1) + (i - 1)) = Index(begin + ((i + 1) - 1))
    BY <2>1, IndexShift DEF IInv
  <2>. QED BY <1>1, <1>2, <2>1, <2>2
<1>5. Items # <<>> /\ Head(Items) = Items[1]
  BY SMT, <1>1, <1>3
<1>6. Items[1] = buffer[Index(begin)]
  <2>1. begin + (1 - 1) = begin /\ 1 \in 1..dataLength
    BY SMT, <1>3
  <2>. QED BY <1>1, <2>1
<1>7. /\ Tail(Items) \in Seq(Data) /\ Len(Tail(Items)) = dataLength - 1
      /\ \A i \in 1..(dataLength - 1) : Tail(Items)[i] = Items[i + 1]
  BY <1>1, <1>3, <1>5, TailFacts
<1>8. Items' = Tail(Items)
  BY <1>2, <1>4, <1>7, SameSeq
<1>. QED BY <1>5, <1>6, <1>8

\* Overwriting a full buffer reuses the slot of the element it drops.
LEMMA OverwriteReplacesOldest ==
    ASSUME IInv, IInv', NEW w \in Writer, NEW d \in Data, OverwriteFIFO(w, d)
    PROVE  Len(Items) = bufferLength /\ Items' = Append(Tail(Items), d)
<1>1. Items \in Seq(Data) /\ Len(Items) = dataLength
      /\ \A i \in 1..dataLength : Items[i] = buffer[Index(begin + (i - 1))]
  BY ItemsFacts DEF IInv
<1>2. Items' \in Seq(Data) /\ Len(Items') = dataLength
      /\ \A i \in 1..dataLength : Items'[i] = buffer'[Index(Index(begin + 1) + (i - 1))]
  BY ItemsFactsNext DEF IInv, OverwriteFIFO
<1>3. dataLength = bufferLength /\ dataLength \in Nat \ {0} /\ begin \in Nat
  BY SMT, LengthType DEF IInv, TypeOK, OverwriteFIFO
<1>4. begin + 1 + (dataLength - 1) = begin + dataLength
  BY SMT, <1>3
<1>5. /\ buffer' = [buffer EXCEPT ![Index(begin + dataLength)] = d]
      /\ buffer \in [0..(bufferLength - 1) -> Data]
      /\ Index(begin + dataLength) \in 0..(bufferLength - 1)
  <2>1. buffer' = [buffer EXCEPT ![Index(begin + dataLength)] = d]
    BY <1>4 DEF OverwriteFIFO
  <2>2. begin + dataLength \in Nat
    BY SMT, <1>3
  <2>3. Index(begin + dataLength) \in 0..(bufferLength - 1)
    BY <2>2, IndexType
  <2>. QED BY <2>1, <2>3 DEF IInv, TypeOK
<1>6. \A i \in 1..dataLength : Items'[i] = buffer'[Index(begin + i)]
  <2>. SUFFICES ASSUME NEW i \in 1..dataLength PROVE Items'[i] = buffer'[Index(begin + i)]
    OBVIOUS
  <2>1. i - 1 \in 0..(bufferLength - 1) /\ (i - 1) + 1 = i
    BY SMT, <1>3
  <2>2. Index(Index(begin + 1) + (i - 1)) = Index(begin + i)
    BY <2>1, IndexShift DEF IInv
  <2>. QED BY <1>2, <2>2
<1>7. \A i \in 1..(dataLength - 1) : Items'[i] = Items[i + 1]
  <2>. SUFFICES ASSUME NEW i \in 1..(dataLength - 1) PROVE Items'[i] = Items[i + 1]
    OBVIOUS
  <2>1. /\ i \in 0..(bufferLength - 1) /\ dataLength \in 0..bufferLength
        /\ i < dataLength /\ dataLength < i + bufferLength
        /\ begin + i \in Nat /\ (i + 1) - 1 = i
        /\ i \in 1..dataLength /\ i + 1 \in 1..dataLength
    BY SMT, <1>3
  <2>2. Index(begin + i) # Index(begin + dataLength)
    BY <2>1, SlotsDiffer DEF IInv
  <2>3. Index(begin + i) \in 0..(bufferLength - 1)
    BY <2>1, IndexType
  <2>4. buffer'[Index(begin + i)] = buffer[Index(begin + i)]
    BY <1>5, <2>2, <2>3
  <2>5. Items[i + 1] = buffer[Index(begin + i)]
    BY <1>1, <2>1
  <2>. QED BY <1>6, <2>1, <2>4, <2>5
<1>8. Items'[dataLength] = d
  BY SMTT(20), <1>3, <1>5, <1>6
<1>9. /\ Tail(Items) \in Seq(Data) /\ Len(Tail(Items)) = dataLength - 1
      /\ \A i \in 1..(dataLength - 1) : Tail(Items)[i] = Items[i + 1]
  <2>1. Items # <<>>
    BY <1>1, <1>3
  <2>. QED BY <1>1, <2>1, TailFacts
<1>10. /\ Append(Tail(Items), d) \in Seq(Data)
       /\ Len(Append(Tail(Items), d)) = dataLength
       /\ \A i \in 1..(dataLength - 1) : Append(Tail(Items), d)[i] = Items[i + 1]
       /\ Append(Tail(Items), d)[dataLength] = d
  <2>1. (dataLength - 1) + 1 = dataLength
    BY SMT, <1>3
  <2>. QED BY SMTT(20), <1>9, <2>1, AppendFacts
<1>11. \A i \in 1..Len(Items') : Items'[i] = Append(Tail(Items), d)[i]
  <2>. SUFFICES ASSUME NEW i \in 1..Len(Items')
                PROVE Items'[i] = Append(Tail(Items), d)[i]
    OBVIOUS
  <2>1. i \in 1..dataLength
    BY <1>2
  <2>2. i \in 1..(dataLength - 1) \/ i = dataLength
    BY SMTT(20), <1>3, <2>1
  <2>. QED BY <1>7, <1>8, <1>10, <2>2
<1>12. Items' = Append(Tail(Items), d)
  BY <1>2, <1>10, <1>11, SameSeq
<1>. QED BY <1>1, <1>3, <1>12

\* Initial states map to initial states.
LEMMA InitRefines == Init => Queue!Init
<1>. SUFFICES ASSUME Init PROVE Queue!Init
  OBVIOUS
<1>1. Items = <<>>
  BY SMT DEF Init, Items
<1>. QED BY <1>1 DEF Init, Queue!Init

\* Every critical section of fifoarray.c is one step of the queue or none.
LEMMA StepRefines ==
    ASSUME IInv, IInv', [Next]_vars
    PROVE  [Queue!Next]_(Queue!queueVars)
<1>1. ASSUME NEW w \in Writer, NEW d \in Data, WriteFIFO(w, d)
      PROVE  Queue!Put(d)
  <2>1. Store(d) /\ received' = received
    BY <1>1 DEF WriteFIFO
  <2>2. Items' = Append(Items, d) /\ Len(Items) < bufferLength
    BY <2>1, StoreAppends, ItemsFacts DEF IInv, Store
  <2>. QED BY <2>1, <2>2 DEF Queue!Put
<1>2. ASSUME NEW w \in Writer, NEW d \in Data, OverwriteFIFO(w, d)
      PROVE  Queue!PutOverOldest(d)
  <2>1. received' = received
    BY <1>2 DEF OverwriteFIFO
  <2>. QED BY <1>2, <2>1, OverwriteReplacesOldest DEF Queue!PutOverOldest
<1>3. ASSUME NEW r \in Task, TakeElement(r)
      PROVE  Queue!Take(r)
  <2>1. r \in Permitted
    BY <1>3 DEF Permitted, TakeElement
  <2>2. dataLength > 0
    BY <2>1, PermittedHasElement
  <2>3. /\ received' = [received EXCEPT ![r] = buffer[Index(begin)]]
        /\ dequeueBuffer
        /\ buffer' = buffer
    BY SMT, <1>3, <2>2 DEF TakeElement
  <2>. QED BY <2>2, <2>3, DequeueTails DEF Queue!Take
<1>4. ASSUME UNCHANGED <<fifoVars, received>>
      PROVE  UNCHANGED Queue!queueVars
  BY <1>4 DEF fifoVars, Items, Index, Queue!queueVars
<1>5. ASSUME NEW w \in Writer, WriterRelease(w)
      PROVE  UNCHANGED Queue!queueVars
  BY <1>4, <1>5 DEF WriterRelease
<1>6. ASSUME NEW r \in Task, ReadFIFO(r) \/ ReadFIFONonBlock(r) \/ ReaderResumes(r)
      PROVE  UNCHANGED Queue!queueVars
  BY <1>4, <1>6 DEF ReadFIFO, ReadFIFONonBlock, ReaderResumes
<1>7. CASE UNCHANGED vars
  BY <1>4, <1>7 DEF vars
<1>. QED
  BY <1>1, <1>2, <1>3, <1>5, <1>6, <1>7 DEF Next, WriterNext, ReaderNext, Queue!Next

\* A FIFO of any length is the bounded queue of that length, whatever the number of
\* readers and writers and however their critical sections interleave.
THEOREM Refinement == Spec => ImplementsQueue
<1>1. IInv /\ IInv' /\ [Next]_vars => [Queue!Next]_(Queue!queueVars)
  BY StepRefines
<1>. QED
  BY <1>1, InitRefines, Invariance, PTL DEF Spec, ImplementsQueue, Queue!Spec
==============================================================================
