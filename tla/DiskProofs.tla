----------------------------- MODULE DiskProofs ------------------------------
(***************************************************************************)
(* Storage and the loader, each for every value of its constants: the      *)
(* loader maps every byte of a program it starts or gives the task back,   *)
(* the requests of the AHCI disks are finished, and the reader-writer lock *)
(* counts its holders and is handed on.  Each part has an inductive        *)
(* invariant, a lemma per action, and its theorems.                        *)
(***************************************************************************)
EXTENDS ELFLoader, AHCI, RWLock, TLAPS

\* A leaf that cites no prover is first-order and goes to Zenon; arithmetic and sequences
\* go to SMT.
USE Zenon

\* Sequences
LEMMA SeqLength ==
    ASSUME NEW S, NEW q \in Seq(S)
    PROVE  Len(q) \in Nat /\ q \in [1..Len(q) -> S] /\ DOMAIN q = 1..Len(q)
BY SMT

LEMMA SeqElement ==
    ASSUME NEW S, NEW q \in Seq(S), NEW i \in 1..Len(q)
    PROVE  q[i] \in S
BY SMT

LEMMA SeqEmpty ==
    ASSUME NEW S
    PROVE  <<>> \in Seq(S) /\ Len(<<>>) = 0 /\ \A q \in Seq(S) : q # <<>> => Len(q) \in Nat \ {0}
BY SMT

LEMMA TailFacts ==
    ASSUME NEW S, NEW q \in Seq(S), q # <<>>
    PROVE  /\ Head(q) \in S /\ Tail(q) \in Seq(S) /\ Len(Tail(q)) = Len(q) - 1
           /\ \A i \in 1..Len(Tail(q)) : Tail(q)[i] = q[i + 1]
BY SMT

LEMMA AppendFacts ==
    ASSUME NEW S, NEW q \in Seq(S), NEW e \in S
    PROVE  /\ Append(q, e) \in Seq(S) /\ Append(q, e) # <<>> /\ Len(Append(q, e)) = Len(q) + 1
           /\ \A i \in 1..Len(q) : Append(q, e)[i] = q[i]
           /\ Append(q, e)[Len(q) + 1] = e
BY SMT

LEMMA ConcatFacts ==
    ASSUME NEW S, NEW p \in Seq(S), NEW q \in Seq(S)
    PROVE  /\ p \o q \in Seq(S) /\ Len(p \o q) = Len(p) + Len(q)
           /\ \A i \in 1..Len(p) + Len(q) : (p \o q)[i] = IF i <= Len(p) THEN p[i] ELSE q[i - Len(p)]
BY SMT

-----------------------------------------------------------------------------
(* The program loader *)

\* Arithmetic of pages

\* x is a multiple of n.
Multiple(x, n) == \E q \in Nat : x = n * q

LEMMA MulMonotone ==
    ASSUME NEW n \in Nat \ {0}, NEW q \in Nat, NEW r \in Nat, q < r
    PROVE  n * q + n <= n * r
<1>1. PICK d \in Nat : r = q + 1 + d
  <2>1. r - q - 1 \in Nat /\ r = q + 1 + (r - q - 1)
    BY SMT
  <2>. QED BY <2>1
<1>2. n * r = n * q + n + n * d
  BY SMT, <1>1
<1>3. n * d \in Nat
  BY SMT
<1>. QED BY SMT, <1>2, <1>3

LEMMA DivisionFacts ==
    ASSUME NEW x \in Nat, NEW n \in Nat \ {0}
    PROVE  x \div n \in Nat /\ x % n \in 0..n - 1 /\ x % n = x - n * (x \div n)
<1>1. x \div n \in Nat
  <2>1. x \div n \in Int /\ x \div n >= 0
    BY SMT
  <2>. QED BY SMT, <2>1
<1>2. x % n \in 0..n - 1
  BY SMT
<1>3. x % n = x - n * (x \div n)
  BY SMT
<1>. QED BY <1>1, <1>2, <1>3

LEMMA MultipleMod ==
    ASSUME NEW x \in Nat, NEW n \in Nat \ {0}
    PROVE  Multiple(x, n) <=> x % n = 0
<1>1. x \div n \in Nat /\ x % n \in 0..n - 1 /\ x % n = x - n * (x \div n)
  BY DivisionFacts
<1>2. ASSUME x % n = 0 PROVE Multiple(x, n)
  <2>. DEFINE d == x \div n
  <2>1. d \in Nat /\ 0 = x - n * d
    BY <1>1, <1>2
  <2>. HIDE DEF d
  <2>2. x = n * d
    BY SMT, <2>1
  <2>. QED BY <2>1, <2>2 DEF Multiple
<1>3. ASSUME Multiple(x, n) PROVE x % n = 0
  <2>1. PICK q \in Nat : x = n * q
    BY <1>3 DEF Multiple
  <2>. DEFINE d == x \div n
  <2>2. d \in Nat /\ x % n = n * q - n * d
    BY <1>1, <2>1
  <2>3. n * q \in Nat /\ n * d \in Nat
    BY SMT, <2>2
  <2>. HIDE DEF d
  <2>4. CASE d < q
    <3>1. n * d + n <= n * q
      BY <2>2, <2>4, MulMonotone
    <3>. QED BY SMT, <1>1, <2>2, <2>3, <3>1
  <2>5. CASE q < d
    <3>1. n * q + n <= n * d
      BY <2>2, <2>5, MulMonotone
    <3>. QED BY SMT, <1>1, <2>2, <2>3, <3>1
  <2>6. CASE q = d
    BY SMT, <1>1, <2>2, <2>3, <2>6
  <2>. QED BY SMT, <2>2, <2>4, <2>5, <2>6
<1>. QED BY <1>2, <1>3

LEMMA FloorFacts ==
    ASSUME NEW x \in Nat, NEW b \in Nat \ {0}
    PROVE  /\ FLOOR(x, b) \in Nat /\ FLOOR(x, b) <= x /\ x < FLOOR(x, b) + b
           /\ Multiple(FLOOR(x, b), b)
<1>1. x \div b \in Nat /\ x % b \in 0..b - 1 /\ x % b = x - b * (x \div b)
  BY DivisionFacts
<1>2. FLOOR(x, b) = b * (x \div b)
  BY SMT, <1>1 DEF FLOOR
<1>3. b * (x \div b) \in Nat
  BY SMT, <1>1
<1>. QED BY SMT, <1>1, <1>2, <1>3 DEF Multiple

\* A multiple of a multiple.
LEMMA MultipleTransitive ==
    ASSUME NEW n \in Nat \ {0}, NEW b \in Nat, NEW x \in Nat, Multiple(b, n), Multiple(x, b)
    PROVE  Multiple(x, n)
<1>1. PICK q \in Nat : b = n * q
  BY DEF Multiple
<1>2. PICK r \in Nat : x = b * r
  BY DEF Multiple
<1>3. x = n * (q * r) /\ q * r \in Nat
  BY SMT, <1>1, <1>2
<1>. QED BY <1>3 DEF Multiple

\* Two multiples are at least n apart.
LEMMA MultiplesApart ==
    ASSUME NEW n \in Nat \ {0}, NEW x, NEW y, Multiple(x, n), Multiple(y, n), x < y
    PROVE  x + n <= y
<1>1. PICK q \in Nat, r \in Nat : x = n * q /\ y = n * r
  BY DEF Multiple
<1>2. q < r
  <2>. SUFFICES ASSUME r <= q PROVE FALSE
    BY SMT, <1>1
  <2>1. CASE r = q
    BY SMT, <1>1, <2>1
  <2>2. CASE r < q
    <3>1. n * r + n <= n * q
      BY <2>2, MulMonotone
    <3>. QED BY SMT, <1>1, <3>1
  <2>. QED BY SMT, <2>1, <2>2
<1>3. n * q + n <= n * r
  BY <1>2, MulMonotone
<1>. QED BY <1>1, <1>3

LEMMA NextMultiple ==
    ASSUME NEW n \in Nat \ {0}, NEW x, Multiple(x, n)
    PROVE  Multiple(x + n, n) /\ x \in Nat
<1>1. PICK q \in Nat : x = n * q
  BY DEF Multiple
<1>2. x + n = n * (q + 1) /\ q + 1 \in Nat
  BY SMT, <1>1
<1>. QED BY SMT, <1>1, <1>2 DEF Multiple

\* The page of an address.
LEMMA PageOf ==
    ASSUME NEW n \in Nat \ {0}, NEW p, NEW a \in Nat, Multiple(p, n), p <= a, a < p + n
    PROVE  FLOOR(a, n) = p
<1>1. FLOOR(a, n) \in Nat /\ FLOOR(a, n) <= a /\ a < FLOOR(a, n) + n /\ Multiple(FLOOR(a, n), n)
  BY FloorFacts
<1>2. p \in Nat
  BY NextMultiple
<1>3. ~(FLOOR(a, n) < p)
  <2>. SUFFICES ASSUME FLOOR(a, n) < p PROVE FALSE
    OBVIOUS
  <2>1. FLOOR(a, n) + n <= p
    BY <1>1, MultiplesApart
  <2>. QED BY SMT, <1>1, <1>2, <2>1
<1>4. ~(p < FLOOR(a, n))
  <2>. SUFFICES ASSUME p < FLOOR(a, n) PROVE FALSE
    OBVIOUS
  <2>1. p + n <= FLOOR(a, n)
    BY <1>1, MultiplesApart
  <2>. QED BY SMT, <1>1, <1>2, <2>1
<1>. QED BY SMT, <1>1, <1>2, <1>3, <1>4

\* Sums of two numbers below n.
LEMMA ModSum ==
    ASSUME NEW n \in Nat \ {0}, NEW x \in Nat, x < 2 * n
    PROVE  (x < n => x % n = x) /\ (x >= n => x % n = x - n)
<1>1. CASE x < n
  BY SMT, <1>1
<1>2. CASE x >= n
  BY SMT, <1>2
<1>. QED BY <1>1, <1>2

\* What the loader's checks say of a segment: its pages hold it, and it does not wrap around.
LEMMA SegmentFacts ==
    ASSUME NEW h \in ProgramHeader, h.align # 0, Accepted(h)
    PROVE  /\ h.address \in Nat /\ h.memorySize \in Nat /\ h.fileSize \in Nat
           /\ h.fileSize <= h.memorySize
           /\ phBegin(h) \in Nat /\ phEnd(h) \in Nat /\ phEnd(h) < AddressRange
           /\ phBegin(h) <= h.address /\ h.address + h.memorySize <= phEnd(h)
           /\ Multiple(phBegin(h), PageSize)
<1>. DEFINE A == h.address
            M == h.memorySize
            L == h.align
            x == (A + M) % AddressRange
            y == (x + L - 1) % AddressRange
<1>1. /\ A \in Nat /\ A < AddressRange /\ M \in Nat /\ h.fileSize \in Nat /\ L \in Nat \ {0}
      /\ AddressRange \in Nat \ {0} /\ PageSize \in Nat \ {0} /\ M + L < AddressRange \div 2
  BY SMT, HeaderAssumption
<1>2. L % PageSize = 0 /\ h.fileSize <= M /\ phBegin(h) <= phEnd(h)
  BY <1>1 DEF Accepted
<1>3. 2 * (M + L) < AddressRange
  BY SMT, <1>1
<1>4. phBegin(h) = FLOOR(A, L) /\ phEnd(h) = FLOOR(y, L)
  BY DEF phBegin, phEnd, CEIL
<1>. HIDE DEF A, M, L
<1>5. (A + M < AddressRange => x = A + M) /\ (A + M >= AddressRange => x = A + M - AddressRange)
  <2>1. A + M \in Nat /\ A + M < 2 * AddressRange /\ AddressRange \in Nat \ {0}
    BY SMT, <1>1, <1>3
  <2>. DEFINE z == A + M
  <2>. HIDE DEF z
  <2>2. z \in Nat /\ z < 2 * AddressRange
    BY <2>1 DEF z
  <2>3. /\ z < AddressRange => z % AddressRange = z
        /\ z >= AddressRange => z % AddressRange = z - AddressRange
    BY <2>1, <2>2, ModSum
  <2>4. x = z % AddressRange
    BY DEF x, z
  <2>5. z = A + M
    BY DEF z
  <2>. HIDE DEF x, y
  <2>. QED BY SMT, <1>1, <2>1, <2>2, <2>3, <2>4, <2>5
<1>6. x \in Nat /\ x < AddressRange
  BY SMT, <1>1, <1>3, <1>5
<1>. HIDE DEF x
<1>7. x + L - 1 \in Nat /\ x + L - 1 < 2 * AddressRange
  BY SMT, <1>1, <1>3, <1>6
<1>8. /\ x + L - 1 < AddressRange => y = x + L - 1
      /\ x + L - 1 >= AddressRange => y = x + L - 1 - AddressRange
  <2>1. AddressRange \in Nat \ {0}
    BY <1>1
  <2>. DEFINE z == x + L - 1
  <2>. HIDE DEF z
  <2>2. z \in Nat /\ z < 2 * AddressRange
    BY <1>7 DEF z
  <2>3. /\ z < AddressRange => z % AddressRange = z
        /\ z >= AddressRange => z % AddressRange = z - AddressRange
    BY <2>1, <2>2, ModSum
  <2>4. y = z % AddressRange
    BY DEF y, z
  <2>5. z = x + L - 1
    BY DEF z
  <2>. HIDE DEF x, y
  <2>. QED BY SMT, <1>1, <1>6, <2>1, <2>2, <2>3, <2>4, <2>5
<1>9. y \in Nat /\ y < AddressRange
  BY SMT, <1>1, <1>3, <1>6, <1>7, <1>8
<1>. HIDE DEF y
<1>10. /\ phBegin(h) \in Nat /\ phBegin(h) <= A /\ A < phBegin(h) + L /\ Multiple(phBegin(h), L)
       /\ phEnd(h) \in Nat /\ phEnd(h) <= y /\ y < phEnd(h) + L /\ Multiple(phEnd(h), L)
  BY <1>1, <1>4, <1>9, FloorFacts
<1>11. Multiple(phBegin(h), PageSize)
  <2>1. Multiple(L, PageSize)
    BY <1>1, <1>2, MultipleMod
  <2>. QED BY <1>1, <1>10, <2>1, MultipleTransitive
<1>12. A + M < AddressRange
  BY SMT, <1>1, <1>2, <1>3, <1>5, <1>6, <1>8, <1>10
<1>13. x + L - 1 < AddressRange
  <2>. SUFFICES ASSUME x + L - 1 >= AddressRange PROVE FALSE
    BY SMT, <1>1, <1>7
  <2>1. y < L /\ phEnd(h) < L
    BY SMT, <1>1, <1>6, <1>8, <1>9, <1>10
  <2>2. Multiple(0, L)
    BY SMT, <1>1 DEF Multiple
  <2>3. phEnd(h) = 0
    <3>. SUFFICES ASSUME 0 < phEnd(h) PROVE FALSE
      BY SMT, <1>10
    <3>1. 0 + L <= phEnd(h)
      BY <1>1, <1>10, <2>2, MultiplesApart
    <3>. QED BY SMT, <1>1, <1>10, <2>1, <3>1
  <2>4. A < L
    BY SMT, <1>1, <1>2, <1>10, <2>3
  <2>. QED BY SMT, <1>1, <1>3, <1>5, <1>12, <2>4
<1>14. A + M <= phEnd(h)
  BY SMT, <1>1, <1>5, <1>8, <1>10, <1>12, <1>13
<1>15. phEnd(h) < AddressRange
  BY SMT, <1>1, <1>9, <1>10
<1>. QED BY <1>1, <1>2, <1>10, <1>11, <1>14, <1>15 DEF A, M, L

Creating == {"param", "pageTable", "taskMemory", "openFiles", "task"}
WithHeaders == {"read", "check", "manager", "map", "set", "delete"}
WithoutHeaders == {"open", "header", "allocate", "close", "fail", "switch", "user", "terminate"}
BeforeMap == Creating \cup {"open", "header", "allocate", "read", "check", "manager", "none"}
AfterMap == {"set", "delete", "close", "fail", "switch", "user", "terminate"}
LoaderPlaces == Creating \cup WithHeaders \cup WithoutHeaders
                    \cup {"none", "assertion", "divideError", "exited"}

LoaderState == [pc : LoaderPlaces, ph : [1..HeaderCount -> ProgramHeader], i : Nat,
                begin : 0..AddressRange - 1, end : 0..AddressRange - 1, ok : BOOLEAN, open : BOOLEAN]

TaskParts == {"pageTable", "taskMemory", "openFiles"}

\* What is allocated at each place.
HeldParts ==
    /\ elf.pc \in Creating => held \subseteq TaskParts \cup {"param"} /\ ~elf.open
    /\ elf.pc \in WithHeaders => held \subseteq TaskParts \cup {"linear", "headers"}
    /\ elf.pc \in WithoutHeaders => held \subseteq TaskParts \cup {"linear"}
    /\ elf.pc \in {"none", "exited"} => held = {} /\ memory = <<>> /\ ~elf.open

\* The segments among the first n headers, and what the loader has found of each.
Segments(ph, n) == {k \in 1..n : ph[k].load}
Checked(ph, n, begin, end) ==
    \A k \in Segments(ph, n) :
        /\ ph[k].align # 0 /\ Accepted(ph[k])
        /\ \A j \in Segments(ph, k - 1) : Disjoint(ph[j], ph[k])
        /\ begin <= phBegin(ph[k]) /\ phEnd(ph[k]) <= end

Bytes(pages) == UNION {BytesOf(p) : p \in pages}
Pages == {p \in Nat : Multiple(p, PageSize)}

\* The loop of mapAllocateProgramHeader32 before page i.
Mapping(e, pages, m) ==
    /\ e.i \in Pages /\ pages \subseteq Pages
    /\ \A p \in pages : p < e.end
    /\ \A p \in Pages : e.i <= p /\ p < e.end => p \in pages
    /\ DOMAIN m = Bytes({p \in pages : p < e.i})
    /\ e.ok => \A k \in Segments(e.ph, HeaderCount), p \in Pages :
                  p < e.i /\ phBegin(e.ph[k]) <= p /\ p < phEnd(e.ph[k]) => p \in pages

Covered(ph, m) ==
    \A k \in Segments(ph, HeaderCount) : \A a \in Nat :
        phBegin(ph[k]) <= a /\ a < phEnd(ph[k]) => a \in DOMAIN m

\* The segments among the first n headers are in memory.
Image(ph, n, m) ==
    \A k \in Segments(ph, n) : \A x \in 0..ph[k].memorySize - 1 :
        /\ ph[k].address + x \in DOMAIN m
        /\ m[ph[k].address + x] = IF x < ph[k].fileSize THEN FileByte(k, x) ELSE Zero

\* No header has been looked at.
Fresh(e) == e.i = 0 /\ e.begin = AddressRange - 1 /\ e.ok

LoaderInv ==
    /\ elf \in LoaderState /\ HeldParts
    /\ elf.pc \in BeforeMap => memory = <<>> /\ using = {}
    /\ elf.pc \in Creating \cup {"open", "header", "allocate", "read"}
           => Fresh(elf)
    /\ elf.pc = "check" => /\ elf.ok /\ elf.i <= HeaderCount /\ Checked(elf.ph, elf.i, elf.begin, elf.end)
                           /\ elf.begin \in Pages \cup {AddressRange - 1}
    /\ elf.pc \in {"manager", "map", "set"} => /\ Checked(elf.ph, HeaderCount, elf.begin, elf.end)
                                               /\ elf.begin \in Pages
    /\ elf.pc = "manager" => elf.i = elf.begin /\ elf.ok
    /\ elf.pc = "map" => Mapping(elf, using, memory)
    /\ elf.pc \in AfterMap => using \subseteq Pages /\ DOMAIN memory = Bytes(using)
    /\ elf.pc = "set" => elf.i <= HeaderCount /\ elf.ok /\ Covered(elf.ph, memory)
                         /\ Image(elf.ph, elf.i, memory)
    /\ elf.pc \in {"close", "switch", "user"} \/ (elf.pc = "delete" /\ elf.ok)
           => Image(elf.ph, HeaderCount, memory)

USE DEF LoaderAt, LoaderGoto

LEMMA ConstantTypes == PageSize \in Nat \ {0} /\ AddressRange \in Nat \ {0} /\ HeaderCount \in Nat
BY HeaderAssumption

LEMMA NoBytes == DOMAIN <<>> = {} /\ Bytes({}) = {}
<1>1. DOMAIN <<>> = {}
  BY SMT
<1>2. Bytes({}) = {}
  BY DEF Bytes
<1>. QED BY <1>1, <1>2

LEMMA LoaderInitInv == LoaderInit => LoaderInv
<1>. SUFFICES ASSUME LoaderInit PROVE LoaderInv
  OBVIOUS
<1>1. /\ elf.pc = "param" /\ elf.ph \in [1..HeaderCount -> ProgramHeader] /\ elf.i = 0
      /\ elf.begin = AddressRange - 1 /\ elf.end = 0 /\ elf.ok = TRUE /\ elf.open = FALSE
      /\ held = {} /\ using = {} /\ memory = <<>>
  BY DEF LoaderInit
<1>2. elf \in LoaderState
  <2>1. AddressRange - 1 \in 0..AddressRange - 1 /\ 0 \in 0..AddressRange - 1
    BY SMT, ConstantTypes
  <2>2. "param" \in LoaderPlaces
    BY DEF LoaderPlaces, Creating
  <2>3. elf \in [pc : {"param"}, ph : [1..HeaderCount -> ProgramHeader], i : {0},
                begin : {AddressRange - 1}, end : {0}, ok : {TRUE}, open : {FALSE}]
    BY DEF LoaderInit
  <2>4. elf = [pc |-> elf.pc, ph |-> elf.ph, i |-> elf.i, begin |-> elf.begin, end |-> elf.end,
               ok |-> elf.ok, open |-> elf.open]
    BY <2>3
  <2>. DEFINE Addresses == 0..AddressRange - 1
  <2>5. /\ elf.pc \in LoaderPlaces /\ elf.ph \in [1..HeaderCount -> ProgramHeader] /\ elf.i \in Nat
        /\ elf.begin \in Addresses /\ elf.end \in Addresses /\ elf.ok \in BOOLEAN /\ elf.open \in BOOLEAN
    <3>1. elf.i \in Nat /\ elf.begin \in Addresses /\ elf.end \in Addresses
      BY SMT, <1>1, <2>1
    <3>2. elf.ok \in BOOLEAN /\ elf.open \in BOOLEAN
      BY <1>1
    <3>. QED BY <1>1, <2>2, <3>1, <3>2
  <2>. HIDE DEF Addresses
  <2>6. elf \in [pc : LoaderPlaces, ph : [1..HeaderCount -> ProgramHeader], i : Nat,
                begin : Addresses, end : Addresses, ok : BOOLEAN, open : BOOLEAN]
    BY <2>4, <2>5
  <2>. QED BY <2>6 DEF LoaderState, Addresses
<1>3. HeldParts
  BY <1>1 DEF HeldParts, Creating, WithHeaders, WithoutHeaders
<1>. QED BY <1>1, <1>2, <1>3 DEF LoaderInv, AfterMap, Fresh

LEMMA FollowingFacts ==
    ASSUME NEW pc \in Creating, pc # "task"
    PROVE  Following(pc) \in Creating
<1>1. \E k \in 2..5 : Creates[k - 1] = pc
  BY SMT DEF Creates, Creating
<1>. DEFINE k == CHOOSE k \in 2..5 : Creates[k - 1] = pc
<1>2. k \in 2..5
  BY <1>1
<1>. HIDE DEF k
<1>3. Creates[k] \in Creating
  BY SMT, <1>2 DEF Creates, Creating
<1>. QED BY <1>3 DEF Following, k

LEMMA StateTypes ==
    ASSUME NEW e \in LoaderState
    PROVE  /\ e.pc \in LoaderPlaces /\ e.ph \in [1..HeaderCount -> ProgramHeader] /\ e.i \in Nat
           /\ e.begin \in 0..AddressRange - 1 /\ e.end \in 0..AddressRange - 1
           /\ e.ok \in BOOLEAN /\ e.open \in BOOLEAN
BY DEF LoaderState

LEMMA Moved ==
    ASSUME NEW e \in LoaderState, NEW x \in LoaderPlaces, NEW f, f = [e EXCEPT !.pc = x]
    PROVE  /\ f \in LoaderState /\ f.pc = x /\ f.ph = e.ph /\ f.i = e.i
           /\ f.begin = e.begin /\ f.end = e.end /\ f.ok = e.ok /\ f.open = e.open
BY DEF LoaderState

LEMMA Counted ==
    ASSUME NEW e \in LoaderState, NEW x \in Nat, NEW f, f = [e EXCEPT !.i = x]
    PROVE  /\ f \in LoaderState /\ f.pc = e.pc /\ f.ph = e.ph /\ f.i = x
           /\ f.begin = e.begin /\ f.end = e.end /\ f.ok = e.ok /\ f.open = e.open
BY DEF LoaderState

LEMMA Decided ==
    ASSUME NEW e \in LoaderState, NEW x \in BOOLEAN, NEW f, f = [e EXCEPT !.ok = x]
    PROVE  /\ f \in LoaderState /\ f.pc = e.pc /\ f.ph = e.ph /\ f.i = e.i
           /\ f.begin = e.begin /\ f.end = e.end /\ f.ok = x /\ f.open = e.open
BY DEF LoaderState

LEMMA Opened ==
    ASSUME NEW e \in LoaderState, NEW x \in BOOLEAN, NEW f, f = [e EXCEPT !.open = x]
    PROVE  /\ f \in LoaderState /\ f.pc = e.pc /\ f.ph = e.ph /\ f.i = e.i
           /\ f.begin = e.begin /\ f.end = e.end /\ f.ok = e.ok /\ f.open = x
BY DEF LoaderState

LEMMA Begun ==
    ASSUME NEW e \in LoaderState, NEW x \in 0..AddressRange - 1, NEW f, f = [e EXCEPT !.begin = x]
    PROVE  /\ f \in LoaderState /\ f.pc = e.pc /\ f.ph = e.ph /\ f.i = e.i
           /\ f.begin = x /\ f.end = e.end /\ f.ok = e.ok /\ f.open = e.open
BY DEF LoaderState

LEMMA Ended ==
    ASSUME NEW e \in LoaderState, NEW x \in 0..AddressRange - 1, NEW f, f = [e EXCEPT !.end = x]
    PROVE  /\ f \in LoaderState /\ f.pc = e.pc /\ f.ph = e.ph /\ f.i = e.i
           /\ f.begin = e.begin /\ f.end = x /\ f.ok = e.ok /\ f.open = e.open
BY DEF LoaderState

LEMMA FailsState ==
    ASSUME elf \in LoaderState
    PROVE  /\ Fails \in LoaderState /\ Fails.pc = "delete" /\ Fails.ok = FALSE
           /\ Fails.open = elf.open
<1>. DEFINE e1 == [elf EXCEPT !.pc = "delete"]
<1>1. e1 \in LoaderState /\ e1.pc = "delete" /\ e1.open = elf.open
  <2>1. "delete" \in LoaderPlaces
    BY DEF LoaderPlaces, WithHeaders
  <2>. QED BY SMT, <2>1, Moved
<1>2. Fails = [e1 EXCEPT !.ok = FALSE]
  BY DEF Fails, LoaderState
<1>. HIDE DEF e1
<1>3. ASSUME NEW f, f = [e1 EXCEPT !.ok = FALSE]
      PROVE  f \in LoaderState /\ f.pc = e1.pc /\ f.ok = FALSE /\ f.open = e1.open
  <2>1. FALSE \in BOOLEAN
    OBVIOUS
  <2>2. f \in LoaderState
    BY <1>1, <1>3, <2>1 DEF LoaderState
  <2>3. f.pc = e1.pc /\ f.ok = FALSE /\ f.open = e1.open
    BY <1>1, <1>3 DEF LoaderState
  <2>. QED BY <2>2, <2>3
<1>. QED BY <1>1, <1>2, <1>3

\* A failure before the pages are given out, and the end of such a loader.
LEMMA EarlyFailure ==
    ASSUME LoaderInv, elf.pc \in {"read", "check", "manager"}, elf' = Fails,
           UNCHANGED <<held, using, memory>>
    PROVE  LoaderInv'
<1>1. /\ elf' \in LoaderState /\ elf'.pc = "delete" /\ elf'.ok = FALSE
  BY FailsState DEF LoaderInv
<1>2. memory' = <<>> /\ using' = {} /\ held' \subseteq TaskParts \cup {"linear", "headers"}
  BY DEF LoaderInv, BeforeMap, HeldParts, WithHeaders
<1>3. HeldParts'
  BY <1>1, <1>2 DEF HeldParts, Creating, WithHeaders, WithoutHeaders
<1>4. using' \subseteq Pages /\ DOMAIN memory' = Bytes(using')
  BY <1>2, NoBytes
<1>. QED BY <1>1, <1>3, <1>4 DEF LoaderInv, BeforeMap, Creating

-----------------------------------------------------------------------------
(* The steps before the pages are given out *)

LEMMA CreateInv ==
    ASSUME LoaderInv, NEW ok \in BOOLEAN, createTaskAndMemorySpace(ok)
    PROVE  LoaderInv'
<1>1. elf.pc \in Creating
  BY SMT DEF createTaskAndMemorySpace, Creates, Creating
<1>2. /\ elf \in LoaderState /\ held \subseteq TaskParts \cup {"param"} /\ ~elf.open
      /\ memory = <<>> /\ using = {} /\ Fresh(elf)
  BY <1>1 DEF LoaderInv, HeldParts, BeforeMap
<1>3. memory' = <<>> /\ using' = {}
  BY <1>2 DEF createTaskAndMemorySpace
<1>4. CASE ok /\ elf.pc = "task"
  <2>1. held' = held \ {"param"} /\ elf' = [elf EXCEPT !.pc = "open"]
    BY <1>4 DEF createTaskAndMemorySpace
  <2>2. elf' \in LoaderState /\ elf'.pc = "open" /\ Fresh(elf')
    <3>1. "open" \in LoaderPlaces
      BY DEF LoaderPlaces, WithoutHeaders
    <3>. QED BY SMT, <1>2, <2>1, <3>1, Moved DEF Fresh
  <2>3. HeldParts'
    BY <1>2, <2>1, <2>2 DEF HeldParts, Creating, WithHeaders, WithoutHeaders
  <2>. QED BY <1>3, <2>2, <2>3 DEF LoaderInv, BeforeMap, AfterMap
<1>5. CASE ok /\ elf.pc # "task"
  <2>1. held' = held \cup {elf.pc} /\ elf' = [elf EXCEPT !.pc = Following(elf.pc)]
    BY <1>5 DEF createTaskAndMemorySpace
  <2>2. Following(elf.pc) \in Creating
    BY <1>1, <1>5, FollowingFacts
  <2>3. elf' \in LoaderState /\ elf'.pc \in Creating /\ elf'.open = elf.open /\ Fresh(elf')
    <3>1. Following(elf.pc) \in LoaderPlaces
      BY <2>2 DEF LoaderPlaces
    <3>. QED BY SMT, <1>2, <2>1, <2>2, <3>1, Moved DEF Fresh
  <2>4. held' \subseteq TaskParts \cup {"param"}
    BY <1>1, <1>2, <1>5, <2>1 DEF Creating, TaskParts
  <2>5. HeldParts'
    BY <1>2, <2>3, <2>4 DEF HeldParts, Creating, WithHeaders, WithoutHeaders
  <2>. QED BY <1>3, <2>3, <2>5 DEF LoaderInv, BeforeMap, AfterMap, Creating
<1>6. CASE ~ok /\ elf.pc = "task"
  <2>1. elf' = [elf EXCEPT !.pc = "assertion"]
    BY <1>6 DEF createTaskAndMemorySpace
  <2>2. elf' \in LoaderState /\ elf'.pc = "assertion"
    <3>1. "assertion" \in LoaderPlaces
      BY DEF LoaderPlaces
    <3>. QED BY SMT, <1>2, <2>1, <3>1, Moved
  <2>3. HeldParts'
    BY <2>2 DEF HeldParts, Creating, WithHeaders, WithoutHeaders
  <2>. QED BY <2>2, <2>3 DEF LoaderInv, BeforeMap, AfterMap, Creating
<1>7. CASE ~ok /\ elf.pc # "task"
  <2>1. held' = {} /\ elf' = [elf EXCEPT !.pc = "none"]
    BY <1>7 DEF createTaskAndMemorySpace
  <2>2. elf' \in LoaderState /\ elf'.pc = "none" /\ elf'.open = elf.open
    <3>1. "none" \in LoaderPlaces
      BY DEF LoaderPlaces
    <3>. QED BY SMT, <1>2, <2>1, <3>1, Moved
  <2>3. HeldParts'
    BY <1>2, <1>3, <2>1, <2>2 DEF HeldParts, Creating, WithHeaders, WithoutHeaders
  <2>. QED BY <1>3, <2>2, <2>3 DEF LoaderInv, BeforeMap, AfterMap, Creating
<1>. QED BY <1>4, <1>5, <1>6, <1>7

LEMMA OpenInv ==
    ASSUME LoaderInv, NEW ok \in BOOLEAN, syncOpenFileN(ok)
    PROVE  LoaderInv'
<1>1. /\ elf \in LoaderState /\ held \subseteq TaskParts \cup {"linear"} /\ memory = <<>> /\ using = {}
      /\ Fresh(elf)
  BY DEF LoaderInv, HeldParts, WithoutHeaders, BeforeMap, syncOpenFileN
<1>2. UNCHANGED <<held, using, memory>>
  BY DEF syncOpenFileN
<1>. DEFINE x == IF ok THEN "header" ELSE "terminate"
            e1 == [elf EXCEPT !.open = ok]
<1>3. x \in LoaderPlaces /\ x \in {"header", "terminate"}
  BY DEF LoaderPlaces, WithoutHeaders
<1>4. e1 \in LoaderState /\ Fresh(e1)
  BY SMT, <1>1, Opened DEF Fresh
<1>5. elf' = [e1 EXCEPT !.pc = x]
  BY <1>1 DEF syncOpenFileN, LoaderState
<1>. HIDE DEF x, e1
<1>6. elf' \in LoaderState /\ elf'.pc \in {"header", "terminate"} /\ Fresh(elf')
  BY SMT, <1>3, <1>4, <1>5, Moved DEF Fresh
<1>7. HeldParts'
  BY <1>1, <1>2, <1>6 DEF HeldParts, Creating, WithHeaders, WithoutHeaders
<1>8. using' \subseteq Pages /\ DOMAIN memory' = Bytes(using') /\ memory' = <<>> /\ using' = {}
  BY <1>1, <1>2, NoBytes
<1>. QED BY <1>6, <1>7, <1>8 DEF LoaderInv

LEMMA HeaderInv ==
    ASSUME LoaderInv, NEW ok \in BOOLEAN, checkELFHeader32(ok)
    PROVE  LoaderInv'
<1>1. /\ elf \in LoaderState /\ held \subseteq TaskParts \cup {"linear"} /\ memory = <<>> /\ using = {}
      /\ Fresh(elf)
  BY DEF LoaderInv, HeldParts, WithoutHeaders, BeforeMap, checkELFHeader32
<1>2. UNCHANGED <<held, using, memory>>
  BY DEF checkELFHeader32
<1>. DEFINE x == IF ok THEN "allocate" ELSE "fail"
<1>3. x \in LoaderPlaces /\ x \in {"allocate", "fail"}
  BY DEF LoaderPlaces, WithoutHeaders
<1>4. elf' = [elf EXCEPT !.pc = x]
  BY DEF checkELFHeader32
<1>. HIDE DEF x
<1>5. elf' \in LoaderState /\ elf'.pc \in {"allocate", "fail"} /\ Fresh(elf')
  BY SMT, <1>1, <1>3, <1>4, Moved DEF Fresh
<1>6. HeldParts'
  BY <1>1, <1>2, <1>5 DEF HeldParts, Creating, WithHeaders, WithoutHeaders
<1>7. using' \subseteq Pages /\ DOMAIN memory' = Bytes(using') /\ memory' = <<>> /\ using' = {}
  BY <1>1, <1>2, NoBytes
<1>. QED BY <1>5, <1>6, <1>7 DEF LoaderInv

LEMMA AllocateInv ==
    ASSUME LoaderInv, NEW ok \in BOOLEAN, allocateProgramHeader32(ok)
    PROVE  LoaderInv'
<1>1. /\ elf \in LoaderState /\ held \subseteq TaskParts \cup {"linear"} /\ memory = <<>> /\ using = {}
      /\ Fresh(elf)
  BY DEF LoaderInv, HeldParts, WithoutHeaders, BeforeMap, allocateProgramHeader32
<1>2. UNCHANGED <<using, memory>>
  BY DEF allocateProgramHeader32
<1>. DEFINE x == IF ok THEN "read" ELSE "fail"
<1>3. x \in LoaderPlaces /\ x \in {"read", "fail"}
  BY DEF LoaderPlaces, WithoutHeaders, WithHeaders
<1>4. elf' = [elf EXCEPT !.pc = x]
  BY DEF allocateProgramHeader32
<1>5. /\ held' \subseteq TaskParts \cup {"linear", "headers"}
      /\ x = "fail" => held' \subseteq TaskParts \cup {"linear"}
  BY <1>1 DEF allocateProgramHeader32
<1>. HIDE DEF x
<1>6. elf' \in LoaderState /\ elf'.pc = x /\ Fresh(elf')
  BY SMT, <1>1, <1>3, <1>4, Moved DEF Fresh
<1>7. HeldParts'
  BY <1>3, <1>5, <1>6 DEF HeldParts, Creating, WithHeaders, WithoutHeaders
<1>8. using' \subseteq Pages /\ DOMAIN memory' = Bytes(using') /\ memory' = <<>> /\ using' = {}
  BY <1>1, <1>2, NoBytes
<1>. QED BY <1>3, <1>6, <1>7, <1>8 DEF LoaderInv

\* The read leaves i, begin and end as LoaderInit set them.
LEMMA ReadInv ==
    ASSUME LoaderInv, NEW ok \in BOOLEAN, readProgramHeader32(ok)
    PROVE  LoaderInv'
<1>1. CASE ~ok
  BY <1>1, EarlyFailure DEF readProgramHeader32
<1>2. CASE ok
  <2>1. /\ elf \in LoaderState /\ held \subseteq TaskParts \cup {"linear", "headers"} /\ memory = <<>>
        /\ using = {}
    BY DEF LoaderInv, HeldParts, WithHeaders, BeforeMap, readProgramHeader32
  <2>2. elf' = [elf EXCEPT !.pc = "check"] /\ UNCHANGED <<held, using, memory>>
    BY <1>2 DEF readProgramHeader32
  <2>3. /\ elf' \in LoaderState /\ elf'.pc = "check" /\ elf'.i = elf.i /\ elf'.begin = elf.begin
        /\ elf'.ok = elf.ok
    <3>1. "check" \in LoaderPlaces
      BY DEF LoaderPlaces, WithHeaders
    <3>. QED BY SMT, <2>1, <2>2, <3>1, Moved
  <2>4. elf.i = 0 /\ elf.begin = AddressRange - 1 /\ elf.ok
    BY DEF LoaderInv, readProgramHeader32, Fresh
  <2>5. HeldParts'
    BY <2>1, <2>2, <2>3 DEF HeldParts, Creating, WithHeaders, WithoutHeaders
  <2>6. elf'.i <= HeaderCount /\ Checked(elf'.ph, elf'.i, elf'.begin, elf'.end)
    BY SMT, <2>3, <2>4, ConstantTypes DEF Checked, Segments
  <2>. QED BY <2>1, <2>2, <2>3, <2>4, <2>5, <2>6 DEF LoaderInv, AfterMap, BeforeMap, Creating
<1>. QED BY <1>1, <1>2

LEMMA SegmentStep ==
    ASSUME NEW ph \in [1..HeaderCount -> ProgramHeader], NEW n \in Nat, n < HeaderCount
    PROVE  /\ n + 1 \in 1..HeaderCount
           /\ Segments(ph, n + 1) = IF ph[n + 1].load THEN Segments(ph, n) \cup {n + 1} ELSE Segments(ph, n)
           /\ Segments(ph, n) \subseteq 1..HeaderCount /\ (n + 1) - 1 = n
<1>1. 1..n + 1 = 1..n \cup {n + 1} /\ n + 1 \in 1..HeaderCount /\ 1..n \subseteq 1..HeaderCount
  BY SMT, ConstantTypes
<1>. QED BY SMT, <1>1 DEF Segments

LEMMA CheckInv ==
    ASSUME LoaderInv, checkAllocateProgramHeader32
    PROVE  LoaderInv'
<1>0. elf \in LoaderState
  BY DEF LoaderInv
<1>1. /\ elf \in LoaderState /\ held \subseteq TaskParts \cup {"linear", "headers"} /\ memory = <<>>
      /\ using = {} /\ elf.ok /\ elf.i <= HeaderCount /\ Checked(elf.ph, elf.i, elf.begin, elf.end)
      /\ elf.begin \in Pages \cup {AddressRange - 1}
  BY DEF LoaderInv, HeldParts, WithHeaders, BeforeMap, checkAllocateProgramHeader32
<1>2. UNCHANGED <<held, using, memory>>
  BY DEF checkAllocateProgramHeader32
<1>3. CASE elf' = Fails
  BY <1>2, <1>3, EarlyFailure DEF checkAllocateProgramHeader32
<1>4. CASE elf.i = HeaderCount /\ elf.begin < elf.end
  <2>. DEFINE e1 == [elf EXCEPT !.i = elf.begin]
  <2>1. elf.begin \in Nat /\ elf.end <= AddressRange - 1 /\ elf.begin # AddressRange - 1
    BY SMT, <1>1, <1>4, StateTypes, ConstantTypes
  <2>2. /\ e1 \in LoaderState /\ e1.i = elf.begin /\ e1.begin = elf.begin /\ e1.end = elf.end
        /\ e1.ok = elf.ok /\ e1.ph = elf.ph
    <3>1. elf.begin \in Nat
      BY <2>1
    <3>. QED BY SMT, <1>0, <3>1, Counted
  <2>3. elf' = [e1 EXCEPT !.pc = "manager"]
    BY <1>1, <1>4 DEF checkAllocateProgramHeader32, LoaderState
  <2>. HIDE DEF e1
  <2>4. /\ elf' \in LoaderState /\ elf'.pc = "manager" /\ elf'.i = elf.begin /\ elf'.begin = elf.begin
        /\ elf'.end = elf.end /\ elf'.ok = elf.ok /\ elf'.ph = elf.ph
    <3>1. "manager" \in LoaderPlaces
      BY DEF LoaderPlaces, WithHeaders
    <3>. QED BY SMT, <2>2, <2>3, <3>1, Moved
  <2>5. HeldParts'
    BY <1>1, <1>2, <2>4 DEF HeldParts, Creating, WithHeaders, WithoutHeaders
  <2>6. elf'.begin \in Pages /\ Checked(elf'.ph, HeaderCount, elf'.begin, elf'.end)
    BY <1>1, <1>4, <2>1, <2>4
  <2>7. elf'.i = elf'.begin /\ elf'.ok
    BY <1>1, <2>4
  <2>. QED BY <1>1, <1>2, <2>4, <2>5, <2>6, <2>7 DEF LoaderInv, AfterMap, Creating
<1>5. CASE elf.i # HeaderCount
  <2>. DEFINE k == elf.i + 1
              h == elf.ph[k]
  <2>1. elf.i \in Nat /\ elf.i < HeaderCount /\ elf.ph \in [1..HeaderCount -> ProgramHeader]
        /\ elf.begin \in 0..AddressRange - 1 /\ elf.end \in 0..AddressRange - 1
    BY SMT, <1>1, <1>5, StateTypes, ConstantTypes
  <2>2. /\ k \in Nat /\ k \in 1..HeaderCount /\ k <= HeaderCount
        /\ Segments(elf.ph, k) = IF h.load THEN Segments(elf.ph, elf.i) \cup {k} ELSE Segments(elf.ph, elf.i)
        /\ k - 1 = elf.i
    <3>1. k \in Nat /\ k <= HeaderCount
      BY SMT, <2>1, ConstantTypes
    <3>. HIDE DEF h
    <3>2. k \in 1..HeaderCount /\ k - 1 = elf.i
      BY <2>1, SegmentStep
    <3>3. Segments(elf.ph, k) = IF elf.ph[k].load THEN Segments(elf.ph, elf.i) \cup {k}
                                ELSE Segments(elf.ph, elf.i)
      BY <2>1, SegmentStep
    <3>. QED BY <3>1, <3>2, <3>3 DEF h
  <2>3. h \in ProgramHeader
    BY <2>1, <2>2
  <2>4. CASE h.align = 0
    <3>1. elf' = [elf EXCEPT !.pc = "divideError"]
      BY <1>5, <2>4 DEF checkAllocateProgramHeader32, Divides
    <3>2. elf' \in LoaderState /\ elf'.pc = "divideError"
      <4>1. "divideError" \in LoaderPlaces
        BY DEF LoaderPlaces
      <4>. QED BY SMT, <1>1, <3>1, <4>1, Moved
    <3>3. HeldParts'
      BY <3>2 DEF HeldParts, Creating, WithHeaders, WithoutHeaders
    <3>. QED BY <3>2, <3>3 DEF LoaderInv, BeforeMap, AfterMap, Creating
  <2>5. CASE h.align # 0 /\ ~h.load
    <3>1. elf' = [elf EXCEPT !.i = k]
      BY <1>5, <2>5 DEF checkAllocateProgramHeader32, Divides
    <3>2. /\ elf' \in LoaderState /\ elf'.pc = "check" /\ elf'.i = k /\ elf'.begin = elf.begin
          /\ elf'.end = elf.end /\ elf'.ok = elf.ok /\ elf'.ph = elf.ph
      <4>1. elf.pc = "check" /\ k \in Nat
        BY <2>2 DEF checkAllocateProgramHeader32
      <4>. HIDE DEF k
      <4>. QED BY SMT, <1>0, <3>1, <4>1, Counted
    <3>3. Checked(elf.ph, k, elf.begin, elf.end)
      BY <1>1, <2>2, <2>5 DEF Checked
    <3>4. HeldParts'
      BY <1>1, <1>2, <3>2 DEF HeldParts, Creating, WithHeaders, WithoutHeaders
    <3>5. elf'.ok /\ elf'.i <= HeaderCount /\ Checked(elf'.ph, elf'.i, elf'.begin, elf'.end)
          /\ elf'.begin \in Pages \cup {AddressRange - 1}
      BY <1>1, <2>2, <3>2, <3>3
    <3>. QED BY <1>1, <1>2, <3>2, <3>4, <3>5 DEF LoaderInv, AfterMap, Creating
  <2>6. CASE h.align # 0 /\ h.load /\ ~CheckHeader(k)
    <3>1. elf' = Fails
      BY <1>5, <2>6 DEF checkAllocateProgramHeader32, Divides
    <3>. QED BY <1>3, <3>1
  <2>7. CASE h.align # 0 /\ h.load /\ CheckHeader(k)
    <3>. DEFINE x == IF phBegin(h) < elf.begin THEN phBegin(h) ELSE elf.begin
                y == IF phEnd(h) > elf.end THEN phEnd(h) ELSE elf.end
                e1 == [elf EXCEPT !.i = k]
    <3>1. elf' = [elf EXCEPT !.i = k, !.begin = x, !.end = y]
      BY <1>1, <1>5, <2>7 DEF checkAllocateProgramHeader32, Divides, LoaderState
    <3>2. Accepted(h) /\ \A j \in Segments(elf.ph, k - 1) : Disjoint(elf.ph[j], h)
      BY <2>7 DEF CheckHeader, Loaded, Segments
    <3>3. /\ phBegin(h) \in Nat /\ phEnd(h) \in Nat /\ phEnd(h) < AddressRange /\ phBegin(h) <= phEnd(h)
          /\ Multiple(phBegin(h), PageSize)
      BY <2>3, <2>7, <3>2, SegmentFacts DEF Accepted
    <3>4. /\ x \in 0..AddressRange - 1 /\ y \in 0..AddressRange - 1
          /\ x <= phBegin(h) /\ phEnd(h) <= y /\ x <= elf.begin /\ elf.end <= y
          /\ x \in Pages \cup {AddressRange - 1}
      <4>0. AddressRange \in Nat /\ elf.begin \in 0..AddressRange - 1 /\ elf.end \in 0..AddressRange - 1
        BY <2>1, ConstantTypes
      <4>. HIDE DEF h, k
      <4>1. /\ x \in 0..AddressRange - 1 /\ x <= phBegin(h) /\ x <= elf.begin
            /\ y \in 0..AddressRange - 1 /\ phEnd(h) <= y /\ elf.end <= y
        BY SMT, <3>3, <4>0
      <4>2. x \in Pages \cup {AddressRange - 1}
        BY <1>1, <3>3 DEF Pages
      <4>. QED BY <4>1, <4>2
    <3>5. /\ e1 \in LoaderState /\ e1.pc = elf.pc /\ e1.i = k /\ e1.ok = elf.ok /\ e1.ph = elf.ph
      <4>1. k \in Nat
        BY <2>2
      <4>. HIDE DEF k
      <4>. QED BY SMT, <1>0, <4>1, Counted
    <3>. HIDE DEF x, y
    <3>. DEFINE e2 == [e1 EXCEPT !.begin = x]
    <3>6. elf' = [e2 EXCEPT !.end = y]
      BY <1>1, <3>1 DEF LoaderState
    <3>. HIDE DEF e1
    <3>7. /\ elf' \in LoaderState /\ elf'.pc = elf.pc /\ elf'.i = k /\ elf'.begin = x
          /\ elf'.end = y /\ elf'.ok = elf.ok /\ elf'.ph = elf.ph
      <4>1. x \in 0..AddressRange - 1 /\ y \in 0..AddressRange - 1
        BY <3>4
      <4>. HIDE DEF k
      <4>2. /\ e2 \in LoaderState /\ e2.pc = e1.pc /\ e2.i = e1.i /\ e2.begin = x
            /\ e2.ok = e1.ok /\ e2.ph = e1.ph
        BY SMT, <3>5, <4>1, Begun
      <4>. HIDE DEF e2
      <4>3. /\ elf' \in LoaderState /\ elf'.pc = e2.pc /\ elf'.i = e2.i /\ elf'.begin = x
            /\ elf'.end = y /\ elf'.ok = e2.ok /\ elf'.ph = e2.ph
        BY SMT, <3>6, <4>1, <4>2, Ended
      <4>. QED BY <3>5, <4>2, <4>3
    <3>8. Checked(elf.ph, k, x, y)
      <4>1. ASSUME NEW s \in Segments(elf.ph, elf.i)
            PROVE  /\ elf.ph[s].align # 0 /\ Accepted(elf.ph[s])
                   /\ \A j \in Segments(elf.ph, s - 1) : Disjoint(elf.ph[j], elf.ph[s])
                   /\ x <= phBegin(elf.ph[s]) /\ phEnd(elf.ph[s]) <= y
        <5>1. /\ elf.ph[s].align # 0 /\ Accepted(elf.ph[s])
              /\ \A j \in Segments(elf.ph, s - 1) : Disjoint(elf.ph[j], elf.ph[s])
              /\ elf.begin <= phBegin(elf.ph[s]) /\ phEnd(elf.ph[s]) <= elf.end
          BY <1>1 DEF Checked
        <5>2. elf.ph[s] \in ProgramHeader
          BY <2>1, SegmentStep
        <5>3. phBegin(elf.ph[s]) \in Nat /\ phEnd(elf.ph[s]) \in Nat
          BY <5>1, <5>2, SegmentFacts
        <5>4. x <= phBegin(elf.ph[s]) /\ phEnd(elf.ph[s]) <= y
          BY SMTT(20), <2>1, <3>4, <5>1, <5>3
        <5>. QED BY <5>1, <5>4
      <4>2. Segments(elf.ph, k) = Segments(elf.ph, elf.i) \cup {k}
        BY <2>2, <2>7
      <4>. HIDE DEF k
      <4>. QED BY <2>7, <3>2, <3>4, <4>1, <4>2 DEF Checked
    <3>9. elf'.pc = "check"
      BY <3>7 DEF checkAllocateProgramHeader32
    <3>10. HeldParts'
      BY <1>1, <1>2, <3>9 DEF HeldParts, Creating, WithHeaders, WithoutHeaders
    <3>11. elf'.ok /\ elf'.i <= HeaderCount /\ Checked(elf'.ph, elf'.i, elf'.begin, elf'.end)
           /\ elf'.begin \in Pages \cup {AddressRange - 1}
      BY <1>1, <2>2, <3>4, <3>7, <3>8
    <3>. QED BY <1>1, <1>2, <3>7, <3>9, <3>10, <3>11 DEF LoaderInv, AfterMap, Creating
  <2>. QED BY <2>4, <2>5, <2>6, <2>7
<1>6. CASE elf.i = HeaderCount /\ ~(elf.begin < elf.end)
  <2>1. elf' = Fails
    BY <1>6 DEF checkAllocateProgramHeader32
  <2>. QED BY <1>3, <2>1
<1>. QED BY <1>4, <1>5, <1>6

LEMMA ManagerInv ==
    ASSUME LoaderInv, NEW ok \in BOOLEAN, initUserLinearBlockManager(ok)
    PROVE  LoaderInv'
<1>0. elf \in LoaderState
  BY DEF LoaderInv
<1>1. /\ elf \in LoaderState /\ held \subseteq TaskParts \cup {"linear", "headers"} /\ memory = <<>>
      /\ using = {} /\ elf.ok /\ elf.i = elf.begin /\ Checked(elf.ph, HeaderCount, elf.begin, elf.end)
      /\ elf.begin \in Pages
  BY DEF LoaderInv, HeldParts, WithHeaders, BeforeMap, initUserLinearBlockManager
<1>2. CASE ok /\ elf.begin < HeapEnd
  <2>1. /\ held' = held \cup {"linear"} /\ using' = {a \in elf.begin..elf.end - 1 : a % PageSize = 0}
        /\ elf' = [elf EXCEPT !.pc = "map"] /\ memory' = <<>>
    BY <1>1, <1>2 DEF initUserLinearBlockManager
  <2>2. /\ elf' \in LoaderState /\ elf'.pc = "map" /\ elf'.i = elf.begin /\ elf'.begin = elf.begin
        /\ elf'.end = elf.end /\ elf'.ok = elf.ok /\ elf'.ph = elf.ph
    <3>1. "map" \in LoaderPlaces
      BY DEF LoaderPlaces, WithHeaders
    <3>2. elf' = [elf EXCEPT !.pc = "map"]
      BY <2>1
    <3>3. /\ elf' \in LoaderState /\ elf'.pc = "map" /\ elf'.i = elf.i /\ elf'.begin = elf.begin
          /\ elf'.end = elf.end /\ elf'.ok = elf.ok /\ elf'.ph = elf.ph
      BY SMT, <1>0, <3>1, <3>2, Moved
    <3>. QED BY <1>1, <3>3
  <2>3. HeldParts'
    BY <1>1, <2>1, <2>2 DEF HeldParts, Creating, WithHeaders, WithoutHeaders
  <2>4. Mapping(elf', using', memory')
    <3>1. elf.begin \in Nat /\ elf.end \in Nat
      BY SMT, <1>1, StateTypes, ConstantTypes
    <3>2. ASSUME NEW p PROVE p \in using' <=> p \in Pages /\ elf.begin <= p /\ p < elf.end
      BY SMT, <2>1, <3>1, MultipleMod, ConstantTypes DEF Pages
    <3>3. {p \in using' : p < elf.begin} = {}
      BY SMT, <3>1, <3>2 DEF Pages
    <3>4. DOMAIN memory' = Bytes({p \in using' : p < elf.begin})
      BY <2>1, <3>3, NoBytes
    <3>5. ASSUME NEW k \in Segments(elf.ph, HeaderCount), NEW p \in Pages, p < elf.begin,
                 phBegin(elf.ph[k]) <= p
          PROVE  FALSE
      <4>1. elf.ph[k] \in ProgramHeader
        BY <1>1, StateTypes DEF Segments
      <4>2. phBegin(elf.ph[k]) \in Nat /\ elf.begin <= phBegin(elf.ph[k])
        BY <1>1, <4>1, SegmentFacts DEF Checked
      <4>. QED BY SMT, <3>1, <3>5, <4>2 DEF Pages
    <3>6. elf.begin \in Pages /\ using' \subseteq Pages /\ (\A p \in using' : p < elf.end)
          /\ (\A p \in Pages : elf.begin <= p /\ p < elf.end => p \in using')
      BY <1>1, <3>2
    <3>. QED BY <2>2, <3>4, <3>5, <3>6 DEF Mapping
  <2>5. Checked(elf'.ph, HeaderCount, elf'.begin, elf'.end) /\ elf'.begin \in Pages
    BY <1>1, <2>2
  <2>. QED BY <2>2, <2>3, <2>4, <2>5 DEF LoaderInv, AfterMap, BeforeMap, Creating
<1>3. CASE ~(ok /\ elf.begin < HeapEnd)
  BY <1>3, EarlyFailure DEF initUserLinearBlockManager
<1>. QED BY <1>2, <1>3

-----------------------------------------------------------------------------
(* Mapping the pages *)

\* A page is one of those before i, i, or one of those after it.
LEMMA NextPage ==
    ASSUME NEW i \in Pages
    PROVE  /\ i + PageSize \in Pages /\ i \in Nat /\ i < i + PageSize
           /\ \A p \in Pages : p < i + PageSize <=> p < i \/ p = i
<1>1. PageSize \in Nat \ {0} /\ i \in Nat /\ Multiple(i, PageSize)
  BY ConstantTypes DEF Pages
<1>2. i + PageSize \in Pages
  BY <1>1, NextMultiple DEF Pages
<1>3. ASSUME NEW p \in Pages PROVE p < i + PageSize <=> p < i \/ p = i
  <2>1. p \in Nat /\ Multiple(p, PageSize)
    BY DEF Pages
  <2>2. i < p => i + PageSize <= p
    BY <1>1, <2>1, MultiplesApart
  <2>. QED BY SMT, <1>1, <2>1, <2>2
<1>. QED BY <1>1, <1>2, <1>3

\* The page of an address that lies in a segment lies in the segment.
LEMMA PageInSegment ==
    ASSUME NEW h \in ProgramHeader, h.align # 0, Accepted(h), NEW a \in Nat, phBegin(h) <= a, a < phEnd(h)
    PROVE  LET p == FLOOR(a, PageSize)
           IN  p \in Pages /\ phBegin(h) <= p /\ p < phEnd(h) /\ a \in BytesOf(p) /\ p <= a
<1>. DEFINE p == FLOOR(a, PageSize)
<1>1. phBegin(h) \in Nat /\ phEnd(h) \in Nat /\ Multiple(phBegin(h), PageSize)
  BY SegmentFacts
<1>2. p \in Nat /\ p <= a /\ a < p + PageSize /\ Multiple(p, PageSize) /\ PageSize \in Nat \ {0}
  BY FloorFacts, ConstantTypes
<1>. HIDE DEF p
<1>3. ~(p < phBegin(h))
  <2>1. p < phBegin(h) => p + PageSize <= phBegin(h)
    BY <1>1, <1>2, MultiplesApart
  <2>. QED BY SMT, <1>1, <1>2, <2>1
<1>4. a \in BytesOf(p)
  BY SMT, <1>2 DEF BytesOf
<1>5. p \in Pages /\ phBegin(h) <= p /\ p < phEnd(h) /\ a \in BytesOf(p) /\ p <= a
  BY SMT, <1>1, <1>2, <1>3, <1>4 DEF Pages
<1>. QED BY <1>5 DEF p

LEMMA BytesUnion ==
    ASSUME NEW S, NEW p
    PROVE  Bytes(S \cup {p}) = Bytes(S) \cup BytesOf(p)
BY DEF Bytes

LEMMA MapInv ==
    ASSUME LoaderInv, NEW ok \in BOOLEAN, mapAllocateProgramHeader32(ok)
    PROVE  LoaderInv'
<1>0. elf \in LoaderState
  BY DEF LoaderInv
<1>1. /\ held \subseteq TaskParts \cup {"linear", "headers"} /\ elf.begin \in Pages
      /\ Checked(elf.ph, HeaderCount, elf.begin, elf.end) /\ Mapping(elf, using, memory)
  BY DEF LoaderInv, HeldParts, WithHeaders, mapAllocateProgramHeader32
<1>2. held' = held
  BY DEF mapAllocateProgramHeader32
<1>3. /\ elf.i \in Nat /\ elf.begin \in Nat /\ elf.end \in Nat /\ elf.ok \in BOOLEAN
      /\ elf.ph \in [1..HeaderCount -> ProgramHeader]
  BY SMT, <1>0, StateTypes, ConstantTypes
<1>4. CASE elf.i >= elf.end
  <2>1. /\ elf' = IF elf.ok THEN [elf EXCEPT !.pc = "set", !.i = 0] ELSE Fails
        /\ UNCHANGED <<using, memory>>
    BY <1>4 DEF mapAllocateProgramHeader32
  <2>2. using \subseteq Pages /\ DOMAIN memory = Bytes(using)
    <3>1. using \subseteq Pages /\ (\A p \in using : p < elf.end)
          /\ DOMAIN memory = Bytes({p \in using : p < elf.i})
      BY <1>1 DEF Mapping
    <3>2. \A p \in using : p \in Nat
      BY <3>1 DEF Pages
    <3>3. {p \in using : p < elf.i} = using
      BY SMT, <1>3, <1>4, <3>1, <3>2
    <3>. QED BY <3>1, <3>3
  <2>3. CASE ~elf.ok
    <3>1. elf' \in LoaderState /\ elf'.pc = "delete" /\ elf'.ok = FALSE
      BY <1>0, <2>1, <2>3, FailsState
    <3>2. HeldParts'
      BY <1>1, <1>2, <3>1 DEF HeldParts, Creating, WithHeaders, WithoutHeaders
    <3>. QED BY <2>1, <2>2, <3>1, <3>2 DEF LoaderInv, BeforeMap, Creating
  <2>4. CASE elf.ok
    <3>. DEFINE e1 == [elf EXCEPT !.i = 0]
    <3>1. elf' = [e1 EXCEPT !.pc = "set"]
      BY <1>0, <2>1, <2>4 DEF LoaderState
    <3>2. e1 \in LoaderState /\ e1.i = 0 /\ e1.begin = elf.begin /\ e1.end = elf.end /\ e1.ok = elf.ok
          /\ e1.ph = elf.ph
      BY SMT, <1>0, Counted
    <3>. HIDE DEF e1
    <3>3. /\ elf' \in LoaderState /\ elf'.pc = "set" /\ elf'.i = 0 /\ elf'.begin = elf.begin
          /\ elf'.end = elf.end /\ elf'.ok = elf.ok /\ elf'.ph = elf.ph
      <4>1. "set" \in LoaderPlaces
        BY DEF LoaderPlaces, WithHeaders
      <4>. QED BY SMT, <3>1, <3>2, <4>1, Moved
    <3>4. Covered(elf.ph, memory)
      <4>. SUFFICES ASSUME NEW k \in Segments(elf.ph, HeaderCount), NEW a \in Nat,
                           phBegin(elf.ph[k]) <= a, a < phEnd(elf.ph[k])
                    PROVE  a \in DOMAIN memory
        BY DEF Covered
      <4>. DEFINE h == elf.ph[k]
                  p == FLOOR(a, PageSize)
      <4>1. h \in ProgramHeader
        BY <1>3 DEF Segments
      <4>2. h.align # 0 /\ Accepted(h) /\ phEnd(h) <= elf.end
        BY <1>1 DEF Checked
      <4>3. p \in Pages /\ phBegin(h) <= p /\ p < phEnd(h) /\ a \in BytesOf(p)
        BY <4>1, <4>2, PageInSegment
      <4>4. phEnd(h) \in Nat
        BY <4>1, <4>2, SegmentFacts
      <4>. HIDE DEF p
      <4>5. p < elf.i
        BY SMT, <1>3, <1>4, <4>2, <4>3, <4>4 DEF Pages
      <4>6. p \in using
        BY <1>1, <2>4, <4>3, <4>5 DEF Mapping
      <4>. QED BY <2>2, <4>3, <4>6 DEF Bytes
    <3>5. HeldParts'
      BY <1>1, <1>2, <3>3 DEF HeldParts, Creating, WithHeaders, WithoutHeaders
    <3>6. /\ Checked(elf'.ph, HeaderCount, elf'.begin, elf'.end) /\ elf'.begin \in Pages
          /\ Covered(elf'.ph, memory') /\ using' \subseteq Pages /\ DOMAIN memory' = Bytes(using')
      BY <1>1, <2>1, <2>2, <3>3, <3>4
    <3>7. elf'.i <= HeaderCount /\ elf'.ok /\ Image(elf'.ph, elf'.i, memory')
      BY SMT, <2>4, <3>3, ConstantTypes DEF Image, Segments
    <3>. QED BY <3>3, <3>5, <3>6, <3>7 DEF LoaderInv, BeforeMap, Creating
  <2>. QED BY <2>3, <2>4
<1>5. CASE elf.i < elf.end
  <2>. DEFINE inRange == \E k \in Loaded(HeaderCount) :
                               elf.i \in phBegin(elf.ph[k])..phEnd(elf.ph[k]) - 1
              maps == elf.ok /\ inRange
              mapped == [a \in DOMAIN memory \cup BytesOf(elf.i) |->
                                      IF a \in DOMAIN memory THEN memory[a] ELSE Garbage]
              e1 == [elf EXCEPT !.i = elf.i + PageSize]
              good == elf.ok /\ (maps => ok)
  <2>1. /\ elf' = [elf EXCEPT !.i = elf.i + PageSize, !.ok = good]
        /\ maps /\ ok => memory' = mapped /\ using' = using
        /\ ~(maps /\ ok) => using' = using \ {elf.i} /\ memory' = memory
    <3>1. ~(elf.i >= elf.end)
      BY SMT, <1>3, <1>5
    <3>. HIDE DEF mapped, inRange
    <3>. QED BY <1>0, <3>1 DEF mapAllocateProgramHeader32, mapped, inRange, LoaderState
  <2>2. /\ elf.i \in Pages /\ using \subseteq Pages /\ (\A p \in using : p < elf.end)
        /\ (\A p \in Pages : elf.i <= p /\ p < elf.end => p \in using)
        /\ DOMAIN memory = Bytes({p \in using : p < elf.i})
        /\ elf.ok => \A k \in Segments(elf.ph, HeaderCount), p \in Pages :
                  p < elf.i /\ phBegin(elf.ph[k]) <= p /\ p < phEnd(elf.ph[k]) => p \in using
    BY <1>1 DEF Mapping
  <2>3. elf.i \in using
    BY SMT, <1>3, <1>5, <2>2
  <2>4. /\ elf.i + PageSize \in Pages /\ elf.i < elf.i + PageSize
        /\ \A p \in Pages : p < elf.i + PageSize <=> p < elf.i \/ p = elf.i
    BY <2>2, NextPage
  <2>5. maps \in BOOLEAN /\ good \in BOOLEAN
    BY <1>3
  <2>6. ASSUME elf.ok, ~inRange, NEW k \in Segments(elf.ph, HeaderCount)
        PROVE  ~(phBegin(elf.ph[k]) <= elf.i /\ elf.i < phEnd(elf.ph[k]))
    <3>1. elf.ph[k] \in ProgramHeader /\ k \in Loaded(HeaderCount)
      BY <1>3 DEF Segments, Loaded
    <3>2. elf.ph[k].align # 0 /\ Accepted(elf.ph[k])
      BY <1>1 DEF Checked
    <3>3. phBegin(elf.ph[k]) \in Nat /\ phEnd(elf.ph[k]) \in Nat
      BY <3>1, <3>2, SegmentFacts
    <3>4. elf.i \notin phBegin(elf.ph[k])..phEnd(elf.ph[k]) - 1
      BY <2>6, <3>1
    <3>. QED BY SMT, <1>3, <3>3, <3>4
  <2>. HIDE DEF inRange
  <2>7. /\ elf' \in LoaderState /\ elf'.pc = "map" /\ elf'.i = elf.i + PageSize /\ elf'.begin = elf.begin
        /\ elf'.end = elf.end /\ elf'.ok = good /\ elf'.ph = elf.ph
    <3>. HIDE DEF good
    <3>1. elf.i + PageSize \in Nat
      BY <2>4 DEF Pages
    <3>2. e1 \in LoaderState /\ e1.pc = "map" /\ e1.i = elf.i + PageSize /\ e1.begin = elf.begin
          /\ e1.end = elf.end /\ e1.ph = elf.ph
      <4>1. elf.pc = "map"
        BY DEF mapAllocateProgramHeader32
      <4>. QED BY SMT, <1>0, <3>1, <4>1, Counted
    <3>3. elf' = [e1 EXCEPT !.ok = good]
      BY <1>0, <2>1 DEF LoaderState
    <3>. HIDE DEF e1
    <3>. QED BY SMT, <2>5, <3>2, <3>3, Decided
  <2>8. ASSUME maps /\ ok PROVE Mapping(elf', using', memory')
    <3>1. memory' = mapped /\ using' = using /\ good = TRUE
      BY <2>1, <2>8
    <3>2. {p \in using : p < elf.i + PageSize} = {p \in using : p < elf.i} \cup {elf.i}
      BY <2>2, <2>3, <2>4
    <3>3. DOMAIN memory' = Bytes({p \in using' : p < elf.i + PageSize})
      <4>1. DOMAIN mapped = DOMAIN memory \cup BytesOf(elf.i)
        OBVIOUS
      <4>. QED BY <2>2, <3>1, <3>2, <4>1, BytesUnion
    <3>4. \A p \in Pages : elf.i + PageSize <= p /\ p < elf.end => p \in using
      <4>1. \A p \in Pages : elf.i + PageSize <= p => elf.i <= p
        BY SMT, <1>3, ConstantTypes DEF Pages
      <4>. QED BY <2>2, <4>1
    <3>5. \A k \in Segments(elf.ph, HeaderCount), p \in Pages :
             p < elf.i + PageSize /\ phBegin(elf.ph[k]) <= p /\ p < phEnd(elf.ph[k]) => p \in using
      BY <2>2, <2>3, <2>4, <2>8
    <3>. HIDE DEF mapped
    <3>. QED BY <2>2, <2>4, <2>7, <3>1, <3>3, <3>4, <3>5
         DEF Mapping
  <2>9. ASSUME ~(maps /\ ok) PROVE Mapping(elf', using', memory')
    <3>1. memory' = memory /\ using' = using \ {elf.i}
      BY <2>1, <2>9
    <3>2. {p \in using' : p < elf.i + PageSize} = {p \in using : p < elf.i}
      <4>1. ~(elf.i < elf.i)
        BY SMT, <1>3
      <4>. QED BY <2>2, <2>4, <3>1, <4>1
    <3>3. \A p \in Pages : elf.i + PageSize <= p /\ p < elf.end => p \in using'
      <4>1. \A p \in Pages : elf.i + PageSize <= p => elf.i <= p /\ p # elf.i
        BY SMT, <1>3, ConstantTypes DEF Pages
      <4>. QED BY <2>2, <3>1, <4>1
    <3>4. ASSUME good, NEW k \in Segments(elf.ph, HeaderCount), NEW p \in Pages, p < elf.i + PageSize,
                 phBegin(elf.ph[k]) <= p, p < phEnd(elf.ph[k])
          PROVE  p \in using'
      <4>1. elf.ok /\ ~inRange
        BY <2>9, <3>4
      <4>2. p # elf.i
        BY <2>6, <3>4, <4>1
      <4>3. p < elf.i
        BY <2>4, <3>4, <4>2
      <4>. QED BY <2>2, <3>1, <3>4, <4>1, <4>2, <4>3
    <3>. HIDE DEF good
    <3>. QED BY <2>2, <2>4, <2>7, <3>1, <3>2, <3>3, <3>4 DEF Mapping
  <2>10. HeldParts'
    BY <1>1, <1>2, <2>7 DEF HeldParts, Creating, WithHeaders, WithoutHeaders
  <2>11. Checked(elf'.ph, HeaderCount, elf'.begin, elf'.end) /\ elf'.begin \in Pages
    BY <1>1, <2>7
  <2>12. Mapping(elf', using', memory')
    BY <2>8, <2>9
  <2>. QED BY <2>7, <2>10, <2>11, <2>12 DEF LoaderInv, AfterMap, BeforeMap, Creating
<1>. QED BY SMT, <1>3, <1>4, <1>5

-----------------------------------------------------------------------------
(* Reading the segments, and the end *)

LEMMA SetInv ==
    ASSUME LoaderInv, NEW ok \in BOOLEAN, setAllocateProgramHeader32(ok)
    PROVE  LoaderInv'
<1>0. elf \in LoaderState /\ elf.pc = "set"
  BY DEF LoaderInv, setAllocateProgramHeader32
<1>1. /\ held \subseteq TaskParts \cup {"linear", "headers"} /\ elf.begin \in Pages
      /\ Checked(elf.ph, HeaderCount, elf.begin, elf.end)
      /\ using \subseteq Pages /\ DOMAIN memory = Bytes(using)
      /\ elf.i <= HeaderCount /\ elf.ok /\ Covered(elf.ph, memory) /\ Image(elf.ph, elf.i, memory)
  BY <1>0 DEF LoaderInv, HeldParts, WithHeaders, AfterMap
<1>2. held' = held /\ using' = using
  BY DEF setAllocateProgramHeader32
<1>3. elf.i \in Nat /\ elf.ph \in [1..HeaderCount -> ProgramHeader]
  BY <1>0, StateTypes
<1>4. CASE elf.i = HeaderCount
  <2>1. elf' = [elf EXCEPT !.pc = "delete"] /\ memory' = memory
    BY <1>4 DEF setAllocateProgramHeader32
  <2>2. elf' \in LoaderState /\ elf'.pc = "delete" /\ elf'.ph = elf.ph
    <3>1. "delete" \in LoaderPlaces
      BY DEF LoaderPlaces, WithHeaders
    <3>. QED BY SMT, <1>0, <2>1, <3>1, Moved
  <2>3. HeldParts'
    BY <1>1, <1>2, <2>2 DEF HeldParts, Creating, WithHeaders, WithoutHeaders
  <2>4. Image(elf'.ph, HeaderCount, memory') /\ using' \subseteq Pages /\ DOMAIN memory' = Bytes(using')
    BY <1>1, <1>2, <1>4, <2>1, <2>2
  <2>. QED BY <2>2, <2>3, <2>4 DEF LoaderInv, BeforeMap, Creating
<1>5. CASE elf.i # HeaderCount
  <2>. DEFINE k == elf.i + 1
              h == elf.ph[k]
  <2>1. elf.i < HeaderCount
    BY SMT, <1>1, <1>3, <1>5, ConstantTypes
  <2>2. k \in Nat /\ k \in 1..HeaderCount /\ k <= HeaderCount /\ k - 1 = elf.i
    BY SMT, <1>3, <2>1, SegmentStep, ConstantTypes
  <2>3. Segments(elf.ph, k) = IF h.load THEN Segments(elf.ph, elf.i) \cup {k} ELSE Segments(elf.ph, elf.i)
    BY <1>3, <2>1, SegmentStep
  <2>4. ASSUME elf' = [elf EXCEPT !.i = k], Image(elf.ph, k, memory'), DOMAIN memory' = DOMAIN memory
        PROVE  LoaderInv'
    <3>1. /\ elf' \in LoaderState /\ elf'.pc = "set" /\ elf'.i = k /\ elf'.begin = elf.begin
          /\ elf'.end = elf.end /\ elf'.ok = elf.ok /\ elf'.ph = elf.ph
      <4>1. k \in Nat
        BY <2>2
      <4>. HIDE DEF k
      <4>. QED BY SMT, <1>0, <2>4, <4>1, Counted
    <3>2. HeldParts'
      BY <1>1, <1>2, <3>1 DEF HeldParts, Creating, WithHeaders, WithoutHeaders
    <3>3. Covered(elf.ph, memory')
      BY <1>1, <2>4 DEF Covered
    <3>. HIDE DEF k
    <3>4. /\ Checked(elf'.ph, HeaderCount, elf'.begin, elf'.end) /\ elf'.begin \in Pages
          /\ Covered(elf'.ph, memory') /\ using' \subseteq Pages /\ DOMAIN memory' = Bytes(using')
          /\ elf'.i <= HeaderCount /\ elf'.ok /\ Image(elf'.ph, elf'.i, memory')
      BY <1>1, <1>2, <2>2, <2>4, <3>1, <3>3
    <3>. QED BY <3>1, <3>2, <3>4 DEF LoaderInv, BeforeMap, Creating
  <2>5. CASE ~h.load
    <3>1. elf' = [elf EXCEPT !.i = k] /\ memory' = memory
      BY <1>5, <2>5 DEF setAllocateProgramHeader32
    <3>2. Image(elf.ph, k, memory')
      BY <1>1, <2>3, <2>5, <3>1 DEF Image
    <3>. QED BY <2>4, <3>1, <3>2
  <2>6. CASE h.load /\ ~ok
    <3>1. elf' = Fails /\ memory' = memory
      BY <1>5, <2>6 DEF setAllocateProgramHeader32
    <3>2. elf' \in LoaderState /\ elf'.pc = "delete" /\ elf'.ok = FALSE
      BY <1>0, <3>1, FailsState
    <3>3. HeldParts'
      BY <1>1, <1>2, <3>2 DEF HeldParts, Creating, WithHeaders, WithoutHeaders
    <3>4. using' \subseteq Pages /\ DOMAIN memory' = Bytes(using')
      BY <1>1, <1>2, <3>1
    <3>. QED BY <3>2, <3>3, <3>4 DEF LoaderInv, BeforeMap, Creating
  <2>7. CASE h.load /\ ok
    <3>. DEFINE A == h.address
                F == h.fileSize
                M == h.memorySize
    <3>1. /\ elf' = [elf EXCEPT !.i = k]
          /\ memory' = [a \in DOMAIN memory |->
                          CASE a \in A..A + F - 1 -> FileByte(k, a - A)
                            [] a \in A + F..A + M - 1 -> Zero
                            [] OTHER -> memory[a]]
      BY <1>5, <2>7 DEF setAllocateProgramHeader32
    <3>2. h \in ProgramHeader /\ k \in Segments(elf.ph, HeaderCount)
      BY <1>3, <2>2, <2>7 DEF Segments
    <3>3. h.align # 0 /\ Accepted(h) /\ \A j \in Segments(elf.ph, elf.i) : Disjoint(elf.ph[j], h)
      BY <1>1, <2>2, <3>2 DEF Checked
    <3>4. /\ A \in Nat /\ M \in Nat /\ F \in Nat /\ F <= M /\ phBegin(h) \in Nat /\ phEnd(h) \in Nat
          /\ phBegin(h) <= A /\ A + M <= phEnd(h)
      BY <3>2, <3>3, SegmentFacts
    <3>5. DOMAIN memory' = DOMAIN memory
      BY <3>1
    <3>6. ASSUME NEW a \in DOMAIN memory, a \in Nat
          PROVE  /\ ~(A <= a /\ a < A + M) => memory'[a] = memory[a]
                 /\ A <= a /\ a < A + F => memory'[a] = FileByte(k, a - A)
                 /\ A + F <= a /\ a < A + M => memory'[a] = Zero
      <4>. HIDE DEF A, F, M, k
      <4>1. memory'[a] = CASE a \in A..A + F - 1 -> FileByte(k, a - A)
                           [] a \in A + F..A + M - 1 -> Zero
                           [] OTHER -> memory[a]
        BY <3>1
      <4>2. a \in A..A + F - 1 <=> A <= a /\ a < A + F
        BY SMT, <3>4, <3>6
      <4>3. a \in A + F..A + M - 1 <=> A + F <= a /\ a < A + M
        BY SMT, <3>4, <3>6
      <4>4. ~(a < A + F /\ A + F <= a) /\ (A <= a /\ a < A + M <=> a \in A..A + F - 1 \/ a \in A + F..A + M - 1)
        BY SMT, <3>4, <3>6
      <4>. QED BY <4>1, <4>2, <4>3, <4>4
    <3>7. ASSUME NEW s \in Segments(elf.ph, elf.i), NEW x \in 0..elf.ph[s].memorySize - 1
          PROVE  /\ elf.ph[s].address + x \in DOMAIN memory'
                 /\ memory'[elf.ph[s].address + x] = IF x < elf.ph[s].fileSize THEN FileByte(s, x) ELSE Zero
      <4>. DEFINE g == elf.ph[s]
                  a == g.address + x
      <4>1. s \in Segments(elf.ph, HeaderCount) /\ g \in ProgramHeader
        BY <1>3, <2>1, SegmentStep DEF Segments
      <4>2. g.align # 0 /\ Accepted(g)
        BY <1>1, <4>1 DEF Checked
      <4>3. /\ g.address \in Nat /\ g.memorySize \in Nat /\ phBegin(g) \in Nat /\ phEnd(g) \in Nat
            /\ phBegin(g) <= g.address /\ g.address + g.memorySize <= phEnd(g)
        BY <4>1, <4>2, SegmentFacts
      <4>4. phEnd(g) <= phBegin(h) \/ phBegin(g) >= phEnd(h)
        BY <3>3 DEF Disjoint
      <4>5. a \in DOMAIN memory /\ memory[a] = IF x < g.fileSize THEN FileByte(s, x) ELSE Zero
        BY <1>1 DEF Image
      <4>6. a \in Nat /\ phBegin(g) <= a /\ a < phEnd(g)
        <5>1. x \in Nat /\ x < g.memorySize
          BY SMT, <3>7, <4>3
        <5>. HIDE DEF g
        <5>. QED BY SMT, <4>3, <5>1
      <4>. HIDE DEF a, g, A, M, F, h
      <4>7. ~(A <= a /\ a < A + M)
        BY SMT, <3>4, <4>3, <4>4, <4>6
      <4>8. memory'[a] = memory[a]
        BY <3>6, <4>5, <4>6, <4>7
      <4>9. a \in DOMAIN memory' /\ memory'[a] = IF x < g.fileSize THEN FileByte(s, x) ELSE Zero
        BY <3>5, <4>5, <4>8
      <4>. QED BY <4>9 DEF a, g
    <3>8. ASSUME NEW x \in 0..M - 1
          PROVE  /\ A + x \in DOMAIN memory'
                 /\ memory'[A + x] = IF x < F THEN FileByte(k, x) ELSE Zero
      <4>. DEFINE a == A + x
      <4>. HIDE DEF A, M, F
      <4>1. x \in Nat /\ x < M /\ a \in Nat /\ phBegin(h) <= a /\ a < phEnd(h) /\ a - A = x
        BY SMT, <3>4, <3>8
      <4>2. a \in DOMAIN memory
        BY <1>1, <3>2, <4>1 DEF Covered
      <4>3. /\ x < F => A <= a /\ a < A + F
            /\ ~(x < F) => A + F <= a /\ a < A + M
        BY SMT, <3>4, <4>1
      <4>. HIDE DEF a, k
      <4>4. memory'[a] = IF x < F THEN FileByte(k, x) ELSE Zero
        BY <3>6, <4>1, <4>2, <4>3
      <4>. QED BY <3>5, <4>2, <4>4 DEF a
    <3>9. Image(elf.ph, k, memory')
      <4>1. Segments(elf.ph, k) = Segments(elf.ph, elf.i) \cup {k}
        BY <2>3, <2>7
      <4>. HIDE DEF k
      <4>. QED BY <3>7, <3>8, <4>1 DEF Image
    <3>. QED BY <2>4, <3>1, <3>5, <3>9
  <2>. QED BY <2>5, <2>6, <2>7
<1>. QED BY <1>4, <1>5

LEMMA DeleteInv ==
    ASSUME LoaderInv, deleteProgramHeader32
    PROVE  LoaderInv'
<1>0. elf \in LoaderState /\ elf.pc = "delete"
  BY DEF LoaderInv, deleteProgramHeader32
<1>1. /\ held \subseteq TaskParts \cup {"linear", "headers"} /\ using \subseteq Pages
      /\ DOMAIN memory = Bytes(using) /\ (elf.ok => Image(elf.ph, HeaderCount, memory))
  BY <1>0 DEF LoaderInv, HeldParts, WithHeaders, AfterMap
<1>. DEFINE x == IF elf.ok THEN "close" ELSE "fail"
<1>2. elf' = [elf EXCEPT !.pc = x] /\ held' = held \ {"headers"} /\ using' = using /\ memory' = memory
  BY DEF deleteProgramHeader32
<1>3. x \in LoaderPlaces /\ x \in {"close", "fail"} /\ (x = "close" => elf.ok)
  BY DEF LoaderPlaces, WithoutHeaders
<1>. HIDE DEF x
<1>4. elf' \in LoaderState /\ elf'.pc = x /\ elf'.ph = elf.ph
  BY SMT, <1>0, <1>2, <1>3, Moved
<1>5. HeldParts'
  BY <1>1, <1>2, <1>3, <1>4 DEF HeldParts, Creating, WithHeaders, WithoutHeaders
<1>6. using' \subseteq Pages /\ DOMAIN memory' = Bytes(using')
      /\ (elf'.pc = "close" => Image(elf'.ph, HeaderCount, memory'))
  BY <1>1, <1>2, <1>3, <1>4
<1>. QED BY <1>3, <1>4, <1>5, <1>6 DEF LoaderInv, BeforeMap, Creating

LEMMA CloseInv ==
    ASSUME LoaderInv, NEW ok \in BOOLEAN, syncCloseFile(ok)
    PROVE  LoaderInv'
<1>0. elf \in LoaderState /\ elf.pc \in {"close", "fail"}
  BY DEF LoaderInv, syncCloseFile
<1>1. /\ held \subseteq TaskParts \cup {"linear"} /\ using \subseteq Pages
      /\ DOMAIN memory = Bytes(using) /\ (elf.pc = "close" => Image(elf.ph, HeaderCount, memory))
  BY <1>0 DEF LoaderInv, HeldParts, WithoutHeaders, AfterMap
<1>. DEFINE x == IF elf.pc = "close" THEN "switch" ELSE "terminate"
            e1 == [elf EXCEPT !.open = ~ok]
<1>2. elf' = [e1 EXCEPT !.pc = x] /\ held' = held /\ using' = using /\ memory' = memory
  BY <1>0 DEF syncCloseFile, LoaderState
<1>3. x \in LoaderPlaces /\ x \in {"switch", "terminate"} /\ (x = "switch" => elf.pc = "close")
  BY DEF LoaderPlaces, WithoutHeaders
<1>4. e1 \in LoaderState /\ e1.ph = elf.ph
  <2>1. (~ok) \in BOOLEAN
    OBVIOUS
  <2>2. e1 \in LoaderState
    BY <1>0, <2>1 DEF LoaderState
  <2>3. e1.ph = elf.ph
    BY <1>0 DEF LoaderState
  <2>. QED BY <2>2, <2>3
<1>. HIDE DEF x, e1
<1>5. elf' \in LoaderState /\ elf'.pc = x /\ elf'.ph = elf.ph
  BY SMT, <1>2, <1>3, <1>4, Moved
<1>6. HeldParts'
  BY <1>1, <1>2, <1>3, <1>5 DEF HeldParts, Creating, WithHeaders, WithoutHeaders
<1>7. using' \subseteq Pages /\ DOMAIN memory' = Bytes(using')
      /\ (elf'.pc = "switch" => Image(elf'.ph, HeaderCount, memory'))
  BY <1>1, <1>2, <1>3, <1>5
<1>. QED BY <1>3, <1>5, <1>6, <1>7 DEF LoaderInv, BeforeMap, Creating

LEMMA SwitchInv ==
    ASSUME LoaderInv, NEW ok \in BOOLEAN, switchToUserMode(ok)
    PROVE  LoaderInv'
<1>0. elf \in LoaderState /\ elf.pc = "switch"
  BY DEF LoaderInv, switchToUserMode
<1>1. /\ held \subseteq TaskParts \cup {"linear"} /\ using \subseteq Pages
      /\ DOMAIN memory = Bytes(using) /\ Image(elf.ph, HeaderCount, memory)
  BY <1>0 DEF LoaderInv, HeldParts, WithoutHeaders, AfterMap
<1>. DEFINE x == IF ok THEN "user" ELSE "terminate"
<1>2. elf' = [elf EXCEPT !.pc = x] /\ held' = held /\ using' = using /\ memory' = memory
  BY DEF switchToUserMode
<1>3. x \in LoaderPlaces /\ x \in {"user", "terminate"}
  BY DEF LoaderPlaces, WithoutHeaders
<1>. HIDE DEF x
<1>4. elf' \in LoaderState /\ elf'.pc = x /\ elf'.ph = elf.ph
  BY SMT, <1>0, <1>2, <1>3, Moved
<1>5. HeldParts'
  BY <1>1, <1>2, <1>3, <1>4 DEF HeldParts, Creating, WithHeaders, WithoutHeaders
<1>6. using' \subseteq Pages /\ DOMAIN memory' = Bytes(using') /\ Image(elf'.ph, HeaderCount, memory')
  BY <1>1, <1>2, <1>4
<1>. QED BY <1>3, <1>4, <1>5, <1>6 DEF LoaderInv, BeforeMap, Creating

\* terminateCurrentTask finds every mapped byte in a page that is given out.
LEMMA ExitInv ==
    ASSUME LoaderInv, terminateCurrentTask
    PROVE  LoaderInv'
<1>0. elf \in LoaderState /\ elf.pc \in {"user", "terminate"}
  BY DEF LoaderInv, terminateCurrentTask
<1>1. held \subseteq TaskParts \cup {"linear"} /\ using \subseteq Pages /\ DOMAIN memory = Bytes(using)
  BY <1>0 DEF LoaderInv, HeldParts, WithoutHeaders, AfterMap
<1>. DEFINE e1 == [elf EXCEPT !.open = FALSE]
            left == {b \in DOMAIN memory : FLOOR(b, PageSize) \notin using}
<1>2. /\ elf' = [e1 EXCEPT !.pc = "exited"] /\ held' = held \ {"openFiles", "linear", "pageTable", "taskMemory"}
      /\ memory' = [a \in left |-> memory[a]]
  BY <1>0 DEF terminateCurrentTask, LoaderState
<1>3. e1 \in LoaderState /\ e1.open = FALSE
  <2>1. FALSE \in BOOLEAN
    OBVIOUS
  <2>. QED BY <1>0, <2>1, Opened
<1>. HIDE DEF e1
<1>4. elf' \in LoaderState /\ elf'.pc = "exited" /\ elf'.open = FALSE
  <2>1. "exited" \in LoaderPlaces
    BY DEF LoaderPlaces
  <2>. QED BY SMT, <1>2, <1>3, <2>1, Moved
<1>5. left = {}
  <2>. SUFFICES ASSUME NEW b \in Bytes(using) PROVE FLOOR(b, PageSize) \in using
    BY <1>1
  <2>1. PICK p \in using : b \in BytesOf(p)
    BY DEF Bytes
  <2>2. p \in Nat /\ Multiple(p, PageSize) /\ PageSize \in Nat \ {0}
    BY <1>1, ConstantTypes DEF Pages
  <2>3. b \in Nat /\ p <= b /\ b < p + PageSize
    BY SMT, <2>1, <2>2 DEF BytesOf
  <2>4. FLOOR(b, PageSize) = p
    BY <2>2, <2>3, PageOf
  <2>. QED BY <2>1, <2>4
<1>6. memory' = <<>>
  <2>1. memory' = [a \in {} |-> memory[a]]
    BY <1>2, <1>5
  <2>2. memory' \in Seq({}) /\ Len(memory') = 0
    BY SMT, <2>1
  <2>. QED BY SMT, <2>2
<1>7. held' = {}
  BY <1>1, <1>2 DEF TaskParts
<1>8. HeldParts'
  BY <1>4, <1>6, <1>7 DEF HeldParts, Creating, WithHeaders, WithoutHeaders
<1>. QED BY <1>4, <1>8 DEF LoaderInv, BeforeMap, AfterMap, Creating

-----------------------------------------------------------------------------
LEMMA LoaderInvImplies == LoaderInv => ProgramLoadedOrGone
<1>. SUFFICES ASSUME LoaderInv PROVE ProgramLoadedOrGone
  OBVIOUS
<1>1. elf.pc = "user" => Image(elf.ph, HeaderCount, memory)
  BY DEF LoaderInv
<1>2. elf.pc \in {"user", "terminate"} => DOMAIN memory = Bytes(using)
  BY DEF LoaderInv, AfterMap
<1>3. elf.pc \in {"none", "exited"} => held = {} /\ memory = <<>> /\ ~elf.open
  BY DEF LoaderInv, HeldParts
<1>4. Loaded(HeaderCount) = Segments(elf.ph, HeaderCount)
  BY DEF Loaded, Segments
<1>. QED BY <1>1, <1>2, <1>3, <1>4 DEF ProgramLoadedOrGone, Image, Bytes

LEMMA LoaderStepInv == LoaderInv /\ [LoaderNext]_elfVars => LoaderInv'
<1>. SUFFICES ASSUME LoaderInv, [LoaderNext]_elfVars PROVE LoaderInv'
  OBVIOUS
<1>1. CASE UNCHANGED elfVars
  <2>1. elf' = elf /\ held' = held /\ using' = using /\ memory' = memory
    BY <1>1 DEF elfVars
  <2>2. HeldParts'
    BY <2>1 DEF LoaderInv, HeldParts
  <2>. QED BY SMT, <2>1, <2>2 DEF LoaderInv
<1>2. CASE \E ok \in BOOLEAN : createTaskAndMemorySpace(ok)
  BY <1>2, CreateInv
<1>3. CASE \E ok \in BOOLEAN : syncOpenFileN(ok) \/ checkELFHeader32(ok)
  BY <1>3, OpenInv, HeaderInv
<1>4. CASE \E ok \in BOOLEAN : allocateProgramHeader32(ok) \/ readProgramHeader32(ok)
  BY <1>4, AllocateInv, ReadInv
<1>5. CASE \E ok \in BOOLEAN : initUserLinearBlockManager(ok)
  BY <1>5, ManagerInv
<1>6. CASE \E ok \in BOOLEAN : mapAllocateProgramHeader32(ok) \/ setAllocateProgramHeader32(ok)
  BY <1>6, MapInv, SetInv
<1>7. CASE \E ok \in BOOLEAN : syncCloseFile(ok) \/ switchToUserMode(ok)
  BY <1>7, CloseInv, SwitchInv
<1>8. CASE checkAllocateProgramHeader32 \/ deleteProgramHeader32 \/ terminateCurrentTask
  BY <1>8, CheckInv, DeleteInv, ExitInv
<1>. QED BY <1>1, <1>2, <1>3, <1>4, <1>5, <1>6, <1>7, <1>8 DEF LoaderNext

\* For every set of program headers, page size and width of an address: a program that
\* elfLoader starts has its whole image, and the task of one that cannot be started, or
\* that ends, leaves no page, no open file and none of the loader's memory behind.
THEOREM ProgramsLoadedOrGone == LoaderSpec => []ProgramLoadedOrGone
<1>1. LoaderInit => LoaderInv
  BY LoaderInitInv
<1>2. LoaderInv /\ [LoaderNext]_elfVars => LoaderInv'
  BY LoaderStepInv
<1>3. LoaderInv => ProgramLoadedOrGone
  BY LoaderInvImplies
<1>. QED BY <1>1, <1>2, <1>3, PTL DEF LoaderSpec

-----------------------------------------------------------------------------
(* Disks *)

At == {"none", "pending", "serving", "handler", "finished", "completing", "completed"}
Request == [command : {NoDisk, "read", "identify"}, port : Port \cup {NoDisk}, at : At,
            carriedOut : BOOLEAN]
PortState == [identified : BOOLEAN, pending : Seq(DiskRequest),
              serving : DiskRequest \cup {NoDisk}, interrupt : BOOLEAN]

\* The requests in a list, each of which is there once.
Listed(list) == {list[i] : i \in 1..Len(list)}
Once(list) == \A i, j \in 1..Len(list) : list[i] = list[j] => i = j

\* The queue q of port p agrees with the requests d.
QueueAgrees(q, d, p) ==
    /\ q \in PortState
    /\ Once(q.pending)
    /\ \A r \in DiskRequest :
          /\ d[r].at = "pending" /\ d[r].port = p <=> r \in Listed(q.pending)
          /\ d[r].at = "serving" /\ d[r].port = p <=> q.serving = r

\* An idle port has nothing to do.
Busy(q) == q.pending # <<>> => q.serving # NoDisk

LEMMA ListFacts ==
    ASSUME NEW list \in Seq(DiskRequest), list # <<>>, Once(list)
    PROVE  /\ Head(list) \in DiskRequest /\ Tail(list) \in Seq(DiskRequest)
           /\ Len(Tail(list)) = Len(list) - 1
           /\ Once(Tail(list)) /\ Head(list) \notin Listed(Tail(list))
           /\ Listed(list) = Listed(Tail(list)) \cup {Head(list)}
<1>1. /\ Head(list) \in DiskRequest /\ Tail(list) \in Seq(DiskRequest) /\ Len(Tail(list)) = Len(list) - 1
      /\ \A i \in 1..Len(Tail(list)) : Tail(list)[i] = list[i + 1]
  BY TailFacts
<1>2. Len(list) \in Nat \ {0} /\ Head(list) = list[1]
  BY SMT, SeqEmpty
<1>3. \A i \in 1..Len(Tail(list)) : i + 1 \in 1..Len(list) /\ 1 \in 1..Len(list) /\ i + 1 # 1
  BY SMT, <1>1, <1>2
<1>4. Once(Tail(list))
  <2>. SUFFICES ASSUME NEW i \in 1..Len(Tail(list)), NEW j \in 1..Len(Tail(list)),
                       Tail(list)[i] = Tail(list)[j]
               PROVE  i = j
    BY DEF Once
  <2>1. i + 1 = j + 1
    BY <1>1, <1>3 DEF Once
  <2>. QED BY SMT, <2>1, <1>1, <1>2
<1>5. Head(list) \notin Listed(Tail(list))
  BY SMT, <1>1, <1>2, <1>3 DEF Once, Listed
<1>6. Listed(list) = Listed(Tail(list)) \cup {Head(list)}
  <2>1. ASSUME NEW i \in 1..Len(list), i # 1
        PROVE  i - 1 \in 1..Len(Tail(list)) /\ Tail(list)[i - 1] = list[i]
    BY SMT, <1>1, <1>2, <2>1
  <2>2. Listed(list) \subseteq Listed(Tail(list)) \cup {Head(list)}
    BY SMT, <1>2, <2>1 DEF Listed
  <2>3. Listed(Tail(list)) \cup {Head(list)} \subseteq Listed(list)
    BY SMT, <1>1, <1>2, <1>3 DEF Listed
  <2>. QED BY <2>2, <2>3
<1>. QED BY <1>1, <1>4, <1>5, <1>6

LEMMA PrependFacts ==
    ASSUME NEW list \in Seq(DiskRequest), Once(list), NEW r \in DiskRequest, r \notin Listed(list)
    PROVE  /\ <<r>> \o list \in Seq(DiskRequest) /\ <<r>> \o list # <<>>
           /\ Len(<<r>> \o list) = Len(list) + 1
           /\ Once(<<r>> \o list)
           /\ Listed(<<r>> \o list) = Listed(list) \cup {r}
<1>. DEFINE new == <<r>> \o list
<1>1. <<r>> \in Seq(DiskRequest) /\ Len(<<r>>) = 1 /\ <<r>>[1] = r /\ Len(list) \in Nat
  BY SMT, SeqLength
<1>2. /\ new \in Seq(DiskRequest) /\ Len(new) = Len(list) + 1
      /\ \A i \in 1..Len(list) + 1 : new[i] = IF i <= 1 THEN <<r>>[i] ELSE list[i - 1]
  BY SMT, <1>1, ConcatFacts
<1>3. \A i \in 1..Len(new) : \/ i = 1 /\ new[i] = r
                             \/ i - 1 \in 1..Len(list) /\ new[i] = list[i - 1]
  BY SMT, <1>1, <1>2
<1>4. Once(new)
  <2>. SUFFICES ASSUME NEW i \in 1..Len(new), NEW j \in 1..Len(new), new[i] = new[j] PROVE i = j
    BY DEF Once
  <2>1. CASE i = 1
    BY SMT, <1>3, <2>1, <1>1 DEF Listed
  <2>2. CASE j = 1
    BY SMT, <1>3, <2>2, <1>1 DEF Listed
  <2>3. CASE i # 1 /\ j # 1
    <3>1. i - 1 = j - 1
      BY <1>3, <2>3 DEF Once
    <3>. QED BY SMT, <3>1, <1>1, <1>2
  <2>. QED BY <2>1, <2>2, <2>3
<1>5. Listed(new) \subseteq Listed(list) \cup {r}
  BY <1>3 DEF Listed
<1>6. Listed(list) \cup {r} \subseteq Listed(new)
  <2>1. \A i \in 1..Len(list) : i + 1 \in 1..Len(new) /\ new[i + 1] = list[i]
    BY SMT, <1>1, <1>2
  <2>2. 1 \in 1..Len(new) /\ new[1] = r
    BY SMT, <1>1, <1>2
  <2>3. r \in Listed(new)
    BY <2>2 DEF Listed
  <2>4. \A i \in 1..Len(list) : list[i] \in Listed(new)
    BY <2>1 DEF Listed
  <2>. QED BY <2>3, <2>4 DEF Listed
<1>7. new # <<>>
  BY SMT, <1>1, <1>2
<1>. QED BY <1>2, <1>4, <1>5, <1>6, <1>7

\* Requests of other ports, and requests that have left the port, do not concern a port.
Elsewhere(x, p) == ~(x.at \in {"pending", "serving"} /\ x.port = p)

LEMMA OthersAgree ==
    ASSUME NEW p, NEW q, NEW d, NEW e, QueueAgrees(q, d, p),
           \A r \in DiskRequest : e[r] = d[r] \/ (Elsewhere(d[r], p) /\ Elsewhere(e[r], p))
    PROVE  QueueAgrees(q, e, p)
BY DEF QueueAgrees, Elsewhere

\* servePortQueue keeps the queue and the requests in agreement, leaves no work to an idle
\* port, and an interrupt follows every command.
LEMMA ServeFacts ==
    ASSUME NEW p \in Port, NEW q, NEW d \in [DiskRequest -> Request], QueueAgrees(q, d, p),
           NEW x, x = servePortQueue(q, d)
    PROVE  /\ QueueAgrees(x.port, x.disk, p) /\ Busy(x.port)
           /\ x.disk \in [DiskRequest -> Request]
           /\ x.port.serving # q.serving \/ q.interrupt => x.port.interrupt
           /\ \A r \in DiskRequest :
                 x.disk[r] = d[r] \/ (d[r].at = "pending" /\ d[r].port = p /\ x.disk[r] = Sent(d[r]))
<1>0. q \in PortState /\ Once(q.pending) /\ q.pending \in Seq(DiskRequest)
  BY DEF QueueAgrees, PortState
<1>1. CASE q.serving # NoDisk \/ q.pending = <<>>
  <2>1. x.port = q /\ x.disk = d
    BY <1>1 DEF servePortQueue
  <2>. QED BY <1>0, <1>1, <2>1 DEF Busy, PortState
<1>2. CASE q.serving = NoDisk /\ q.pending # <<>>
  <2>. DEFINE r == Head(q.pending)
  <2>1. /\ r \in DiskRequest /\ Tail(q.pending) \in Seq(DiskRequest)
        /\ Once(Tail(q.pending)) /\ r \notin Listed(Tail(q.pending))
        /\ Listed(q.pending) = Listed(Tail(q.pending)) \cup {r}
    BY <1>0, <1>2, ListFacts
  <2>2. /\ x.port = [[q EXCEPT !.pending = Tail(@), !.serving = r] EXCEPT !.interrupt = TRUE]
        /\ x.disk = [d EXCEPT ![r] = Sent(@)]
    BY <1>2 DEF servePortQueue, Interrupting
  <2>3. /\ x.port \in PortState /\ x.port.pending = Tail(q.pending) /\ x.port.serving = r
        /\ x.port.interrupt
    BY <1>0, <2>1, <2>2 DEF PortState
  <2>4. d[r].at = "pending" /\ d[r].port = p
    BY <2>1 DEF QueueAgrees
  <2>5. /\ d[r] \in Request /\ Sent(d[r]) \in Request
        /\ Sent(d[r]).at = "serving" /\ Sent(d[r]).port = p
    BY <2>1, <2>4 DEF Request, Sent, At
  <2>6. /\ x.disk \in [DiskRequest -> Request] /\ x.disk[r] = Sent(d[r])
        /\ \A o \in DiskRequest : o # r => x.disk[o] = d[o]
    BY <2>1, <2>2, <2>5
  <2>7. ASSUME NEW o \in DiskRequest
        PROVE  /\ x.disk[o].at = "pending" /\ x.disk[o].port = p <=> o \in Listed(x.port.pending)
               /\ x.disk[o].at = "serving" /\ x.disk[o].port = p <=> x.port.serving = o
    <3>1. CASE o = r
      BY <2>1, <2>3, <2>5, <2>6, <3>1
    <3>2. CASE o # r
      <4>1. /\ d[o].at = "pending" /\ d[o].port = p <=> o \in Listed(q.pending)
            /\ d[o].at = "serving" /\ d[o].port = p <=> q.serving = o
        BY DEF QueueAgrees
      <4>2. q.serving # o
        BY <1>2, AHCIAssumption
      <4>. QED BY <2>1, <2>3, <2>6, <3>2, <4>1, <4>2
    <3>. QED BY <3>1, <3>2
  <2>8. QueueAgrees(x.port, x.disk, p)
    BY <2>1, <2>3, <2>7 DEF QueueAgrees
  <2>9. Busy(x.port)
    BY <2>1, <2>3, AHCIAssumption DEF Busy
  <2>. QED BY <2>3, <2>4, <2>6, <2>8, <2>9
<1>. QED BY <1>1, <1>2

-----------------------------------------------------------------------------
\* The inductive invariant: each request is in the one place that its field at tells.
Handled == {"serving", "handler", "finished", "completing", "completed"}

RequestsCarriedOut ==
    /\ disk \in [DiskRequest -> Request]
    /\ \A r \in DiskRequest : disk[r].at \in Handled => disk[r].carriedOut

InterruptDue(p) ==
    port[p].serving # NoDisk => port[p].interrupt \/ (handler.port = p /\ handler.pc = "serve")

PortsServed ==
    /\ port \in [Port -> PortState]
    /\ \A p \in Port : QueueAgrees(port[p], disk, p) /\ Busy(port[p]) /\ InterruptDue(p)

HandlerHas ==
    /\ handler \in [pc : {"idle", "clear", "serve", "finish", "permit"}, port : Port \cup {NoDisk},
                    request : DiskRequest \cup {NoDisk}]
    /\ handler.pc # "idle" => handler.port \in Port
    /\ handler.pc = "finish" => handler.request \in DiskRequest /\ disk[handler.request].at = "handler"

FinishedListed ==
    /\ finished \in [list : Seq(DiskRequest), permits : Nat]
    /\ Once(finished.list)
    /\ \A r \in Listed(finished.list) : disk[r].at = "finished"

PermitsCounted ==
    Len(finished.list) = finished.permits + IF handler.pc = "permit" THEN 1 ELSE 0

Completing ==
    /\ completing \in DiskRequest \cup {NoDisk}
    /\ completing # NoDisk => disk[completing].at = "completing"

AHCIInv ==
    /\ RequestsCarriedOut /\ PortsServed /\ HandlerHas
    /\ FinishedListed /\ PermitsCounted /\ Completing

LEMMA InitAHCIInv == AHCIInit => AHCIInv
<1>. SUFFICES ASSUME AHCIInit PROVE AHCIInv
  OBVIOUS
<1>1. RequestsCarriedOut
  BY DEF AHCIInit, RequestsCarriedOut, Request, NoDiskRequest, At, Handled
<1>2. \A p \in Port : port[p] \in PortState /\ port[p].pending = <<>> /\ port[p].serving = NoDisk
  BY SMT DEF AHCIInit, PortState
<1>3. \A r \in DiskRequest : disk[r].at = "none"
  BY DEF AHCIInit, NoDiskRequest
<1>4. \A p \in Port : QueueAgrees(port[p], disk, p) /\ Busy(port[p]) /\ InterruptDue(p)
  BY SMT, <1>2, <1>3, AHCIAssumption DEF QueueAgrees, Busy, InterruptDue, Once, Listed
<1>5. PortsServed
  BY <1>2, <1>4 DEF PortsServed, AHCIInit
<1>6. HandlerHas
  BY DEF AHCIInit, HandlerHas, NoInterrupt
<1>7. FinishedListed
  BY SMT DEF AHCIInit, FinishedListed, Once, Listed
<1>8. PermitsCounted
  BY SMT DEF AHCIInit, PermitsCounted, NoInterrupt
<1>9. Completing
  BY DEF AHCIInit, Completing
<1>. QED BY <1>1, <1>5, <1>6, <1>7, <1>8, <1>9 DEF AHCIInv

\* A request that the handler, the finish list or the completing task has stays where it is
\* when only others change.
LEMMA OthersKeepRequests ==
    ASSUME FinishedListed, Completing, HandlerHas, UNCHANGED <<finished, completing, handler>>,
           \A r \in DiskRequest :
              disk'[r] = disk[r] \/ disk[r].at \notin {"finished", "completing", "handler"}
    PROVE  FinishedListed' /\ Completing' /\ HandlerHas'
<1>1. \A r \in Listed(finished.list) : r \in DiskRequest
  BY SMT, SeqElement DEF FinishedListed, Listed
<1>2. FinishedListed'
  BY <1>1 DEF FinishedListed, Once, Listed
<1>3. Completing'
  BY DEF Completing
<1>4. HandlerHas'
  BY DEF HandlerHas
<1>. QED BY <1>2, <1>3, <1>4

LEMMA EnqueueInv ==
    ASSUME AHCIInv, NEW r \in DiskRequest, NEW p \in Port, NEW c \in {"read", "identify"},
           disk[r] = NoDiskRequest, Enqueue(r, p, c)
    PROVE  AHCIInv'
<1>. DEFINE q == [port[p] EXCEPT !.pending = <<r>> \o @]
            d == [disk EXCEPT ![r] = createDiskRequest(p, c)]
            x == servePortQueue(q, d)
<1>1. /\ port' = [port EXCEPT ![p] = x.port] /\ disk' = x.disk
      /\ UNCHANGED <<handler, finished, completing, ahciPanic>>
  BY DEF Enqueue
<1>2. /\ disk \in [DiskRequest -> Request] /\ port \in [Port -> PortState] /\ port[p] \in PortState
      /\ QueueAgrees(port[p], disk, p) /\ port[p].pending \in Seq(DiskRequest)
      /\ Once(port[p].pending) /\ r \notin Listed(port[p].pending) /\ port[p].serving # r
  <2>1. disk \in [DiskRequest -> Request] /\ port \in [Port -> PortState] /\ QueueAgrees(port[p], disk, p)
    BY DEF AHCIInv, RequestsCarriedOut, PortsServed
  <2>2. port[p] \in PortState /\ Once(port[p].pending)
    BY <2>1 DEF QueueAgrees
  <2>3. port[p].pending \in Seq(DiskRequest)
    BY <2>2 DEF PortState
  <2>4. disk[r].at = "none"
    BY SMT DEF NoDiskRequest
  <2>5. r \notin Listed(port[p].pending) /\ port[p].serving # r
    BY <2>1, <2>4 DEF QueueAgrees
  <2>. QED BY <2>1, <2>2, <2>3, <2>5
<1>3. createDiskRequest(p, c) \in Request /\ createDiskRequest(p, c).at = "pending"
      /\ createDiskRequest(p, c).port = p
  BY DEF createDiskRequest, Request, At
<1>4. /\ d \in [DiskRequest -> Request] /\ d[r] = createDiskRequest(p, c)
      /\ \A o \in DiskRequest : o # r => d[o] = disk[o]
  BY <1>2, <1>3
<1>5. /\ <<r>> \o port[p].pending \in Seq(DiskRequest) /\ Once(<<r>> \o port[p].pending)
      /\ Listed(<<r>> \o port[p].pending) = Listed(port[p].pending) \cup {r}
  BY <1>2, PrependFacts
<1>6. /\ q \in PortState /\ q.pending = <<r>> \o port[p].pending /\ q.serving = port[p].serving
      /\ q.interrupt = port[p].interrupt
  BY <1>2, <1>5 DEF PortState
<1>. HIDE DEF q, d
<1>7. QueueAgrees(q, d, p)
  <2>. SUFFICES ASSUME NEW o \in DiskRequest
               PROVE  /\ d[o].at = "pending" /\ d[o].port = p <=> o \in Listed(q.pending)
                      /\ d[o].at = "serving" /\ d[o].port = p <=> q.serving = o
    BY <1>5, <1>6 DEF QueueAgrees
  <2>1. CASE o = r
    BY <1>2, <1>3, <1>4, <1>5, <1>6, <2>1
  <2>2. CASE o # r
    <3>1. /\ disk[o].at = "pending" /\ disk[o].port = p <=> o \in Listed(port[p].pending)
          /\ disk[o].at = "serving" /\ disk[o].port = p <=> port[p].serving = o
      BY <1>2 DEF QueueAgrees
    <3>. QED BY <1>4, <1>5, <1>6, <2>2, <3>1
  <2>. QED BY <2>1, <2>2
<1>8. /\ QueueAgrees(x.port, x.disk, p) /\ Busy(x.port)
      /\ x.disk \in [DiskRequest -> Request]
      /\ x.port.serving # q.serving \/ q.interrupt => x.port.interrupt
      /\ \A o \in DiskRequest :
            x.disk[o] = d[o] \/ (d[o].at = "pending" /\ d[o].port = p /\ x.disk[o] = Sent(d[o]))
  BY SMTT(20), <1>4, <1>7, ServeFacts
<1>. HIDE DEF x
<1>9. \A o \in DiskRequest :
         \/ disk'[o] = disk[o]
         \/ /\ disk[o].at \in {"none", "pending"} /\ disk'[o].port = p
            /\ o # r => disk[o].port = p
            /\ disk'[o].at \in Handled => disk'[o].carriedOut
  <2>1. disk[r].at = "none"
    BY SMT DEF NoDiskRequest
  <2>2. \A o \in DiskRequest : d[o].at = "pending" /\ d[o].port = p =>
            Sent(d[o]).port = p /\ Sent(d[o]).carriedOut
    BY <1>4 DEF Sent, Request
  <2>. QED BY SMT, <1>1, <1>3, <1>4, <1>8, <2>1, <2>2 DEF Handled
<1>10. RequestsCarriedOut'
  BY <1>1, <1>8, <1>9 DEF RequestsCarriedOut, AHCIInv
<1>11. PortsServed'
  <2>1. x.port \in PortState
    BY <1>8 DEF QueueAgrees
  <2>2. port' \in [Port -> PortState] /\ port'[p] = x.port
        /\ \A o \in Port : o # p => port'[o] = port[o]
    BY <1>1, <1>2, <2>1
  <2>3. InterruptDue(p)'
    BY <1>1, <1>6, <1>8, <2>2 DEF InterruptDue, AHCIInv, PortsServed
  <2>4. ASSUME NEW o \in Port, o # p
        PROVE  QueueAgrees(port'[o], disk', o) /\ Busy(port'[o]) /\ InterruptDue(o)'
    <3>1. \A s \in DiskRequest : disk'[s] = disk[s] \/ (Elsewhere(disk[s], o) /\ Elsewhere(disk'[s], o))
      <4>1. Elsewhere(disk[r], o)
        BY SMT DEF NoDiskRequest, Elsewhere
      <4>. QED BY <1>9, <2>4, <4>1 DEF Elsewhere
    <3>2. QueueAgrees(port[o], disk, o) /\ Busy(port[o]) /\ InterruptDue(o)
      BY DEF AHCIInv, PortsServed
    <3>3. QueueAgrees(port[o], disk', o)
      BY <3>1, <3>2, OthersAgree
    <3>. QED BY <1>1, <2>2, <2>4, <3>2, <3>3 DEF InterruptDue
  <2>. QED BY <1>1, <1>8, <2>2, <2>3, <2>4 DEF PortsServed
<1>12. FinishedListed' /\ Completing' /\ HandlerHas'
  <2>1. \A o \in DiskRequest :
           disk'[o] = disk[o] \/ disk[o].at \notin {"finished", "completing", "handler"}
    BY <1>9
  <2>. QED BY <1>1, <2>1, OthersKeepRequests DEF AHCIInv
<1>13. PermitsCounted'
  BY <1>1 DEF PermitsCounted, AHCIInv
<1>. QED BY <1>10, <1>11, <1>12, <1>13 DEF AHCIInv

LEMMA StutterAHCIInv ==
    ASSUME AHCIInv, UNCHANGED <<port, disk, handler, finished, completing>>
    PROVE  AHCIInv'
BY DEF AHCIInv, RequestsCarriedOut, PortsServed, HandlerHas, FinishedListed, PermitsCounted,
       Completing, InterruptDue

\* A port whose registers change has the same queue.
LEMMA SameQueue ==
    ASSUME NEW p, NEW q, NEW b \in BOOLEAN, NEW d, QueueAgrees(q, d, p)
    PROVE  /\ QueueAgrees([q EXCEPT !.interrupt = b], d, p)
           /\ QueueAgrees([q EXCEPT !.identified = b], d, p)
BY DEF QueueAgrees, PortState

LEMMA ExtraInterruptInv ==
    ASSUME AHCIInv, NEW p \in Port, extraInterrupt(p)
    PROVE  AHCIInv'
<1>1. port' = [port EXCEPT ![p] = [@ EXCEPT !.interrupt = TRUE]]
      /\ UNCHANGED <<disk, handler, finished, completing>>
  BY DEF extraInterrupt, Interrupting
<1>2. PortsServed'
  <2>1. QueueAgrees([port[p] EXCEPT !.interrupt = TRUE], disk, p)
    BY SameQueue DEF AHCIInv, PortsServed
  <2>2. /\ port' \in [Port -> PortState] /\ port'[p] = [port[p] EXCEPT !.interrupt = TRUE]
        /\ port'[p].interrupt /\ port'[p].pending = port[p].pending /\ port'[p].serving = port[p].serving
        /\ \A o \in Port : o # p => port'[o] = port[o]
    BY <1>1 DEF AHCIInv, PortsServed, PortState
  <2>3. ASSUME NEW o \in Port
        PROVE  QueueAgrees(port[o], disk, o) /\ Busy(port[o]) /\ InterruptDue(o)
    BY DEF AHCIInv, PortsServed
  <2>4. QueueAgrees(port'[p], disk', p) /\ Busy(port'[p]) /\ InterruptDue(p)'
    <3>1. QueueAgrees(port'[p], disk', p)
      BY <1>1, <2>1, <2>2
    <3>2. Busy(port'[p]) /\ InterruptDue(p)'
      BY <2>2, <2>3 DEF InterruptDue, Busy
    <3>. QED BY <3>1, <3>2
  <2>5. ASSUME NEW o \in Port, o # p
        PROVE  QueueAgrees(port'[o], disk', o) /\ Busy(port'[o]) /\ InterruptDue(o)'
    <3>1. port'[o] = port[o] /\ disk' = disk /\ handler' = handler
      BY <1>1, <2>2, <2>5
    <3>. QED BY <2>3, <3>1 DEF InterruptDue
  <2>. QED BY <2>2, <2>4, <2>5 DEF PortsServed
<1>. QED BY <1>1, <1>2 DEF AHCIInv, RequestsCarriedOut, HandlerHas, FinishedListed, PermitsCounted, Completing

LEMMA AHCIHandlerInv ==
    ASSUME AHCIInv, NEW p \in Port, AHCIHandler(p)
    PROVE  AHCIInv'
<1>1. handler' = [pc |-> "clear", port |-> p, request |-> NoDisk] /\ handler.pc = "idle"
      /\ UNCHANGED <<port, disk, finished, completing>>
  BY DEF AHCIHandler, NoInterrupt
<1>2. PortsServed'
  BY <1>1 DEF AHCIInv, PortsServed, InterruptDue
<1>3. HandlerHas'
  BY <1>1 DEF HandlerHas
<1>4. PermitsCounted'
  BY <1>1 DEF AHCIInv, PermitsCounted
<1>. QED BY <1>1, <1>2, <1>3, <1>4 DEF AHCIInv, RequestsCarriedOut, FinishedListed, Completing

LEMMA ClearInterruptInv ==
    ASSUME AHCIInv, clearInterrupt
    PROVE  AHCIInv'
<1>. DEFINE p == handler.port
<1>1. /\ port' = [port EXCEPT ![p] = [@ EXCEPT !.interrupt = FALSE]] /\ p \in Port
      /\ handler' = [handler EXCEPT !.pc = "serve"] /\ handler.pc = "clear"
      /\ UNCHANGED <<disk, finished, completing>>
  BY DEF clearInterrupt, AHCIInv, HandlerHas
<1>2. handler' \in [pc : {"idle", "clear", "serve", "finish", "permit"}, port : Port \cup {NoDisk},
                    request : DiskRequest \cup {NoDisk}]
      /\ handler'.pc = "serve" /\ handler'.port = p
  BY <1>1 DEF AHCIInv, HandlerHas
<1>3. PortsServed'
  <2>1. QueueAgrees([port[p] EXCEPT !.interrupt = FALSE], disk, p)
    BY <1>1, SameQueue DEF AHCIInv, PortsServed
  <2>2. /\ port' \in [Port -> PortState] /\ port'[p] = [port[p] EXCEPT !.interrupt = FALSE]
        /\ port'[p].pending = port[p].pending /\ port'[p].serving = port[p].serving
        /\ \A o \in Port : o # p => port'[o] = port[o]
    BY <1>1 DEF AHCIInv, PortsServed, PortState
  <2>3. ASSUME NEW o \in Port
        PROVE  QueueAgrees(port[o], disk, o) /\ Busy(port[o]) /\ InterruptDue(o)
    BY DEF AHCIInv, PortsServed
  <2>4. QueueAgrees(port'[p], disk', p) /\ Busy(port'[p]) /\ handler'.port = p /\ handler'.pc = "serve"
    <3>1. QueueAgrees(port'[p], disk', p)
      BY <1>1, <2>1, <2>2
    <3>2. Busy(port'[p])
      BY <1>1, <2>2, <2>3 DEF Busy
    <3>. QED BY <1>2, <3>1, <3>2
  <2>5. ASSUME NEW o \in Port, o # p
        PROVE  QueueAgrees(port'[o], disk', o) /\ Busy(port'[o]) /\ InterruptDue(o)'
    <3>1. port'[o] = port[o] /\ disk' = disk /\ ~(handler.port = o /\ handler.pc = "serve")
      BY <1>1, <2>2, <2>5
    <3>. QED BY <2>3, <3>1 DEF InterruptDue
  <2>. HIDE DEF p
  <2>6. \A o \in Port : QueueAgrees(port'[o], disk', o) /\ Busy(port'[o]) /\ InterruptDue(o)'
    <3>. TAKE o \in Port
    <3>1. CASE o = p
      BY <2>4, <3>1 DEF InterruptDue
    <3>. QED BY <2>5, <3>1
  <2>. QED BY <2>2, <2>6 DEF PortsServed
<1>4. HandlerHas'
  BY <1>1, <1>2 DEF HandlerHas
<1>5. PermitsCounted'
  BY <1>1, <1>2 DEF AHCIInv, PermitsCounted
<1>. QED BY <1>1, <1>3, <1>4, <1>5 DEF AHCIInv, RequestsCarriedOut, FinishedListed, Completing

\* The request that leaves the port is no longer the port's, and the next one is sent.
LEMMA ServePortInv ==
    ASSUME AHCIInv, servePort
    PROVE  AHCIInv'
<1>. DEFINE p == handler.port
            r == port[p].serving
            q == [port[p] EXCEPT !.serving = NoDisk]
            d == IF r = NoDisk THEN disk ELSE [disk EXCEPT ![r].at = "handler"]
            y == servePortQueue(q, disk)
            x == servePortQueue(q, d)
<1>1. /\ port' = [port EXCEPT ![p] = y.port] /\ p \in Port /\ handler.pc = "serve"
      /\ IF r = NoDisk THEN disk' = y.disk /\ handler' = NoInterrupt
         ELSE /\ disk' = [y.disk EXCEPT ![r].at = "handler"]
              /\ handler' = [handler EXCEPT !.pc = "finish", !.request = r]
      /\ UNCHANGED <<finished, completing>>
  BY DEF servePort, AHCIInv, HandlerHas
<1>2. /\ port \in [Port -> PortState] /\ port[p] \in PortState /\ QueueAgrees(port[p], disk, p)
      /\ disk \in [DiskRequest -> Request] /\ r \in DiskRequest \cup {NoDisk}
      /\ Once(port[p].pending) /\ port[p].pending \in Seq(DiskRequest)
  BY <1>1 DEF AHCIInv, PortsServed, RequestsCarriedOut, PortState, QueueAgrees
<1>3. q \in PortState /\ q.serving = NoDisk /\ q.pending = port[p].pending
  BY <1>2 DEF PortState
<1>4. r # NoDisk => r \in DiskRequest /\ disk[r].at = "serving" /\ disk[r].port = p
                    /\ r \notin Listed(port[p].pending)
  BY <1>2 DEF QueueAgrees
<1>5. /\ d \in [DiskRequest -> Request]
      /\ \A o \in DiskRequest : o # r => d[o] = disk[o]
      /\ r # NoDisk => d[r].at = "handler" /\ d[r].carriedOut
  <2>1. CASE r = NoDisk
    BY <1>2, <2>1
  <2>2. CASE r # NoDisk
    <3>1. r \in DiskRequest /\ disk[r] \in Request /\ disk[r].carriedOut
      BY <1>2, <1>4, <2>2 DEF AHCIInv, RequestsCarriedOut, Handled
    <3>2. [disk[r] EXCEPT !.at = "handler"] \in Request
      BY <3>1 DEF Request, At
    <3>. QED BY <1>2, <2>2, <3>1, <3>2 DEF Request
  <2>. QED BY <2>1, <2>2
<1>6. x.port = y.port /\ disk' = x.disk
  <2>1. CASE q.pending = <<>>
    <3>1. y.port = q /\ x.port = q /\ y.disk = disk /\ x.disk = d
      BY <2>1 DEF servePortQueue
    <3>. QED BY <1>1, <3>1
  <2>2. CASE q.pending # <<>>
    <3>. DEFINE h == Head(q.pending)
    <3>1. /\ y.port = x.port
          /\ y.disk = [disk EXCEPT ![h] = Sent(@)] /\ x.disk = [d EXCEPT ![h] = Sent(@)]
      BY SMT, <1>3, <2>2 DEF servePortQueue
    <3>2. h \in Listed(port[p].pending) /\ h \in DiskRequest
      BY SMT, <1>2, <1>3, <2>2, ListFacts
    <3>3. CASE r = NoDisk
      BY <1>1, <3>1, <3>3
    <3>4. CASE r # NoDisk
      <4>1. disk' = [[disk EXCEPT ![h] = Sent(@)] EXCEPT ![r].at = "handler"]
        BY <1>1, <3>1, <3>4
      <4>2. h # r /\ r \in DiskRequest
        BY <1>4, <3>2, <3>4
      <4>. QED BY <1>2, <3>1, <3>2, <3>4, <4>1, <4>2
    <3>. QED BY <3>1, <3>3, <3>4
  <2>. QED BY <2>1, <2>2
<1>7. QueueAgrees(q, d, p)
  <2>. SUFFICES ASSUME NEW o \in DiskRequest
               PROVE  /\ d[o].at = "pending" /\ d[o].port = p <=> o \in Listed(q.pending)
                      /\ d[o].at = "serving" /\ d[o].port = p <=> q.serving = o
    BY <1>2, <1>3 DEF QueueAgrees
  <2>0. q.serving # o
    BY <1>3, AHCIAssumption
  <2>1. CASE o = r
    BY <1>3, <1>4, <1>5, <2>0, <2>1, AHCIAssumption
  <2>2. CASE o # r
    <3>1. /\ disk[o].at = "pending" /\ disk[o].port = p <=> o \in Listed(port[p].pending)
          /\ disk[o].at = "serving" /\ disk[o].port = p <=> port[p].serving = o
      BY <1>2 DEF QueueAgrees
    <3>. QED BY <1>3, <1>5, <2>0, <2>2, <3>1
  <2>. QED BY <2>1, <2>2
<1>. HIDE DEF q, d, y
<1>8. /\ QueueAgrees(x.port, x.disk, p) /\ Busy(x.port)
      /\ x.disk \in [DiskRequest -> Request]
      /\ x.port.serving # q.serving \/ q.interrupt => x.port.interrupt
      /\ \A o \in DiskRequest :
            x.disk[o] = d[o] \/ (d[o].at = "pending" /\ d[o].port = p /\ x.disk[o] = Sent(d[o]))
  BY SMT, <1>1, <1>5, <1>7, ServeFacts
<1>. HIDE DEF x
<1>9. /\ \A o \in DiskRequest :
           \/ disk'[o] = disk[o]
           \/ /\ disk[o].at \in {"pending", "serving"} /\ disk[o].port = p
              /\ Elsewhere(disk'[o], p) \/ disk'[o].port = p
              /\ disk'[o].at \in Handled => disk'[o].carriedOut
      /\ r # NoDisk => disk'[r].at = "handler"
  <2>1. \A o \in DiskRequest : d[o].at = "pending" /\ d[o].port = p =>
            Sent(d[o]).port = p /\ Sent(d[o]).carriedOut
    BY SMT, <1>5 DEF Sent, Request
  <2>2. r # NoDisk => disk'[r].at = "handler" /\ disk'[r].carriedOut
    BY <1>4, <1>5, <1>6, <1>8
  <2>3. ASSUME NEW o \in DiskRequest, o # r
        PROVE  \/ disk'[o] = disk[o]
               \/ /\ disk[o].at \in {"pending", "serving"} /\ disk[o].port = p
                  /\ disk'[o].port = p
                  /\ disk'[o].at \in Handled => disk'[o].carriedOut
    <3>1. disk'[o] = x.disk[o] /\ d[o] = disk[o]
      BY <1>5, <1>6, <2>3
    <3>2. CASE x.disk[o] = d[o]
      BY <3>1, <3>2
    <3>3. CASE d[o].at = "pending" /\ d[o].port = p /\ x.disk[o] = Sent(d[o])
      BY <2>1, <3>1, <3>3
    <3>. QED BY <1>8, <3>2, <3>3
  <2>4. CASE r # NoDisk
    BY <1>4, <2>2, <2>3, <2>4 DEF Elsewhere
  <2>5. CASE r = NoDisk
    BY <2>3, <2>5, AHCIAssumption
  <2>. QED BY <2>4, <2>5
<1>10. RequestsCarriedOut'
  BY <1>6, <1>8, <1>9 DEF RequestsCarriedOut, AHCIInv
<1>11. PortsServed'
  <2>1. x.port \in PortState
    BY <1>8 DEF QueueAgrees
  <2>2. port' \in [Port -> PortState] /\ port'[p] = x.port
        /\ \A o \in Port : o # p => port'[o] = port[o]
    BY <1>1, <1>2, <1>6, <2>1
  <2>3. port'[p].serving # NoDisk => port'[p].interrupt
    <3>1. x.port.serving # q.serving => x.port.interrupt
      BY <1>8
    <3>2. q.serving = NoDisk
      BY <1>3
    <3>3. port'[p] = x.port
      BY <2>2
    <3>. QED BY SMT, <3>1, <3>2, <3>3
  <2>4. ASSUME NEW o \in Port, o # p
        PROVE  /\ QueueAgrees(port'[o], disk', o) /\ Busy(port'[o])
               /\ port'[o].serving # NoDisk => port'[o].interrupt
    <3>1. \A s \in DiskRequest : disk'[s] = disk[s] \/ (Elsewhere(disk[s], o) /\ Elsewhere(disk'[s], o))
      <4>1. r # NoDisk => Elsewhere(disk[r], o) /\ Elsewhere(disk'[r], o)
        BY <1>4, <1>9, <2>4 DEF Elsewhere
      <4>2. ASSUME NEW s \in DiskRequest, s # r
            PROVE  disk'[s] = disk[s] \/ (Elsewhere(disk[s], o) /\ Elsewhere(disk'[s], o))
        <5>1. \A u \in DiskRequest : d[u].at = "pending" /\ d[u].port = p => Sent(d[u]).port = p
          BY SMT, <1>5 DEF Sent, Request
        <5>2. disk'[s] = x.disk[s] /\ d[s] = disk[s]
          BY <1>5, <1>6, <4>2
        <5>3. CASE x.disk[s] = d[s]
          BY <5>2, <5>3
        <5>4. CASE d[s].at = "pending" /\ d[s].port = p /\ x.disk[s] = Sent(d[s])
          <6>1. disk[s].port = p /\ disk'[s].port = p
            BY <5>1, <5>2, <5>4
          <6>. QED BY <2>4, <6>1 DEF Elsewhere
        <5>. QED BY <1>8, <5>3, <5>4
      <4>. QED BY <4>1, <4>2, AHCIAssumption
    <3>2. QueueAgrees(port[o], disk, o) /\ Busy(port[o]) /\ InterruptDue(o)
      BY DEF AHCIInv, PortsServed
    <3>3. QueueAgrees(port[o], disk', o)
      BY <3>1, <3>2, OthersAgree
    <3>. QED BY <1>1, <2>2, <2>4, <3>2, <3>3 DEF InterruptDue
  <2>. QED BY <1>6, <1>8, <2>2, <2>3, <2>4 DEF PortsServed, InterruptDue
<1>12. handler' \in [pc : {"idle", "clear", "serve", "finish", "permit"}, port : Port \cup {NoDisk},
                     request : DiskRequest \cup {NoDisk}]
       /\ IF r = NoDisk THEN handler'.pc = "idle"
          ELSE handler'.pc = "finish" /\ handler'.port = p /\ handler'.request = r
  <2>1. CASE r = NoDisk
    <3>1. handler' = [pc |-> "idle", port |-> NoDisk, request |-> NoDisk]
      BY <1>1, <2>1 DEF NoInterrupt
    <3>. QED BY <2>1, <3>1
  <2>2. CASE r # NoDisk
    <3>1. handler' = [handler EXCEPT !.pc = "finish", !.request = r]
      BY <1>1, <2>2
    <3>. QED BY <1>2, <2>2, <3>1 DEF AHCIInv, HandlerHas
  <2>. QED BY <2>1, <2>2
<1>13. HandlerHas'
  BY <1>1, <1>4, <1>9, <1>12 DEF HandlerHas
<1>14. FinishedListed'
  <2>1. \A o \in Listed(finished.list) : o \in DiskRequest /\ disk[o].at = "finished"
    BY SMT, SeqElement DEF FinishedListed, Listed, AHCIInv
  <2>. QED BY SMT, <1>1, <1>9, <2>1 DEF FinishedListed, Listed, Once, AHCIInv
<1>15. Completing'
  BY <1>1, <1>9 DEF Completing, AHCIInv
<1>16. PermitsCounted'
  BY <1>1, <1>12 DEF PermitsCounted, AHCIInv
<1>. QED BY <1>10, <1>11, <1>13, <1>14, <1>15, <1>16 DEF AHCIInv

LEMMA AddToDiskRequestListInv ==
    ASSUME AHCIInv, addToDiskRequestList
    PROVE  AHCIInv'
<1>. DEFINE r == handler.request
<1>1. /\ handler.pc = "finish" /\ r \in DiskRequest /\ disk[r].at = "handler" /\ handler.port \in Port
      /\ finished' = [finished EXCEPT !.list = <<r>> \o @]
      /\ disk' = [disk EXCEPT ![r].at = "finished"]
      /\ handler' = [handler EXCEPT !.pc = "permit"]
      /\ UNCHANGED <<port, completing>>
  BY DEF addToDiskRequestList, AHCIInv, HandlerHas
<1>2. /\ disk' \in [DiskRequest -> Request] /\ disk'[r].at = "finished" /\ disk'[r].carriedOut
      /\ \A o \in DiskRequest : o # r => disk'[o] = disk[o]
  <2>1. disk[r] \in Request /\ disk[r].carriedOut /\ disk \in [DiskRequest -> Request]
    BY <1>1 DEF AHCIInv, RequestsCarriedOut, Handled
  <2>2. [disk[r] EXCEPT !.at = "finished"] \in Request /\ [disk[r] EXCEPT !.at = "finished"].carriedOut
    BY <2>1 DEF Request, At
  <2>. QED BY <1>1, <2>1, <2>2 DEF Request
<1>3. RequestsCarriedOut'
  BY <1>2 DEF AHCIInv, RequestsCarriedOut
<1>4. PortsServed'
  <2>1. ASSUME NEW p \in Port
        PROVE  QueueAgrees(port[p], disk', p)
    <3>1. QueueAgrees(port[p], disk, p)
      BY DEF AHCIInv, PortsServed
    <3>2. \A o \in DiskRequest : disk'[o] = disk[o] \/ (Elsewhere(disk[o], p) /\ Elsewhere(disk'[o], p))
      BY <1>1, <1>2 DEF Elsewhere
    <3>. QED BY <3>1, <3>2, OthersAgree
  <2>2. \A p \in Port : InterruptDue(p)'
    BY <1>1 DEF AHCIInv, PortsServed, InterruptDue
  <2>. QED BY <1>1, <2>1, <2>2 DEF AHCIInv, PortsServed
<1>5. HandlerHas' /\ handler'.pc = "permit"
  BY <1>1 DEF AHCIInv, HandlerHas
<1>6. /\ finished.list \in Seq(DiskRequest) /\ Once(finished.list) /\ finished.permits \in Nat
      /\ \A o \in Listed(finished.list) : o \in DiskRequest /\ disk[o].at = "finished"
      /\ r \notin Listed(finished.list)
  <2>1. finished.list \in Seq(DiskRequest) /\ Once(finished.list) /\ finished.permits \in Nat
        /\ \A o \in Listed(finished.list) : disk[o].at = "finished"
    BY DEF AHCIInv, FinishedListed
  <2>. QED BY <1>1, <2>1, SeqElement DEF Listed
<1>7. /\ <<r>> \o finished.list \in Seq(DiskRequest) /\ Len(<<r>> \o finished.list) = Len(finished.list) + 1
      /\ Once(<<r>> \o finished.list)
      /\ Listed(<<r>> \o finished.list) = Listed(finished.list) \cup {r}
  BY <1>1, <1>6, PrependFacts
<1>8. /\ finished' \in [list : Seq(DiskRequest), permits : Nat] /\ finished'.permits = finished.permits
      /\ finished'.list = <<r>> \o finished.list
  BY <1>1, <1>7 DEF AHCIInv, FinishedListed
<1>9. FinishedListed'
  BY SMT, <1>2, <1>6, <1>7, <1>8 DEF FinishedListed
<1>10. PermitsCounted'
  <2>1. Len(finished.list) = finished.permits
    BY SMT, <1>1, <1>6 DEF AHCIInv, PermitsCounted
  <2>. QED BY <1>5, <1>7, <1>8, <2>1 DEF PermitsCounted
<1>11. Completing'
  BY <1>1, <1>2 DEF AHCIInv, Completing
<1>. QED BY <1>3, <1>4, <1>5, <1>9, <1>10, <1>11 DEF AHCIInv

LEMMA PermitCompletionInv ==
    ASSUME AHCIInv, permitCompletion
    PROVE  AHCIInv'
<1>1. /\ handler.pc = "permit" /\ finished' = [finished EXCEPT !.permits = @ + 1]
      /\ handler' = [pc |-> "idle", port |-> NoDisk, request |-> NoDisk]
      /\ UNCHANGED <<port, disk, completing>>
  BY DEF permitCompletion, NoInterrupt
<1>2. /\ finished' \in [list : Seq(DiskRequest), permits : Nat]
      /\ finished'.list = finished.list /\ finished'.permits = finished.permits + 1
  BY SMT, <1>1 DEF AHCIInv, FinishedListed
<1>3. HandlerHas' /\ handler'.pc = "idle"
  BY <1>1 DEF HandlerHas
<1>4. PortsServed'
  BY <1>1 DEF AHCIInv, PortsServed, InterruptDue
<1>5. FinishedListed'
  BY <1>1, <1>2 DEF AHCIInv, FinishedListed
<1>6. PermitsCounted'
  <2>1. Len(finished.list) = finished.permits + 1 /\ finished.permits \in Nat
    BY <1>1 DEF AHCIInv, PermitsCounted, FinishedListed
  <2>. QED BY SMT, <1>2, <1>3, <2>1 DEF PermitsCounted
<1>. QED BY <1>1, <1>3, <1>4, <1>5, <1>6 DEF AHCIInv, RequestsCarriedOut, Completing

\* The completing task finds a request for its permit.
LEMMA RemoveFromDiskRequestListInv ==
    ASSUME AHCIInv, removeFromDiskRequestList
    PROVE  AHCIInv' /\ UNCHANGED ahciPanic
<1>. DEFINE r == Head(finished.list)
<1>1. finished.list \in Seq(DiskRequest) /\ finished.permits \in Nat /\ finished.permits > 0
      /\ Once(finished.list) /\ \A o \in Listed(finished.list) : disk[o].at = "finished"
  BY DEF removeFromDiskRequestList, AHCIInv, FinishedListed
<1>2. finished.list # <<>>
  BY SMT, <1>1 DEF AHCIInv, PermitsCounted
<1>3. /\ completing' = r /\ finished' = [list |-> Tail(finished.list), permits |-> finished.permits - 1]
      /\ disk' = [disk EXCEPT ![r].at = "completing"] /\ UNCHANGED <<ahciPanic, port, handler>>
      /\ completing = NoDisk
  BY <1>2 DEF removeFromDiskRequestList
<1>4. /\ r \in DiskRequest /\ Tail(finished.list) \in Seq(DiskRequest)
      /\ Len(Tail(finished.list)) = Len(finished.list) - 1 /\ Once(Tail(finished.list))
      /\ r \notin Listed(Tail(finished.list))
      /\ Listed(finished.list) = Listed(Tail(finished.list)) \cup {r}
  BY <1>1, <1>2, ListFacts
<1>5. disk[r].at = "finished"
  BY <1>1, <1>4
<1>6. /\ disk' \in [DiskRequest -> Request] /\ disk'[r].at = "completing" /\ disk'[r].carriedOut
      /\ \A o \in DiskRequest : o # r => disk'[o] = disk[o]
  <2>1. disk[r] \in Request /\ disk[r].carriedOut /\ disk \in [DiskRequest -> Request]
    BY <1>4, <1>5 DEF AHCIInv, RequestsCarriedOut, Handled
  <2>2. [disk[r] EXCEPT !.at = "completing"] \in Request /\ [disk[r] EXCEPT !.at = "completing"].carriedOut
    BY <2>1 DEF Request, At
  <2>. QED BY <1>3, <1>4, <2>1, <2>2 DEF Request
<1>7. RequestsCarriedOut'
  BY <1>6 DEF AHCIInv, RequestsCarriedOut
<1>8. PortsServed'
  <2>1. ASSUME NEW p \in Port
        PROVE  QueueAgrees(port[p], disk', p)
    <3>1. QueueAgrees(port[p], disk, p)
      BY DEF AHCIInv, PortsServed
    <3>2. \A o \in DiskRequest : disk'[o] = disk[o] \/ (Elsewhere(disk[o], p) /\ Elsewhere(disk'[o], p))
      BY <1>5, <1>6 DEF Elsewhere
    <3>. QED BY <3>1, <3>2, OthersAgree
  <2>2. \A p \in Port : InterruptDue(p)'
    BY <1>3 DEF AHCIInv, PortsServed, InterruptDue
  <2>. QED BY <1>3, <2>1, <2>2 DEF AHCIInv, PortsServed
<1>9. HandlerHas'
  BY <1>3, <1>5, <1>6 DEF AHCIInv, HandlerHas
<1>10. FinishedListed'
  <2>1. \A o \in Listed(Tail(finished.list)) : o \in DiskRequest /\ o # r /\ disk[o].at = "finished"
    BY SMT, <1>1, <1>4, SeqElement DEF Listed
  <2>2. \A o \in Listed(Tail(finished.list)) : disk'[o].at = "finished"
    BY <1>6, <2>1
  <2>3. /\ finished' \in [list : Seq(DiskRequest), permits : Nat] /\ finished'.list = Tail(finished.list)
    BY SMT, <1>1, <1>3, <1>4
  <2>. QED BY <1>4, <2>2, <2>3 DEF FinishedListed
<1>11. PermitsCounted'
  BY SMT, <1>1, <1>3, <1>4 DEF AHCIInv, PermitsCounted
<1>12. Completing'
  BY <1>3, <1>4, <1>6 DEF Completing
<1>. QED BY <1>3, <1>7, <1>8, <1>9, <1>10, <1>11, <1>12 DEF AHCIInv

\* A request that nobody has any more is deleted, or waits for acceptIdentifyDiskRequest.
LEMMA RequestDoneInv ==
    ASSUME AHCIInv, NEW r \in DiskRequest, disk[r].at \in {"completing", "completed"},
           NEW new \in Request, new.at \in {"none", "completed"}, new.at = "completed" => new.carriedOut,
           disk' = [disk EXCEPT ![r] = new], UNCHANGED <<handler, finished>>,
           completing' \in {completing, NoDisk}, completing' # r,
           port' \in [Port -> PortState],
           \A p \in Port : \E b \in BOOLEAN : port'[p] = [port[p] EXCEPT !.identified = b]
    PROVE  AHCIInv'
<1>1. /\ disk' \in [DiskRequest -> Request] /\ disk'[r] = new
      /\ \A o \in DiskRequest : o # r => disk'[o] = disk[o]
  BY DEF AHCIInv, RequestsCarriedOut
<1>2. RequestsCarriedOut'
  BY <1>1 DEF AHCIInv, RequestsCarriedOut, Handled
<1>3. PortsServed'
  <2>1. ASSUME NEW p \in Port
        PROVE  /\ QueueAgrees(port'[p], disk', p) /\ Busy(port'[p]) /\ InterruptDue(p)'
    <3>1. QueueAgrees(port[p], disk, p) /\ Busy(port[p]) /\ InterruptDue(p) /\ port[p] \in PortState
      BY DEF AHCIInv, PortsServed
    <3>2. PICK b \in BOOLEAN : port'[p] = [port[p] EXCEPT !.identified = b]
      OBVIOUS
    <3>3. \A o \in DiskRequest : disk'[o] = disk[o] \/ (Elsewhere(disk[o], p) /\ Elsewhere(disk'[o], p))
      BY <1>1 DEF Elsewhere
    <3>4. QueueAgrees(port[p], disk', p)
      BY <3>1, <3>3, OthersAgree
    <3>5. QueueAgrees(port'[p], disk', p)
      <4>1. QueueAgrees([port[p] EXCEPT !.identified = b], disk', p)
        BY <3>4, SameQueue
      <4>. QED BY <3>2, <4>1
    <3>6. /\ port'[p].pending = port[p].pending /\ port'[p].serving = port[p].serving
          /\ port'[p].interrupt = port[p].interrupt
      BY <3>1, <3>2 DEF PortState
    <3>. QED BY <3>1, <3>5, <3>6 DEF Busy, InterruptDue
  <2>. QED BY <2>1 DEF PortsServed
<1>4. HandlerHas'
  BY <1>1 DEF AHCIInv, HandlerHas
<1>5. FinishedListed'
  <2>1. \A o \in Listed(finished.list) : o \in DiskRequest /\ disk[o].at = "finished"
    BY SMT, SeqElement DEF FinishedListed, Listed, AHCIInv
  <2>. QED BY SMT, <1>1, <2>1 DEF AHCIInv, FinishedListed, Listed, Once
<1>6. PermitsCounted' /\ Completing'
  BY <1>1 DEF AHCIInv, PermitsCounted, Completing
<1>. QED BY <1>2, <1>3, <1>4, <1>5, <1>6 DEF AHCIInv

LEMMA CompleteDiskRequestInv ==
    ASSUME AHCIInv, completeDiskRequest
    PROVE  AHCIInv'
<1>. DEFINE new == IF disk[completing].command = "read" THEN NoDiskRequest
                   ELSE [disk[completing] EXCEPT !.at = "completed"]
<1>1. /\ completing \in DiskRequest /\ disk[completing].at = "completing"
      /\ disk' = [disk EXCEPT ![completing] = new] /\ completing' = NoDisk
      /\ UNCHANGED <<port, handler, finished>>
  BY DEF completeDiskRequest, AHCIInv, Completing
<1>2. disk[completing] \in Request /\ disk[completing].carriedOut
  BY <1>1 DEF AHCIInv, RequestsCarriedOut, Handled
<1>3. new \in Request /\ new.at \in {"none", "completed"} /\ (new.at = "completed" => new.carriedOut)
  BY <1>2 DEF Request, NoDiskRequest, At
<1>4. /\ port' \in [Port -> PortState]
      /\ \A p \in Port : /\ port[p].identified \in BOOLEAN
                         /\ port'[p] = [port[p] EXCEPT !.identified = port[p].identified]
  BY <1>1 DEF AHCIInv, PortsServed, PortState
<1>. HIDE DEF new
<1>5. completing' # completing
  BY <1>1, AHCIAssumption
<1>6. \A p \in Port : \E b \in BOOLEAN : port'[p] = [port[p] EXCEPT !.identified = b]
  BY <1>4
<1>. QED BY <1>1, <1>3, <1>4, <1>5, <1>6, RequestDoneInv

LEMMA AcceptIdentifyInv ==
    ASSUME AHCIInv, NEW r \in DiskRequest, NEW ok \in BOOLEAN, acceptIdentifyDiskRequest(r, ok)
    PROVE  AHCIInv'
<1>1. /\ disk[r].at = "completed" /\ disk' = [disk EXCEPT ![r] = NoDiskRequest]
      /\ port' = [port EXCEPT ![disk[r].port] = [@ EXCEPT !.identified = ok]]
      /\ UNCHANGED <<handler, finished, completing>>
  BY DEF acceptIdentifyDiskRequest
<1>2. NoDiskRequest \in Request /\ NoDiskRequest.at = "none"
  BY DEF NoDiskRequest, Request, At
<1>3. completing # r
  BY <1>1, AHCIAssumption DEF AHCIInv, Completing
<1>4. port \in [Port -> PortState]
  BY DEF AHCIInv, PortsServed
<1>5. \A p \in Port : /\ port[p].identified \in BOOLEAN
                      /\ port[p] = [port[p] EXCEPT !.identified = port[p].identified]
                      /\ [port[p] EXCEPT !.identified = ok] \in PortState
  BY <1>4 DEF PortState
<1>6. \A p \in Port : port'[p] = IF p = disk[r].port THEN [port[p] EXCEPT !.identified = ok] ELSE port[p]
  BY <1>1, <1>4
<1>7. port' \in [Port -> PortState]
  BY <1>1, <1>4, <1>5
<1>8. \A p \in Port : \E b \in BOOLEAN : port'[p] = [port[p] EXCEPT !.identified = b]
  <2>. TAKE p \in Port
  <2>1. CASE p = disk[r].port
    <3>. WITNESS ok \in BOOLEAN
    <3>. QED BY <1>6, <2>1
  <2>2. CASE p # disk[r].port
    <3>1. port[p].identified \in BOOLEAN
      BY <1>5
    <3>. WITNESS port[p].identified \in BOOLEAN
    <3>. QED BY <1>5, <1>6, <2>2
  <2>. QED BY <2>1, <2>2
<1>. QED BY <1>1, <1>2, <1>3, <1>7, <1>8, RequestDoneInv

LEMMA NextAHCIInv == AHCIInv /\ [AHCINext]_ahciVars => AHCIInv'
<1>. SUFFICES ASSUME AHCIInv, [AHCINext]_ahciVars PROVE AHCIInv'
  OBVIOUS
<1>1. ASSUME NEW r \in DiskRequest, NEW p \in Port, initDiskDescription(r, p) \/ seekReadAHCI(r, p)
      PROVE  AHCIInv'
  BY <1>1, EnqueueInv DEF initDiskDescription, seekReadAHCI
<1>2. ASSUME NEW p \in Port, sendDiskRequestFails(p) \/ extraInterrupt(p) \/ AHCIHandler(p)
      PROVE  AHCIInv'
  BY <1>2, StutterAHCIInv, ExtraInterruptInv, AHCIHandlerInv DEF sendDiskRequestFails
<1>3. ASSUME clearInterrupt \/ servePort \/ addToDiskRequestList \/ permitCompletion
             \/ removeFromDiskRequestList \/ completeDiskRequest
      PROVE  AHCIInv'
  BY <1>3, ClearInterruptInv, ServePortInv, AddToDiskRequestListInv, PermitCompletionInv,
     RemoveFromDiskRequestListInv, CompleteDiskRequestInv
<1>4. ASSUME NEW r \in DiskRequest, NEW ok \in BOOLEAN, acceptIdentifyDiskRequest(r, ok)
      PROVE  AHCIInv'
  BY <1>4, AcceptIdentifyInv
<1>5. CASE UNCHANGED ahciVars
  BY <1>5, StutterAHCIInv DEF ahciVars
<1>. QED BY <1>1, <1>2, <1>3, <1>4, <1>5 DEF AHCINext

-----------------------------------------------------------------------------
(* Cardinalities *)

FST == INSTANCE FiniteSetTheorems

LEMMA SameFinite ==
    ASSUME NEW S
    PROVE  FST!IsFiniteSet(S) <=> IsFiniteSet(S)
BY DEF IsFiniteSet, FST!IsFiniteSet

LEMMA SameCardinality ==
    ASSUME NEW S
    PROVE  FST!Cardinality(S) = Cardinality(S)
BY DEF Cardinality, FST!Cardinality, IsFiniteSet, FST!IsFiniteSet

\* A list without repetitions is no longer than the set of requests.
LEMMA ListBounded ==
    ASSUME NEW list \in Seq(DiskRequest), Once(list)
    PROVE  Len(list) <= Cardinality(DiskRequest) /\ Cardinality(DiskRequest) \in Nat
<1>1. Len(list) \in Nat /\ list \in [1..Len(list) -> DiskRequest] /\ DOMAIN list = 1..Len(list)
  BY SeqLength
<1>2. list \in FST!Injection(1..Len(list), DiskRequest)
  BY <1>1 DEF Once, FST!Injection, FST!IsInjective
<1>3. FST!IsFiniteSet(DiskRequest)
  BY AHCIAssumption, SameFinite
<1>4. FST!Cardinality(1..Len(list)) <= FST!Cardinality(DiskRequest)
  BY <1>2, <1>3, FST!FS_Injection
<1>5. FST!Cardinality(1..Len(list)) = Len(list)
  BY SMTT(20), <1>1, FST!FS_Interval
<1>6. FST!Cardinality(DiskRequest) \in Nat
  BY <1>3, FST!FS_CardinalityType
<1>7. FST!Cardinality(DiskRequest) = Cardinality(DiskRequest)
  BY SameCardinality
<1>. QED BY <1>4, <1>5, <1>6, <1>7

LEMMA InvImpliesFinish == AHCIInv => DiskRequestsFinish
<1>. SUFFICES ASSUME AHCIInv PROVE DiskRequestsFinish
  OBVIOUS
<1>1. finished.permits \in 0..Cardinality(DiskRequest)
  <2>1. /\ Len(finished.list) <= Cardinality(DiskRequest) /\ Cardinality(DiskRequest) \in Nat
        /\ finished.permits \in Nat
    BY ListBounded DEF AHCIInv, FinishedListed
  <2>. QED BY SMT, <2>1 DEF AHCIInv, PermitsCounted
<1>2. \A p \in Port :
         /\ port[p].identified \in BOOLEAN /\ port[p].interrupt \in BOOLEAN
         /\ port[p].pending \in Seq(DiskRequest) /\ port[p].serving \in DiskRequest \cup {NoDisk}
         /\ DOMAIN port[p].pending = 1..Len(port[p].pending)
  <2>. SUFFICES ASSUME NEW p \in Port
               PROVE  /\ port[p].identified \in BOOLEAN /\ port[p].interrupt \in BOOLEAN
                      /\ port[p].pending \in Seq(DiskRequest) /\ port[p].serving \in DiskRequest \cup {NoDisk}
                      /\ DOMAIN port[p].pending = 1..Len(port[p].pending)
    OBVIOUS
  <2>1. port[p] \in PortState
    BY DEF AHCIInv, PortsServed
  <2>2. port[p].identified \in BOOLEAN /\ port[p].interrupt \in BOOLEAN
        /\ port[p].pending \in Seq(DiskRequest) /\ port[p].serving \in DiskRequest \cup {NoDisk}
    BY <2>1 DEF PortState
  <2>. QED BY <2>2, SeqLength
<1>4. AHCITypeOK
  BY <1>1, <1>2 DEF AHCITypeOK, AHCIInv, RequestsCarriedOut, Request, At, HandlerHas, Completing
<1>5. \A r \in DiskRequest :
         disk[r].at \in {"handler", "finished", "completing", "completed"} => disk[r].carriedOut
  BY DEF AHCIInv, RequestsCarriedOut, Handled
<1>6. ASSUME NEW p \in Port
      PROVE  /\ port[p].pending # <<>> => port[p].serving # NoDisk
             /\ port[p].serving # NoDisk => port[p].interrupt \/ (handler.port = p /\ handler.pc = "serve")
             /\ \A r \in DiskRequest :
                   /\ disk[r].at = "pending" /\ disk[r].port = p
                         <=> \E i \in DOMAIN port[p].pending : port[p].pending[i] = r
                   /\ disk[r].at = "serving" /\ disk[r].port = p <=> port[p].serving = r
  <2>1. QueueAgrees(port[p], disk, p) /\ Busy(port[p]) /\ InterruptDue(p)
    BY DEF AHCIInv, PortsServed
  <2>2. \A r \in DiskRequest : r \in Listed(port[p].pending)
                                 <=> \E i \in DOMAIN port[p].pending : port[p].pending[i] = r
    BY <1>2 DEF Listed
  <2>. QED BY <2>1, <2>2 DEF QueueAgrees, Busy, InterruptDue
<1>7. Len(finished.list) = finished.permits + IF handler.pc = "permit" THEN 1 ELSE 0
  BY DEF AHCIInv, PermitsCounted
<1>. QED BY <1>4, <1>5, <1>6, <1>7 DEF DiskRequestsFinish

\* For any number of ports and requests, a disk request is answered only after its command
\* was carried out, no port is idle beside a pending request, whoever is being served has an
\* interrupt or the handler coming, and a permit of completeDiskRequestTask stands for a
\* request in its list.
THEOREM DiskRequestsAlwaysFinish == AHCISpec => []DiskRequestsFinish
BY InitAHCIInv, NextAHCIInv, InvImpliesFinish, PTL DEF AHCISpec

\* The assertion of completeDiskRequestTask never fails: only a command that is refused or
\* does not finish in time makes the driver panic.
THEOREM OnlyFailedCommandPanics ==
    AHCISpec => [][ahciPanic' # ahciPanic => \E p \in Port : sendDiskRequestFails(p)]_ahciVars
<1>1. ASSUME AHCIInv, [AHCINext]_ahciVars
      PROVE  [ahciPanic' # ahciPanic => \E p \in Port : sendDiskRequestFails(p)]_ahciVars
  <2>1. removeFromDiskRequestList => UNCHANGED ahciPanic
    BY <1>1, RemoveFromDiskRequestListInv
  <2>. QED BY <1>1, <2>1
       DEF AHCINext, initDiskDescription, seekReadAHCI, Enqueue, extraInterrupt, AHCIHandler,
           clearInterrupt, servePort, addToDiskRequestList, permitCompletion, completeDiskRequest,
           acceptIdentifyDiskRequest
<1>. QED BY <1>1, InitAHCIInv, NextAHCIInv, PTL DEF AHCISpec

-----------------------------------------------------------------------------
(* The reader-writer lock *)

LEMMA SubsetFinite ==
    ASSUME NEW S, IsFiniteSet(S), NEW T \in SUBSET S
    PROVE  IsFiniteSet(T)
BY SameFinite, FST!FS_Subset

LEMMA FiniteSize ==
    ASSUME NEW S, IsFiniteSet(S)
    PROVE  Cardinality(S) \in Nat /\ (Cardinality(S) = 0 <=> S = {})
<1>1. FST!IsFiniteSet(S)
  BY SameFinite
<1>2. FST!Cardinality(S) \in Nat /\ (FST!Cardinality(S) = 0 <=> S = {})
  BY <1>1, FST!FS_CardinalityType, FST!FS_EmptySet
<1>. QED BY <1>2, SameCardinality

LEMMA NoElement == IsFiniteSet({}) /\ Cardinality({}) = 0
BY SameFinite, SameCardinality, FST!FS_EmptySet

LEMMA AddElement ==
    ASSUME NEW S, IsFiniteSet(S), NEW x, x \notin S
    PROVE  IsFiniteSet(S \cup {x}) /\ Cardinality(S \cup {x}) = Cardinality(S) + 1
<1>1. FST!IsFiniteSet(S)
  BY SameFinite
<1>2. FST!IsFiniteSet(S \cup {x}) /\ FST!Cardinality(S \cup {x}) = FST!Cardinality(S) + 1
  BY <1>1, FST!FS_AddElement
<1>. QED BY <1>2, SameFinite, SameCardinality

LEMMA RemoveElement ==
    ASSUME NEW S, IsFiniteSet(S), NEW x \in S
    PROVE  IsFiniteSet(S \ {x}) /\ Cardinality(S \ {x}) = Cardinality(S) - 1
<1>1. FST!IsFiniteSet(S)
  BY SameFinite
<1>2. FST!IsFiniteSet(S \ {x}) /\ FST!Cardinality(S \ {x}) = FST!Cardinality(S) - 1
  BY <1>1, FST!FS_RemoveElement
<1>. QED BY <1>2, SameFinite, SameCardinality

\* A queue holds tasks that are blocked in its own acquire function, each once.
QueueOf(q, want, h) ==
    /\ \A i \in 1..Len(q) : h[q[i]] = want
    /\ \A i, j \in 1..Len(q) : q[i] = q[j] => i = j

\* The inductive invariant.
IInv ==
    /\ HoldersCounted
    /\ NobodyWaitsForFreeLock
    /\ QueueOf(writerQueue, "wantWriter", holds)
    /\ QueueOf(readerQueue, "wantReader", holds)

LEMMA HoldersFinite ==
    /\ IsFiniteSet(Holders) /\ Cardinality(Holders) \in Nat
    /\ Cardinality(Holders) = 0 <=> Holders = {}
<1>1. Holders \in SUBSET Task
  BY DEF Holders
<1>2. IsFiniteSet(Holders)
  BY <1>1, SubsetFinite, RWLockAssumption
<1>. QED BY <1>2, FiniteSize

\* One more task holds the lock, one less does, or a blocked one gets what another gives up.
LEMMA OneMore ==
    ASSUME NEW t \in Task, t \notin Holders, Holders' = Holders \cup {t}
    PROVE  Cardinality(Holders') = Cardinality(Holders) + 1
BY HoldersFinite, AddElement

LEMMA OneLess ==
    ASSUME NEW t \in Holders
    PROVE  /\ IsFiniteSet(Holders \ {t})
           /\ Cardinality(Holders \ {t}) = Cardinality(Holders) - 1
           /\ Cardinality(Holders) > 0
<1>1. Cardinality(Holders) > 0
  BY SMTT(20), HoldersFinite
<1>. QED BY <1>1, HoldersFinite, RemoveElement

LEMMA DisjointUnion ==
    ASSUME NEW S, IsFiniteSet(S), NEW T, IsFiniteSet(T), S \cap T = {}
    PROVE  Cardinality(S \cup T) = Cardinality(S) + Cardinality(T)
<1>1. Cardinality(S \cup T) = Cardinality(S) + Cardinality(T) - Cardinality(S \cap T)
  <2>1. FST!IsFiniteSet(S) /\ FST!IsFiniteSet(T)
    BY SameFinite
  <2>2. FST!Cardinality(S \cup T) = FST!Cardinality(S) + FST!Cardinality(T) - FST!Cardinality(S \cap T)
    BY <2>1, FST!FS_Union
  <2>. QED BY <2>2, SameCardinality
<1>2. Cardinality(S) \in Nat /\ Cardinality(T) \in Nat /\ Cardinality(S \cap T) = 0
  BY FiniteSize, NoElement
<1>. QED BY SMT, <1>1, <1>2

\* A queue has as many tasks as elements.
LEMMA MembersCounted ==
    ASSUME NEW q \in Seq(Task), \A i, j \in 1..Len(q) : q[i] = q[j] => i = j
    PROVE  IsFiniteSet(Members(q)) /\ Cardinality(Members(q)) = Len(q)
<1>1. Len(q) \in Nat /\ q \in [1..Len(q) -> Task] /\ DOMAIN q = 1..Len(q)
  BY SeqLength
<1>2. q \in [1..Len(q) -> Members(q)]
  BY <1>1 DEF Members
<1>3. q \in FST!Bijection(1..Len(q), Members(q))
  BY <1>1, <1>2 DEF Members, FST!Bijection, FST!Injection, FST!Surjection, FST!IsInjective
<1>4. FST!ExistsBijection(1..Len(q), Members(q))
  BY <1>3 DEF FST!ExistsBijection
<1>5. FST!IsFiniteSet(Members(q)) /\ FST!Cardinality(Members(q)) = Len(q)
  BY <1>1, <1>4, FST!FS_CountingElements, FST!FS_NatBijection
<1>. QED BY <1>5, SameFinite, SameCardinality

LEMMA InitInv == Init => IInv
<1>. SUFFICES ASSUME Init PROVE IInv
  OBVIOUS
<1>1. Holders = {}
  BY DEF Init, Holders
<1>. QED BY SMTT(20), <1>1, HoldersFinite DEF Init, IInv, HoldersCounted, TypeOK, NobodyWaitsForFreeLock, QueueOf

\* The status of every task is one of these.
Held == [Task -> {"none", "reader", "writer", "wantReader", "wantWriter"}]

\* A task that waits joins the end of a queue.
LEMMA QueueGrows ==
    ASSUME NEW h \in Held, NEW q \in Seq(Task), NEW want, want \in {"wantReader", "wantWriter"},
           QueueOf(q, want, h), NEW t \in Task, h[t] # want
    PROVE  Append(q, t) \in Seq(Task) /\ QueueOf(Append(q, t), want, [h EXCEPT ![t] = want])
<1>1. /\ Append(q, t) \in Seq(Task) /\ Len(Append(q, t)) = Len(q) + 1 /\ Len(q) \in Nat
      /\ \A i \in 1..Len(q) : Append(q, t)[i] = q[i]
      /\ Append(q, t)[Len(q) + 1] = t
  BY SMTT(20), AppendFacts, SeqLength
<1>2. \A i \in 1..Len(q) : q[i] \in Task /\ q[i] # t /\ h[q[i]] = want
  BY SeqElement DEF QueueOf
<1>3. \A i \in 1..Len(q) : [h EXCEPT ![t] = want][q[i]] = want
  BY <1>2 DEF Held
<1>4. [h EXCEPT ![t] = want][t] = want
  BY DEF Held
<1>5. \A i, j \in 1..Len(q) : q[i] = q[j] => i = j
  BY DEF QueueOf
<1>. QED BY SMTT(20), <1>1, <1>2, <1>3, <1>4, <1>5 DEF QueueOf

\* A queue keeps its tasks when those that it holds keep their status.
LEMMA QueueKept ==
    ASSUME NEW h, NEW k, NEW q \in Seq(Task), NEW want, QueueOf(q, want, h),
           \A u \in Task : h[u] = want => k[u] = want
    PROVE  QueueOf(q, want, k)
BY SeqElement DEF QueueOf

\* The head of a queue gets the lock, the others keep waiting.
LEMMA QueueShrinks ==
    ASSUME NEW h, NEW k, NEW q \in Seq(Task), q # <<>>, NEW want, QueueOf(q, want, h),
           \A u \in Task : h[u] = want /\ u # Head(q) => k[u] = want
    PROVE  /\ Head(q) \in Task /\ h[Head(q)] = want
           /\ Tail(q) \in Seq(Task) /\ QueueOf(Tail(q), want, k)
<1>1. /\ Head(q) \in Task /\ Tail(q) \in Seq(Task) /\ Len(Tail(q)) = Len(q) - 1
      /\ \A i \in 1..Len(Tail(q)) : Tail(q)[i] = q[i + 1]
  BY TailFacts
<1>2. Len(q) \in Nat \ {0} /\ Head(q) = q[1]
  BY SMTT(20), SeqEmpty
<1>3. \A i \in 1..Len(Tail(q)) : /\ i + 1 \in 1..Len(q) /\ Tail(q)[i] \in Task
                                 /\ Tail(q)[i] # Head(q) /\ h[Tail(q)[i]] = want
  <2>1. \A i \in 1..Len(Tail(q)) : i + 1 \in 1..Len(q) /\ 1 \in 1..Len(q) /\ i + 1 # 1
    BY SMTT(20), <1>1, <1>2
  <2>. QED BY SMTT(20), <1>1, <1>2, <2>1, SeqElement DEF QueueOf
<1>4. \A i \in 1..Len(Tail(q)) : k[Tail(q)[i]] = want
  BY <1>3
<1>5. \A i, j \in 1..Len(Tail(q)) : Tail(q)[i] = Tail(q)[j] => i = j
  <2>. SUFFICES ASSUME NEW i \in 1..Len(Tail(q)), NEW j \in 1..Len(Tail(q)), Tail(q)[i] = Tail(q)[j]
               PROVE  i = j
    OBVIOUS
  <2>1. i + 1 = j + 1
    BY SMTT(20), <1>1, <1>3 DEF QueueOf
  <2>. QED BY SMTT(20), <2>1, <1>1, <1>2
<1>6. h[Head(q)] = want
  BY SMT, <1>2 DEF QueueOf
<1>. QED BY <1>1, <1>4, <1>5, <1>6 DEF QueueOf

LEMMA AcquireReaderInv ==
    ASSUME NEW t \in Task, IInv, acquireReaderLock(t)
    PROVE  IInv'
<1>. USE DEF IInv, HoldersCounted
<1>0. holds \in Held
  BY DEF TypeOK, Held
<1>1. QueueOf(writerQueue, "wantWriter", holds)'
  <2>1. \A u \in Task : holds[u] = "wantWriter" => holds'[u] = "wantWriter"
    BY DEF acquireReaderLock, TypeOK
  <2>2. writerQueue' = writerQueue /\ writerQueue \in Seq(Task)
    BY DEF acquireReaderLock, TypeOK
  <2>3. QueueOf(writerQueue, "wantWriter", holds')
    BY <2>1, <2>2, QueueKept
  <2>. QED BY <2>2, <2>3
<1>2. CASE writerCount = 0 /\ (~writerFirst \/ writerQueue = <<>>)
  <2>1. /\ holds' = [holds EXCEPT ![t] = "reader"] /\ readerCount' = readerCount + 1
        /\ UNCHANGED <<writerFirst, writerCount, writerQueue, readerQueue>> /\ holds[t] = "none"
    BY <1>2 DEF acquireReaderLock
  <2>2. t \notin Holders /\ Holders' = Holders \cup {t}
    BY <2>1 DEF Holders, TypeOK
  <2>3. QueueOf(readerQueue, "wantReader", holds)'
    <3>1. \A u \in Task : holds[u] = "wantReader" => holds'[u] = "wantReader"
      BY <2>1 DEF TypeOK
    <3>2. QueueOf(readerQueue, "wantReader", holds')
      BY <3>1, QueueKept DEF TypeOK
    <3>. QED BY <2>1, <3>2
  <2>4. TypeOK'
    BY SMT, <2>1 DEF TypeOK
  <2>5. Cardinality(Holders') = Cardinality(Holders) + 1
    BY <2>2, OneMore
  <2>6. writerCount' + readerCount' = Cardinality(Holders')
    BY SMTT(20), <2>1, <2>5, HoldersFinite DEF TypeOK
  <2>. QED BY <1>1, <2>2, <2>3, <2>4, <2>6 DEF NobodyWaitsForFreeLock
<1>3. CASE ~(writerCount = 0 /\ (~writerFirst \/ writerQueue = <<>>))
  <2>1. /\ holds' = [holds EXCEPT ![t] = "wantReader"] /\ readerQueue' = Append(readerQueue, t)
        /\ UNCHANGED <<writerFirst, writerCount, writerQueue, readerCount>> /\ holds[t] = "none"
    BY <1>3 DEF acquireReaderLock
  <2>2. Holders' = Holders
    BY <2>1 DEF Holders, TypeOK
  <2>3. readerQueue' \in Seq(Task) /\ QueueOf(readerQueue', "wantReader", holds')
    BY <1>0, <2>1, QueueGrows DEF TypeOK
  <2>4. TypeOK'
    BY <2>1, <2>3 DEF TypeOK
  <2>5. Holders # {}
    BY SMTT(20), <1>3, HoldersFinite DEF NobodyWaitsForFreeLock, TypeOK
  <2>. QED BY <1>1, <2>1, <2>2, <2>3, <2>4, <2>5 DEF NobodyWaitsForFreeLock
<1>. QED BY <1>2, <1>3

LEMMA AcquireWriterInv ==
    ASSUME NEW t \in Task, IInv, acquireWriterLock(t)
    PROVE  IInv'
<1>. USE DEF IInv, HoldersCounted
<1>0. holds \in Held
  BY DEF TypeOK, Held
<1>1. QueueOf(readerQueue, "wantReader", holds)'
  <2>1. \A u \in Task : holds[u] = "wantReader" => holds'[u] = "wantReader"
    BY DEF acquireWriterLock, TypeOK
  <2>2. readerQueue' = readerQueue /\ readerQueue \in Seq(Task)
    BY DEF acquireWriterLock, TypeOK
  <2>3. QueueOf(readerQueue, "wantReader", holds')
    BY <2>1, <2>2, QueueKept
  <2>. QED BY <2>2, <2>3
<1>2. CASE writerCount = 0 /\ readerCount = 0
  <2>1. /\ holds' = [holds EXCEPT ![t] = "writer"] /\ writerCount' = writerCount + 1
        /\ UNCHANGED <<writerFirst, readerCount, writerQueue, readerQueue>> /\ holds[t] = "none"
    BY <1>2 DEF acquireWriterLock
  <2>2. t \notin Holders /\ Holders' = Holders \cup {t}
    BY <2>1 DEF Holders, TypeOK
  <2>3. QueueOf(writerQueue, "wantWriter", holds)'
    <3>1. \A u \in Task : holds[u] = "wantWriter" => holds'[u] = "wantWriter"
      BY <2>1 DEF TypeOK
    <3>2. QueueOf(writerQueue, "wantWriter", holds')
      BY <3>1, QueueKept DEF TypeOK
    <3>. QED BY <2>1, <3>2
  <2>4. TypeOK'
    BY SMTT(20), <2>1 DEF TypeOK
  <2>5. Cardinality(Holders') = Cardinality(Holders) + 1
    BY <2>2, OneMore
  <2>6. writerCount' + readerCount' = Cardinality(Holders')
    BY SMTT(20), <2>1, <2>5, HoldersFinite DEF TypeOK
  <2>. QED BY <1>1, <2>2, <2>3, <2>4, <2>6 DEF NobodyWaitsForFreeLock
<1>3. CASE ~(writerCount = 0 /\ readerCount = 0)
  <2>1. /\ holds' = [holds EXCEPT ![t] = "wantWriter"] /\ writerQueue' = Append(writerQueue, t)
        /\ UNCHANGED <<writerFirst, writerCount, readerQueue, readerCount>> /\ holds[t] = "none"
    BY <1>3 DEF acquireWriterLock
  <2>2. Holders' = Holders
    BY <2>1 DEF Holders, TypeOK
  <2>3. writerQueue' \in Seq(Task) /\ QueueOf(writerQueue', "wantWriter", holds')
    BY <1>0, <2>1, QueueGrows DEF TypeOK
  <2>4. TypeOK'
    BY <2>1, <2>3 DEF TypeOK
  <2>5. Holders # {}
    BY SMTT(20), <1>3, HoldersFinite DEF TypeOK
  <2>. QED BY <1>1, <2>1, <2>2, <2>3, <2>4, <2>5 DEF NobodyWaitsForFreeLock
<1>. QED BY <1>2, <1>3

\* The counters after the caller of a release has been taken off, whichever of them that is.
LEMMA LeftCounts ==
    ASSUME NEW t \in Holders, HoldersCounted
    PROVE  /\ WriterLeft \in Nat /\ ReaderLeft \in Nat
           /\ WriterLeft + ReaderLeft = Cardinality(Holders \ {t})
<1>1. writerCount \in Nat /\ readerCount \in Nat /\ writerCount + readerCount = Cardinality(Holders)
  BY DEF HoldersCounted, TypeOK
<1>2. Cardinality(Holders \ {t}) = Cardinality(Holders) - 1 /\ Cardinality(Holders) > 0
  BY OneLess
<1>. QED BY SMTT(20), <1>1, <1>2 DEF WriterLeft, ReaderLeft

LEMMA ToWriterInv ==
    ASSUME NEW t \in Holders, IInv, ToWriter([holds EXCEPT ![t] = "none"]),
           (writerFirst /\ writerQueue # <<>>) \/ readerQueue = <<>>, UNCHANGED writerFirst
    PROVE  IInv'
<1>. USE DEF IInv, HoldersCounted
<1>0. /\ t \in Task /\ holds[t] \in {"reader", "writer"}
      /\ WriterLeft \in Nat /\ ReaderLeft \in Nat
      /\ WriterLeft + ReaderLeft = Cardinality(Holders \ {t})
      /\ IsFiniteSet(Holders \ {t})
  BY LeftCounts, OneLess DEF Holders
<1>1. CASE writerQueue = <<>>
  <2>1. /\ holds' = [holds EXCEPT ![t] = "none"] /\ writerCount' = WriterLeft
        /\ readerCount' = ReaderLeft /\ UNCHANGED <<writerQueue, readerQueue>>
        /\ writerQueue = <<>> /\ readerQueue = <<>>
    BY <1>1 DEF ToWriter
  <2>2. Holders' = Holders \ {t}
    BY <1>0, <2>1 DEF Holders, TypeOK
  <2>3. TypeOK'
    BY <1>0, <2>1 DEF TypeOK
  <2>4. QueueOf(writerQueue, "wantWriter", holds)' /\ QueueOf(readerQueue, "wantReader", holds)'
    BY ZenonT(30), <2>1 DEF QueueOf
  <2>. QED BY <1>0, <2>1, <2>2, <2>3, <2>4 DEF NobodyWaitsForFreeLock
<1>2. CASE writerQueue # <<>>
  <2>. DEFINE w == Head(writerQueue)
  <2>1. /\ holds' = [[holds EXCEPT ![t] = "none"] EXCEPT ![w] = "writer"]
        /\ writerCount' = WriterLeft + 1 /\ readerCount' = ReaderLeft
        /\ writerQueue' = Tail(writerQueue) /\ readerQueue' = readerQueue
    BY <1>2 DEF ToWriter
  <2>2. \A u \in Task : holds[u] = "wantWriter" /\ u # w => holds'[u] = "wantWriter"
    BY <1>0, <2>1 DEF TypeOK
  <2>3. /\ w \in Task /\ holds[w] = "wantWriter"
        /\ Tail(writerQueue) \in Seq(Task) /\ QueueOf(Tail(writerQueue), "wantWriter", holds')
    BY ZenonT(30), <1>2, <2>2, QueueShrinks DEF TypeOK
  <2>4. \A u \in Task : holds[u] = "wantReader" => holds'[u] = "wantReader"
    BY <1>0, <2>1, <2>3 DEF TypeOK
  <2>5. QueueOf(readerQueue, "wantReader", holds')
    BY <2>4, QueueKept DEF TypeOK
  <2>6. /\ Holders' = (Holders \ {t}) \cup {w} /\ w \notin Holders \ {t}
    BY <1>0, <2>1, <2>3 DEF Holders, TypeOK
  <2>7. Cardinality(Holders') = Cardinality(Holders \ {t}) + 1
    BY <1>0, <2>6, AddElement
  <2>8. TypeOK'
    BY SMTT(20), <1>0, <2>1, <2>3 DEF TypeOK
  <2>9. writerCount' + readerCount' = Cardinality(Holders')
    BY SMTT(20), <1>0, <2>1, <2>7
  <2>. QED BY <2>1, <2>3, <2>5, <2>6, <2>8, <2>9 DEF NobodyWaitsForFreeLock
<1>. QED BY <1>1, <1>2

LEMMA ToReadersInv ==
    ASSUME NEW t \in Holders, IInv, ToReaders([holds EXCEPT ![t] = "none"]),
           readerQueue # <<>>, UNCHANGED writerFirst
    PROVE  IInv'
<1>. USE DEF IInv, HoldersCounted
<1>. DEFINE M == Members(readerQueue)
<1>0. /\ t \in Task /\ holds[t] \in {"reader", "writer"}
      /\ WriterLeft \in Nat /\ ReaderLeft \in Nat
      /\ WriterLeft + ReaderLeft = Cardinality(Holders \ {t})
      /\ IsFiniteSet(Holders \ {t})
  BY LeftCounts, OneLess DEF Holders
<1>1. /\ holds' = [u \in Task |-> IF u \in M THEN "reader" ELSE [holds EXCEPT ![t] = "none"][u]]
      /\ writerCount' = WriterLeft /\ readerCount' = ReaderLeft + Len(readerQueue)
      /\ writerQueue' = writerQueue /\ readerQueue' = <<>>
  BY DEF ToReaders
<1>2. /\ IsFiniteSet(M) /\ Cardinality(M) = Len(readerQueue) /\ Len(readerQueue) \in Nat \ {0}
  <2>1. readerQueue \in Seq(Task) /\ \A i, j \in 1..Len(readerQueue) : readerQueue[i] = readerQueue[j] => i = j
    BY DEF TypeOK, QueueOf
  <2>. QED BY <2>1, MembersCounted, SeqEmpty
<1>3. \A u \in M : u \in Task /\ holds[u] = "wantReader"
  BY SMT, SeqElement DEF Members, QueueOf, TypeOK
<1>4. Holders' = (Holders \ {t}) \cup M /\ (Holders \ {t}) \cap M = {}
  BY <1>0, <1>1, <1>3 DEF Holders, TypeOK
<1>5. Cardinality(Holders') = Cardinality(Holders \ {t}) + Len(readerQueue)
  BY SMTT(20), <1>0, <1>2, <1>4, DisjointUnion
<1>6. Holders' # {}
  <2>1. M # {}
    BY <1>2, NoElement
  <2>. QED BY <1>4, <2>1
<1>7. QueueOf(writerQueue, "wantWriter", holds')
  <2>1. \A u \in Task : holds[u] = "wantWriter" => holds'[u] = "wantWriter"
    BY <1>0, <1>1, <1>3 DEF TypeOK
  <2>. QED BY <2>1, QueueKept DEF TypeOK
<1>8. TypeOK'
  BY SMTT(20), <1>0, <1>1, <1>2 DEF TypeOK
<1>9. QueueOf(readerQueue', "wantReader", holds')
  BY SMTT(20), <1>1 DEF QueueOf
<1>10. writerCount' + readerCount' = Cardinality(Holders')
  BY SMTT(20), <1>0, <1>1, <1>2, <1>5
<1>. QED BY <1>1, <1>6, <1>7, <1>8, <1>9, <1>10 DEF NobodyWaitsForFreeLock

LEMMA ReleaseInv ==
    ASSUME NEW t \in Task, IInv, releaseReaderWriterLock(t)
    PROVE  IInv'
<1>1. t \in Holders
  BY DEF releaseReaderWriterLock, Holders
<1>. QED BY <1>1, ToWriterInv, ToReadersInv DEF releaseReaderWriterLock

LEMMA NextInv == IInv /\ [Next]_vars => IInv'
<1>. SUFFICES ASSUME IInv, [Next]_vars PROVE IInv'
  OBVIOUS
<1>1. CASE Next
  BY <1>1, AcquireReaderInv, AcquireWriterInv, ReleaseInv DEF Next
<1>2. CASE UNCHANGED vars
  BY SMTT(20), <1>2 DEF vars, IInv, HoldersCounted, TypeOK, NobodyWaitsForFreeLock, QueueOf, Holders
<1>. QED BY <1>1, <1>2

\* For any number of tasks and either preference, writerCount and readerCount together are
\* the number of tasks that hold the lock, whichever of the two a release counts down.
THEOREM CountsHolders == Spec => []HoldersCounted
<1>1. IInv => HoldersCounted
  BY DEF IInv
<1>. QED BY <1>1, InitInv, NextInv, PTL DEF Spec

\* For any number of tasks, no task is blocked in acquireReaderLock or acquireWriterLock
\* while nobody holds the lock: a release always hands it on.
THEOREM HandsLockOn == Spec => []NobodyWaitsForFreeLock
<1>1. IInv => NobodyWaitsForFreeLock
  BY DEF IInv
<1>. QED BY <1>1, InitInv, NextInv, PTL DEF Spec
==============================================================================
