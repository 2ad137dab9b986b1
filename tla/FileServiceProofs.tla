-------------------------- MODULE FileServiceProofs --------------------------
(***************************************************************************)
(* The services of FIFO files and of kernel files keep the invariant of the *)
(* opened files, and what follows from it: counts that agree with the uses, *)
(* files that are closed when their task ends, and reads that meet the     *)
(* elements of their FIFO.                                                 *)
(***************************************************************************)
EXTENDS FileProofs

\* A leaf that cites no prover is first-order and goes to Zenon; arithmetic and sequences
\* go to SMT.
USE Zenon

-----------------------------------------------------------------------------
\* The lists of pending reads

LEMMA ConcatFacts ==
    ASSUME NEW S, NEW p \in Seq(S), NEW q \in Seq(S)
    PROVE  /\ p \o q \in Seq(S) /\ Len(p \o q) = Len(p) + Len(q)
           /\ \A i \in 1..Len(p) + Len(q) : (p \o q)[i] = IF i <= Len(p) THEN p[i] ELSE q[i - Len(p)]
BY SMT

LEMMA SubSeqFacts ==
    ASSUME NEW S, NEW q, NEW m \in Int, NEW n \in Int, \A i \in m..n : q[i] \in S
    PROVE  /\ SubSeq(q, m, n) \in Seq(S)
           /\ Len(SubSeq(q, m, n)) = IF m <= n THEN n - m + 1 ELSE 0
           /\ \A i \in 1..n - m + 1 : SubSeq(q, m, n)[i] = q[m + i - 1]
BY SMT

\* A list with its i-th member unlinked.
LEMMA UnlinkFacts ==
    ASSUME NEW S, NEW list \in Seq(S), NEW i \in 1..Len(list), NEW short,
           short = SubSeq(list, 1, i - 1) \o SubSeq(list, i + 1, Len(list))
    PROVE  /\ short \in Seq(S)
           /\ Len(short) = Len(list) - 1
           /\ \A j \in 1..Len(list) - 1 : short[j] = IF j < i THEN list[j] ELSE list[j + 1]
<1>. DEFINE a == SubSeq(list, 1, i - 1)
            b == SubSeq(list, i + 1, Len(list))
<1>1. Len(list) \in Nat /\ i \in Nat /\ i >= 1 /\ i <= Len(list)
  BY SMT
<1>2. /\ a \in Seq(S) /\ Len(a) = i - 1
      /\ \A j \in 1..i - 1 : a[j] = list[j]
  <2>1. \A j \in 1..i - 1 : list[j] \in S
    BY SMT
  <2>. QED BY SMT, <1>1, <2>1, SubSeqFacts
<1>3. /\ b \in Seq(S) /\ Len(b) = Len(list) - i
      /\ \A j \in 1..Len(list) - i : b[j] = list[i + j]
  <2>1. \A j \in i + 1..Len(list) : list[j] \in S
    BY SMT
  <2>2. /\ b \in Seq(S) /\ Len(b) = IF i + 1 <= Len(list) THEN Len(list) - (i + 1) + 1 ELSE 0
        /\ \A j \in 1..Len(list) - (i + 1) + 1 : b[j] = list[(i + 1) + j - 1]
    BY SMT, <1>1, <2>1, SubSeqFacts
  <2>. QED BY SMT, <1>1, <2>2
<1>. HIDE DEF a, b
<1>4. short = a \o b
  BY DEF a, b
<1>5. /\ a \o b \in Seq(S) /\ Len(a \o b) = Len(a) + Len(b)
      /\ \A j \in 1..Len(a) + Len(b) : (a \o b)[j] = IF j <= Len(a) THEN a[j] ELSE b[j - Len(a)]
  BY <1>2, <1>3, ConcatFacts
<1>6. /\ short \in Seq(S) /\ Len(short) = Len(list) - 1
      /\ \A j \in 1..Len(list) - 1 : short[j] = IF j <= i - 1 THEN a[j] ELSE b[j - (i - 1)]
  <2>1. /\ short \in Seq(S) /\ Len(short) = Len(a) + Len(b)
        /\ \A j \in 1..Len(a) + Len(b) : short[j] = IF j <= Len(a) THEN a[j] ELSE b[j - Len(a)]
    BY <1>4, <1>5
  <2>2. Len(a) + Len(b) = Len(list) - 1
    BY SMT, <1>1, <1>2, <1>3
  <2>. QED BY <1>2, <2>1, <2>2
<1>7. ASSUME NEW j \in 1..Len(list) - 1
      PROVE  short[j] = IF j < i THEN list[j] ELSE list[j + 1]
  <2>1. CASE j < i
    <3>1. j \in 1..i - 1 /\ j <= i - 1
      BY SMT, <1>1, <2>1
    <3>. QED BY <1>2, <1>6, <2>1, <3>1
  <2>2. CASE j >= i
    <3>1. j - (i - 1) \in 1..Len(list) - i /\ i + (j - (i - 1)) = j + 1 /\ ~(j <= i - 1) /\ ~(j < i)
      BY SMT, <1>1, <2>2
    <3>2. short[j] = b[j - (i - 1)]
      BY <1>6, <3>1
    <3>3. b[j - (i - 1)] = list[i + (j - (i - 1))]
      BY <1>3, <3>1
    <3>. QED BY <3>1, <3>2, <3>3
  <2>3. j < i \/ j >= i
    BY SMT, <1>1
  <2>. QED BY <2>1, <2>2, <2>3
<1>. QED BY <1>6, <1>7

\* REMOVE_FROM_DQUEUE takes out one request and leaves the others in their order.

\* The members of short are members of list, each from another place.
From(short, list) ==
    \E m \in [1..Len(short) -> 1..Len(list)] :
        /\ \A i \in 1..Len(short) : short[i] = list[m[i]]
        /\ \A i, j \in 1..Len(short) : m[i] = m[j] => i = j

LEMMA TailFrom ==
    ASSUME NEW S, NEW list \in Seq(S), list # <<>>
    PROVE  /\ Tail(list) \in Seq(S) /\ Head(list) = list[1] /\ 1 \in 1..Len(list)
           /\ Len(Tail(list)) = Len(list) - 1
           /\ \A i \in 1..Len(list) - 1 : Tail(list)[i] = list[i + 1]
BY SMT

LEMMA WithoutFrom ==
    ASSUME NEW S, NEW list \in Seq(S), NEW r, \A i, j \in 1..Len(list) : list[i] = list[j] => i = j
    PROVE  /\ Without(list, r) \in Seq(S) /\ From(Without(list, r), list)
           /\ \A i \in 1..Len(Without(list, r)) : Without(list, r)[i] # r
<1>1. CASE \A i \in 1..Len(list) : list[i] # r
  <2>1. Without(list, r) = list
    BY <1>1 DEF Without
  <2>. DEFINE m == [i \in 1..Len(list) |-> i]
  <2>2. m \in [1..Len(list) -> 1..Len(list)] /\ \A i \in 1..Len(list) : m[i] = i
    OBVIOUS
  <2>. HIDE DEF m
  <2>3. From(list, list)
    BY <2>2 DEF From
  <2>. QED BY <1>1, <2>1, <2>3
<1>2. CASE ~\A i \in 1..Len(list) : list[i] # r
  <2>. DEFINE n == CHOOSE j \in 1..Len(list) : list[j] = r
              short == Without(list, r)
  <2>1. n \in 1..Len(list) /\ list[n] = r
    BY <1>2
  <2>2. short = SubSeq(list, 1, n - 1) \o SubSeq(list, n + 1, Len(list))
    BY <1>2 DEF Without
  <2>. HIDE DEF n, short
  <2>3. /\ short \in Seq(S) /\ Len(short) = Len(list) - 1
        /\ \A j \in 1..Len(list) - 1 : short[j] = IF j < n THEN list[j] ELSE list[j + 1]
    BY ONLY ZenonT(30), list \in Seq(S), <2>1, <2>2, UnlinkFacts
  <2>. DEFINE m == [j \in 1..Len(list) - 1 |-> IF j < n THEN j ELSE j + 1]
  <2>4. \A j \in 1..Len(list) - 1 : m[j] = (IF j < n THEN j ELSE j + 1) /\ m[j] \in 1..Len(list) /\ m[j] # n
    BY SMT, <2>1
  <2>5. m \in [1..Len(list) - 1 -> 1..Len(list)]
    BY <2>4
  <2>. HIDE DEF m
  <2>6. \A j \in 1..Len(list) - 1 : short[j] = list[m[j]]
    BY <2>3, <2>4
  <2>7. \A i, j \in 1..Len(list) - 1 : m[i] = m[j] => i = j
    BY SMT, <2>1, <2>4
  <2>8. From(short, list)
    BY SMT, <2>3, <2>5, <2>6, <2>7 DEF From
  <2>9. \A j \in 1..Len(list) - 1 : short[j] # r
    BY SMT, <2>1, <2>4, <2>6
  <2>. QED BY <2>3, <2>8, <2>9 DEF short
<1>. QED BY <1>1, <1>2

\* The list of the FIFO h loses members.
LEMMA ShorterLists ==
    ASSUME FileTypeOK, FIFOTypeOK, Lists, NEW t \in Thread, NEW x, NEW r \in Request, NEW y, NEW h \in Handle,
           NEW e, thr' = [thr EXCEPT ![t] = x], ior' = [ior EXCEPT ![r] = y], fifo' = [fifo EXCEPT ![h] = e],
           From(e.pendingRead, fifo[h].pendingRead), Threads',
           y = ior[r] \/ (ior[r].file = h /\ \A i \in 1..Len(e.pendingRead) : e.pendingRead[i] # r),
           x.pc = "uncount" => x.file = h /\ \A i \in 1..Len(e.pendingRead) : e.pendingRead[i] # x.req
    PROVE  Lists'
<1>1. \A q \in Request : ior'[q] = IF q = r THEN y ELSE ior[q]
  BY FileStates
<1>2. thr'[t] = x /\ \A u \in Thread : u # t => thr'[u] = thr[u]
  BY FileStates
<1>3. fifo'[h] = e /\ (\A g \in Handle : g # h => fifo'[g] = fifo[g])
      /\ \A g \in Handle : fifo[g].pendingRead \in Seq(Request)
  BY DEF FIFOTypeOK
<1>4. \A g \in Handle : \A i \in 1..Len(fifo[g].pendingRead) : fifo[g].pendingRead[i] \in Request
  BY SMT, <1>3
<1>5. PICK m \in [1..Len(e.pendingRead) -> 1..Len(fifo[h].pendingRead)] :
        /\ \A i \in 1..Len(e.pendingRead) : e.pendingRead[i] = fifo[h].pendingRead[m[i]]
        /\ \A i, j \in 1..Len(e.pendingRead) : m[i] = m[j] => i = j
  BY DEF From
<1>6. ASSUME NEW g \in Handle, NEW i \in 1..Len(fifo'[g].pendingRead)
      PROVE  /\ ior'[fifo'[g].pendingRead[i]].step \in InAList
             /\ ior'[fifo'[g].pendingRead[i]].file = g
             /\ \A j \in 1..Len(fifo'[g].pendingRead) :
                   fifo'[g].pendingRead[i] = fifo'[g].pendingRead[j] => i = j
  <2>1. CASE g # h
    <3>1. fifo'[g] = fifo[g]
      BY <1>3, <2>1
    <3>. DEFINE q == fifo[g].pendingRead[i]
    <3>2. q \in Request /\ ior[q].step \in InAList /\ ior[q].file = g
          /\ \A j \in 1..Len(fifo[g].pendingRead) : q = fifo[g].pendingRead[j] => i = j
      BY <1>4, <1>6, <3>1 DEF Lists
    <3>. HIDE DEF q
    <3>3. ior'[q] = ior[q]
      BY <1>1, <2>1, <3>2
    <3>. QED BY <3>1, <3>2, <3>3 DEF q
  <2>2. CASE g = h
    <3>. DEFINE l == fifo[h].pendingRead
                q == e.pendingRead[i]
    <3>1. i \in 1..Len(e.pendingRead) /\ m[i] \in 1..Len(l) /\ q = l[m[i]]
      BY <1>3, <1>5, <1>6, <2>2
    <3>2. q \in Request /\ ior[q].step \in InAList /\ ior[q].file = h
          /\ \A j \in 1..Len(l) : l[m[i]] = l[j] => m[i] = j
      <4>. HIDE DEF l, q
      <4>1. l[m[i]] \in Request
        BY <1>4, <3>1 DEF l
      <4>2. /\ ior[l[m[i]]].step \in InAList /\ ior[l[m[i]]].file = h
            /\ \A j \in 1..Len(l) : l[m[i]] = l[j] => m[i] = j
        BY <3>1 DEF Lists, l
      <4>. QED BY <3>1, <4>1, <4>2
    <3>3. \A j \in 1..Len(e.pendingRead) : q = e.pendingRead[j] => i = j
      <4>. HIDE DEF l, q
      <4>1. ASSUME NEW j \in 1..Len(e.pendingRead), q = e.pendingRead[j]
            PROVE  i = j
        <5>1. m[j] \in 1..Len(l) /\ e.pendingRead[j] = l[m[j]]
          BY <1>5 DEF l
        <5>2. m[i] = m[j]
          BY <3>1, <3>2, <4>1, <5>1
        <5>. QED BY <1>5, <3>1, <5>2
      <4>. QED BY <4>1
    <3>4. ior'[q] = ior[q]
      BY <1>1, <3>1, <3>2
    <3>. QED BY SMTT(20), <1>3, <2>2, <3>2, <3>3, <3>4
  <2>. QED BY <2>1, <2>2
<1>7. ASSUME NEW u \in Thread, thr'[u].pc = "uncount", NEW i \in 1..Len(fifo'[thr'[u].file].pendingRead)
      PROVE  fifo'[thr'[u].file].pendingRead[i] # thr'[u].req
  <2>1. CASE u = t
    BY SMT, <1>2, <1>3, <1>7, <2>1
  <2>2. CASE u # t
    <3>1. thr'[u] = thr[u]
      BY <1>2, <2>2
    <3>2. /\ thr[u].file \in Handle /\ thr[u].pc = "uncount"
          /\ \A j \in 1..Len(fifo[thr[u].file].pendingRead) : fifo[thr[u].file].pendingRead[j] # thr[u].req
      BY SMTT(30), <1>7, <3>1 DEF Threads, ThreadOK, Lists
    <3>3. CASE thr[u].file # h
      BY <1>3, <1>7, <3>1, <3>2, <3>3
    <3>4. CASE thr[u].file = h
      <4>1. i \in 1..Len(e.pendingRead) /\ fifo'[h] = e
        BY <1>3, <1>7, <3>1, <3>4
      <4>2. e.pendingRead[i] = fifo[h].pendingRead[m[i]] /\ m[i] \in 1..Len(fifo[h].pendingRead)
        BY <1>5, <4>1
      <4>. QED BY <3>1, <3>2, <3>4, <4>1, <4>2
    <3>. QED BY <3>3, <3>4
  <2>. QED BY <2>1, <2>2
<1>. QED BY <1>6, <1>7 DEF Lists

-----------------------------------------------------------------------------
\* fifofile.c

FIFORec == [alive : BOOLEAN, elements : 0..MaxElements, pendingRead : Seq(Request)]

LEMMA FIFOStarts ==
    ASSUME FilesInv, panic = "none", NEW t \in User, NEW step, InFIFO(t, step)
    PROVE  /\ thr[t].pc = step /\ UNCHANGED exitVars /\ fifo \in [Handle -> FIFORec] /\ thr[t].file \in Handle
           /\ fifo[thr[t].file] \in FIFORec
BY DEF InFIFO, At, FilesInv, FilesTypeOK, FIFOTypeOK, FIFORec

LEMMA openFIFOFileInv ==
    ASSUME FilesInv, panic = "none", NEW t \in User, openFIFOFile(t), UNCHANGED offset
    PROVE  FilesInv'
<1>1. InFIFO(t, "service") /\ thr[t].op = "open"
  BY DEF openFIFOFile, InFIFOService
<1>2. thr[t].pc = "service" /\ UNCHANGED exitVars /\ thr[t].file \in Handle
  BY <1>1, FIFOStarts
<1>3. CASE /\ fifo' = [fifo EXCEPT ![thr[t].file] = [NoFIFO EXCEPT !.alive = TRUE]]
           /\ completeOpenFile(t)
  <2>. DEFINE e == [NoFIFO EXCEPT !.alive = TRUE]
  <2>1. e \in FIFORec /\ e.pendingRead = <<>> /\ e.elements = 0
    <3>1. NoFIFO \in FIFORec /\ NoFIFO.pendingRead = <<>> /\ NoFIFO.elements = 0
      BY SMT, FIFOFileAssumption DEF FIFORec, NoFIFO
    <3>. QED BY <3>1 DEF FIFORec
  <2>2. fifo' = [fifo EXCEPT ![thr[t].file] = e]
    BY <1>3
  <2>. HIDE DEF e
  <2>3. ListsKept /\ FIFOTypeOK' /\ \A x : ReadsKept(x)
    BY <1>2, <2>1, <2>2, FIFOStep DEF FIFORec
  <2>4. Opens(thr[t]) /\ offset' \in [Handle -> Nat]
    BY <1>1, <1>2, OffsetTyped DEF Opens
  <2>. QED BY <1>2, <1>3, <2>3, <2>4, completeOpenFileInv
<1>4. CASE cancelFailedFileIO(t) /\ UNCHANGED fifo
  <2>1. UNCHANGED <<exitVars, fifo, offset>>
    BY <1>2, <1>4
  <2>. QED BY <1>2, <1>4, <2>1, RefuseInv
<1>. QED BY <1>3, <1>4 DEF openFIFOFile

LEMMA getFIFOFileParamInv ==
    ASSUME FilesInv, panic = "none", NEW t \in User, getFIFOFileParam(t), UNCHANGED offset
    PROVE  FilesInv'
<1>1. InFIFO(t, "service") /\ UNCHANGED fifo
  BY DEF getFIFOFileParam, InFIFOService
<1>2. thr[t].pc = "service" /\ thr[t].pc \in {"service", "loop"} /\ thr[t].pc # "loop" /\ UNCHANGED <<exitVars, fifo, offset>>
  BY SMT, <1>1, FIFOStarts
<1>3. Serves(thr[t])
  BY <1>2 DEF Serves
<1>. QED BY <1>2, <1>3, completeRequestInv, RefuseInv DEF getFIFOFileParam

\* A step of processFIFO or deleteFIFO after which the thread is done.
LEMMA DoneInv ==
    ASSUME FilesInv, panic = "none", NEW t \in User, thr[t].pc \in {"loop", "free"},
           thr' = [thr EXCEPT ![t] = Idle], UNCHANGED <<of, ior, panic, exitVars>>,
           ListsKept, ReadsKept(Idle), FIFOTypeOK', offset' \in [Handle -> Nat],
           \A g \in Handle : thr[t].pc = "loop" /\ thr[t].file = g => ~Busy(g)'
    PROVE  FilesInv'
<1>. DEFINE h == thr[t].file
            f == of[h]
<1>1. /\ t \in Thread /\ t \notin ended /\ h \in Handle /\ f \in FileRec /\ panic' \in Panic
      /\ Uses(h) \in Nat /\ CountOK(f, Uses(h)) /\ (thr[t].back = "loop" => thr[t].pc = "loop")
  BY Starts DEF ThreadOK
<1>2. of' = [of EXCEPT ![h] = f] /\ (f.state = "left" => f.refused)
  BY <1>1, Starts DEF FilesInv, FilesCore, NoneLeft
<1>3. /\ OwnedBy(Idle) \subseteq OwnedBy(thr[t]) /\ ThreadOK(Idle, ior) /\ Idle.pc = "run" /\ Idle.file = NoHandle
      /\ Idle \in ThreadRec
  BY IdleOK DEF Idle
<1>4. \A g \in Handle : One(CallsOn(Idle, g)) = One(CallsOn(thr[t], g)) + IF g = h THEN 0 ELSE 0
  BY SMT, <1>3 DEF One, CallsOn
<1>5. CountOK(f, Uses(h) + 0) /\ h = thr[t].file /\ f = of[h]
  BY SMT, <1>1
<1>. HIDE DEF f, h
<1>6. /\ ior' = [ior EXCEPT ![1] = ior[1]] /\ ior[1] \in IORec /\ 1 \in Request
      /\ MoveThread(t, Idle, 1, ior[1]) /\ MoveRequest(t, 1, ior[1])
      /\ MoveUses(t, Idle, 1, ior[1], h, f, 0) /\ MoveLists(t, Idle, 1, ior[1])
  BY SMT, <1>1, <1>3, <1>4, <1>5, NoRequestStep
<1>7. Move(t, Idle, 1, ior[1], h, f)
  BY <1>1, <1>2, <1>3, <1>6 DEF Move
<1>8. MoveFile(t, Idle, 1, ior[1], h, f)
  BY <1>2, <1>3, <1>5 DEF MoveFile, Closes, Opens
<1>9. MoveReads(t, Idle)
  BY <1>1, <1>5 DEF MoveReads, Processes
<1>. QED BY <1>1, <1>6, <1>7, <1>8, <1>9, MoveInv

\* A step after which the thread goes on with its request, or cancels one, at another place.
LEMMA GoOnInv ==
    ASSUME FilesInv, panic = "none", NEW t \in User, NEW x \in ThreadRec, ThreadOK(x, ior),
           OwnedBy(x) \subseteq OwnedBy(thr[t]), x.file = thr[t].file, thr[t].pc # "run",
           {x.pc, thr[t].pc} \cap {"found", "undo"} = {}, ~Opens(x),
           thr' = [thr EXCEPT ![t] = x], UNCHANGED <<of, ior, exitVars>>, panic' \in Panic,
           (ListsKept /\ x.pc # "uncount") \/ Lists', ReadsKept(x), FIFOTypeOK', offset' \in [Handle -> Nat],
           Processes(thr[t]) => Processes(x)
    PROVE  FilesInv'
<1>. DEFINE h == thr[t].file
            f == of[h]
<1>1. /\ t \in Thread /\ t \notin ended /\ h \in Handle /\ f \in FileRec /\ 1 \in Request /\ ior[1] \in IORec
      /\ Uses(h) \in Nat /\ CountOK(f, Uses(h))
  BY Starts
<1>2. of' = [of EXCEPT ![h] = f] /\ (f.state = "left" => f.refused) /\ ior' = [ior EXCEPT ![1] = ior[1]]
  BY <1>1, Starts DEF FilesInv, FilesCore, NoneLeft
<1>3. h = thr[t].file /\ f = of[h]
  OBVIOUS
<1>. HIDE DEF f, h
<1>4. Move(t, x, 1, ior[1], h, f)
  BY <1>1, <1>2 DEF Move
<1>5. MoveThread(t, x, 1, ior[1])
  BY <1>2 DEF MoveThread
<1>6. MoveRequest(t, 1, ior[1])
  BY Starts DEF MoveRequest
<1>7. MoveFile(t, x, 1, ior[1], h, f)
  BY <1>2, <1>3 DEF MoveFile, Closes
<1>8. MoveUses(t, x, 1, ior[1], h, f, 0)
  <2>1. \A g \in Handle : /\ One(CallsOn(x, g)) = 0 /\ One(CallsOn(thr[t], g)) = 0
                          /\ One(CountsFor(ior[1], g)) \in Nat
    BY DEF One, CallsOn
  <2>. QED BY SMT, <1>1, <2>1 DEF MoveUses
<1>9. MoveLists(t, x, 1, ior[1]) \/ Lists'
  BY DEF MoveLists
<1>10. MoveReads(t, x)
  BY DEF MoveReads
<1>. QED BY <1>4, <1>5, <1>6, <1>7, <1>8, <1>9, <1>10, MoveInv

LEMMA writeFIFOFileInv ==
    ASSUME FilesInv, panic = "none", NEW t \in User, writeFIFOFile(t), UNCHANGED offset
    PROVE  FilesInv'
<1>1. InFIFO(t, "service") /\ thr[t].op = "write"
  BY DEF writeFIFOFile, InFIFOService
<1>. DEFINE h == thr[t].file
<1>2. thr[t].pc = "service" /\ UNCHANGED exitVars /\ h \in Handle /\ fifo[h] \in FIFORec
  BY <1>1, FIFOStarts
<1>3. CASE /\ fifo[h].elements < MaxElements /\ fifo' = [fifo EXCEPT ![h] = pushFIFOElement(@)]
           /\ Go(t, "loop") /\ UNCHANGED <<of, ior, panic>>
  <2>. DEFINE x == [thr[t] EXCEPT !.pc = "loop"]
              e == pushFIFOElement(fifo[h])
  <2>1. thr[t] \in ThreadRec /\ ThreadOK(thr[t], ior) /\ panic' \in Panic
    BY <1>3, Starts
  <2>2. /\ x \in ThreadRec /\ x.pc = "loop" /\ x.file = h /\ x.op = "write" /\ x.req = thr[t].req
        /\ thr' = [thr EXCEPT ![t] = x]
    BY <1>1, <1>3, <2>1 DEF ThreadRec, ThreadStep, Go
  <2>3. e \in FIFORec /\ e.pendingRead = fifo[h].pendingRead /\ fifo' = [fifo EXCEPT ![h] = e]
    BY SMT, <1>2, <1>3, FIFOFileAssumption DEF FIFORec, pushFIFOElement
  <2>4. h = thr[t].file
    OBVIOUS
  <2>. HIDE DEF x, e, h
  <2>5. ThreadOK(x, ior) /\ OwnedBy(x) \subseteq OwnedBy(thr[t])
    BY <1>2, <2>1, <2>2, <2>4 DEF ThreadOK, OwnedBy, Serves, Cancels, Completes
  <2>6. Processes(x) /\ ~Opens(x)
    BY <2>2 DEF Processes, Opens
  <2>7. ListsKept /\ ReadsKept(x) /\ FIFOTypeOK'
    BY <1>2, <2>2, <2>3, <2>6, FIFOStep DEF FIFORec
  <2>8. offset' \in [Handle -> Nat]
    BY OffsetTyped
  <2>. QED BY <1>2, <1>3, <2>1, <2>2, <2>4, <2>5, <2>6, <2>7, <2>8, GoOnInv
<1>4. CASE cancelFailedFileIO(t) /\ UNCHANGED fifo
  <2>1. UNCHANGED <<exitVars, fifo, offset>>
    BY <1>2, <1>4
  <2>. QED BY <1>2, <1>4, <2>1, RefuseInv
<1>. QED BY <1>3, <1>4 DEF writeFIFOFile

LEMMA readFIFOFileInv ==
    ASSUME FilesInv, panic = "none", NEW t \in User, readFIFOFile(t), UNCHANGED offset
    PROVE  FilesInv'
<1>. DEFINE h == thr[t].file
            r == thr[t].req
            f == of[h]
            x == [thr[t] EXCEPT !.pc = "loop"]
            y == [ior[r] EXCEPT !.step = "queued"]
            old == fifo[h].pendingRead
            new == <<r>> \o old
            e == [fifo[h] EXCEPT !.pendingRead = new]
<1>1. InFIFO(t, "service") /\ thr[t].op = "read"
  BY DEF readFIFOFile, InFIFOService
<1>2. thr[t].pc = "service" /\ UNCHANGED exitVars /\ fifo \in [Handle -> FIFORec] /\ fifo[h] \in FIFORec
  BY <1>1, FIFOStarts
<1>3. /\ t \in Thread /\ t \notin ended /\ h \in Handle /\ f \in FileRec /\ thr[t] \in ThreadRec
      /\ Uses(h) \in Nat /\ CountOK(f, Uses(h)) /\ ThreadOK(thr[t], ior)
      /\ r \in Request /\ ior[r].step = "service" /\ ior[r].file = h /\ ior[r] \in IORec
  BY <1>2, Starts DEF ThreadOK, Serves
<1>4. /\ x \in ThreadRec /\ x.pc = "loop" /\ x.file = h /\ x.op = "read"
      /\ thr' = [thr EXCEPT ![t] = x]
  BY <1>1, <1>3 DEF ThreadRec, ThreadStep, Go, readFIFOFile
<1>5. y \in IORec /\ y.step = "queued" /\ y.file = h /\ y.task = ior[r].task /\ ior' = [ior EXCEPT ![r] = y]
  BY <1>3 DEF IORec, RequestStep, readFIFOFile, Step
<1>6. of' = [of EXCEPT ![h] = f] /\ (f.state = "left" => f.refused) /\ panic' \in Panic
  BY <1>3, Starts DEF FilesInv, FilesCore, NoneLeft, readFIFOFile
<1>7. old \in Seq(Request) /\ <<r>> \in Seq(Request) /\ Len(<<r>>) = 1 /\ <<r>>[1] = r
  BY SMTT(20), <1>2, <1>3 DEF FIFORec
<1>8. /\ new \in Seq(Request) /\ Len(new) = Len(old) + 1 /\ new[1] = r
      /\ \A i \in 2..Len(old) + 1 : new[i] = old[i - 1]
  <2>1. /\ <<r>> \o old \in Seq(Request) /\ Len(<<r>> \o old) = 1 + Len(old)
        /\ \A i \in 1..1 + Len(old) : (<<r>> \o old)[i] = IF i <= 1 THEN <<r>>[1] ELSE old[i - 1]
    BY SMT, <1>7, ConcatFacts
  <2>. QED BY SMTT(20), <1>7, <2>1
<1>9. fifo' = [fifo EXCEPT ![h] = e]
  BY DEF readFIFOFile
<1>10. h = thr[t].file /\ r = thr[t].req /\ f = of[h] /\ old = fifo[h].pendingRead
  OBVIOUS
<1>. HIDE DEF new
<1>11. e \in FIFORec /\ e.pendingRead = new /\ e.elements = fifo[h].elements
  BY <1>2, <1>8 DEF FIFORec
<1>. HIDE DEF h, r, f, x, y, old, e
<1>12. Move(t, x, r, y, h, f)
  BY <1>2, <1>3, <1>4, <1>5, <1>6 DEF Move
<1>13. MoveThread(t, x, r, y)
  <2>1. ~Serves(x) /\ ~Cancels(x) /\ ~Completes(x)
    BY <1>4 DEF Serves, Cancels, Completes
  <2>2. ThreadOK(x, [ior EXCEPT ![r] = y]) /\ OwnedBy(x) = {}
    BY <1>3, <1>4, <2>1 DEF ThreadOK, OwnedBy
  <2>3. r \in OwnedBy(thr[t])
    BY <1>2, <1>3, <1>10 DEF OwnedBy, Serves
  <2>. QED BY <2>2, <2>3 DEF MoveThread
<1>14. MoveRequest(t, r, y)
  BY <1>3, <1>5 DEF MoveRequest
<1>15. MoveFile(t, x, r, y, h, f)
  BY <1>3, <1>4, <1>5, <1>6, <1>10 DEF MoveFile, Closes, Opens
<1>16. MoveUses(t, x, r, y, h, f, 0)
  <2>1. \A g \in Handle : One(CountsFor(y, g)) + One(CallsOn(x, g))
                          = One(CountsFor(ior[r], g)) + One(CallsOn(thr[t], g)) + IF g = h THEN 0 ELSE 0
    BY SMTT(20), <1>2, <1>3, <1>4, <1>5 DEF One, CountsFor, CallsOn
  <2>. QED BY SMT, <1>3, <2>1 DEF MoveUses
<1>17. fifo'[h] = e /\ \A g \in Handle : g # h => fifo'[g] = fifo[g]
  BY <1>2, <1>3, <1>9
<1>18. MoveReads(t, x)
  <2>1. FIFOTypeOK'
    BY <1>2, <1>9, <1>11 DEF FIFOTypeOK, FIFORec
  <2>2. Processes(x) /\ x.file = thr[t].file
    BY <1>4, <1>10 DEF Processes
  <2>3. ReadsKept(x)
    BY <1>4, <1>17, <2>2 DEF ReadsKept, Busy
  <2>4. offset' \in [Handle -> Nat]
    BY OffsetTyped
  <2>. QED BY <2>1, <2>2, <2>3, <2>4 DEF MoveReads
<1>19. Lists'
  <2>1. Lists /\ FileTypeOK /\ Threads
    BY DEF FilesInv, FilesTypeOK, FilesCore
  <2>2. \A q \in Request : ior'[q] = IF q = r THEN y ELSE ior[q]
    BY <1>3, <1>5, <2>1, FileStates
  <2>3. thr'[t] = x /\ \A u \in Thread : u # t => thr'[u] = thr[u]
    BY <1>3, <1>4, <2>1, FileStates
  <2>4. ASSUME NEW g \in Handle, NEW i \in 1..Len(fifo[g].pendingRead)
        PROVE  /\ fifo[g].pendingRead[i] \in Request /\ fifo[g].pendingRead[i] # r
               /\ ior'[fifo[g].pendingRead[i]].step \in InAList /\ ior'[fifo[g].pendingRead[i]].file = g
               /\ \A j \in 1..Len(fifo[g].pendingRead) : fifo[g].pendingRead[i] = fifo[g].pendingRead[j] => i = j
    <3>1. fifo[g].pendingRead \in Seq(Request)
      BY <1>2 DEF FIFORec
    <3>2. fifo[g].pendingRead[i] \in Request
      BY SMT, <2>4, <3>1
    <3>3. ior[fifo[g].pendingRead[i]].step \in InAList /\ ior[fifo[g].pendingRead[i]].file = g
          /\ \A j \in 1..Len(fifo[g].pendingRead) : fifo[g].pendingRead[i] = fifo[g].pendingRead[j] => i = j
      BY <2>1, <2>4 DEF Lists
    <3>4. fifo[g].pendingRead[i] # r
      <4>1. "service" \notin InAList
        BY DEF InAList
      <4>2. ior[r].step = "service"
        BY <1>3
      <4>. QED BY <3>3, <4>1, <4>2
    <3>. QED BY <2>2, <3>2, <3>3, <3>4
  <2>5. \A i \in 1..Len(old) : /\ old[i] # r /\ ior'[old[i]].step \in InAList /\ ior'[old[i]].file = h
                               /\ \A j \in 1..Len(old) : old[i] = old[j] => i = j
    <3>1. h \in Handle /\ old = fifo[h].pendingRead
      BY <1>2, <1>3, <1>10
    <3>. QED BY <2>4, <3>1
  <2>6. ior'[r].step \in InAList /\ ior'[r].file = h
    BY <1>3, <1>5, <2>2 DEF InAList
  <2>7. \A i \in 1..Len(new) : i = 1 \/ (i \in 2..Len(old) + 1 /\ i - 1 \in 1..Len(old) /\ new[i] = old[i - 1])
    BY SMT, <1>7, <1>8
  <2>8. \A i \in 1..Len(new) : ior'[new[i]].step \in InAList /\ ior'[new[i]].file = h
    BY SMTT(20), <1>8, <2>5, <2>6, <2>7
  <2>9. \A i, j \in 1..Len(new) : new[i] = new[j] => i = j
    <3>. SUFFICES ASSUME NEW i \in 1..Len(new), NEW j \in 1..Len(new), new[i] = new[j]
                 PROVE  i = j
      OBVIOUS
    <3>1. CASE i = 1
      BY SMTT(20), <1>8, <2>5, <2>7, <3>1
    <3>2. CASE j = 1
      BY SMTT(20), <1>8, <2>5, <2>7, <3>2
    <3>3. CASE i # 1 /\ j # 1
      <4>1. i - 1 \in 1..Len(old) /\ j - 1 \in 1..Len(old) /\ old[i - 1] = old[j - 1]
        BY <2>7, <3>3
      <4>2. i - 1 = j - 1
        BY <2>5, <4>1
      <4>. QED BY SMT, <4>2
    <3>. QED BY <3>1, <3>2, <3>3
  <2>10. ASSUME NEW g \in Handle, NEW i \in 1..Len(fifo'[g].pendingRead)
         PROVE  /\ ior'[fifo'[g].pendingRead[i]].step \in InAList
                /\ ior'[fifo'[g].pendingRead[i]].file = g
                /\ \A j \in 1..Len(fifo'[g].pendingRead) :
                      fifo'[g].pendingRead[i] = fifo'[g].pendingRead[j] => i = j
    <3>1. CASE g = h
      <4>1. fifo'[g].pendingRead = new
        BY <1>11, <1>17, <3>1
      <4>. QED BY <2>8, <2>9, <2>10, <3>1, <4>1
    <3>2. CASE g # h
      <4>1. fifo'[g].pendingRead = fifo[g].pendingRead
        BY <1>17, <3>2
      <4>. QED BY SMT, <2>4, <2>10, <4>1
    <3>. QED BY <3>1, <3>2
  <2>11. ASSUME NEW u \in Thread, thr'[u].pc = "uncount", NEW i \in 1..Len(fifo'[thr'[u].file].pendingRead)
         PROVE  fifo'[thr'[u].file].pendingRead[i] # thr'[u].req
    <3>1. u # t /\ thr'[u] = thr[u]
      BY <1>4, <2>3, <2>11
    <3>2. /\ thr[u].file \in Handle /\ thr[u].pc = "uncount" /\ thr[u].req # r
          /\ \A j \in 1..Len(fifo[thr[u].file].pendingRead) : fifo[thr[u].file].pendingRead[j] # thr[u].req
      <4>1. thr[u].pc = "uncount"
        BY <2>11, <3>1
      <4>2. ThreadOK(thr[u], ior)
        BY <2>1 DEF Threads
      <4>3. thr[u].file \in Handle /\ ior[thr[u].req].step \in {"cancelling", "cancelled"}
        BY <4>1, <4>2 DEF ThreadOK, Cancels
      <4>4. thr[u].req # r
        BY <1>3, <4>3
      <4>5. \A j \in 1..Len(fifo[thr[u].file].pendingRead) : fifo[thr[u].file].pendingRead[j] # thr[u].req
        BY <2>1, <4>1 DEF Lists
      <4>. QED BY <4>1, <4>3, <4>4, <4>5
    <3>3. CASE thr[u].file = h
      <4>1. fifo'[thr'[u].file].pendingRead = new
        BY <1>11, <1>17, <3>1, <3>3
      <4>2. \A j \in 1..Len(old) : old[j] # thr[u].req
        BY <1>10, <3>2, <3>3
      <4>. QED BY <1>8, <2>7, <2>11, <3>1, <3>2, <4>1, <4>2
    <3>4. CASE thr[u].file # h
      BY <1>17, <2>11, <3>1, <3>2, <3>4
    <3>. QED BY <3>3, <3>4
  <2>. QED BY <2>10, <2>11 DEF Lists
<1>. QED BY <1>6, <1>12, <1>13, <1>14, <1>15, <1>16, <1>18, <1>19, MoveInv

LEMMA popFIFORequestInv ==
    ASSUME FilesInv, panic = "none", NEW t \in User, InFIFO(t, "loop"), popFIFORequest(t, thr[t].file),
           UNCHANGED offset
    PROVE  FilesInv'
<1>. DEFINE h == thr[t].file
            f == of[h]
            old == fifo[h].pendingRead
            r == Head(old)
            x == [thr[t] EXCEPT !.pc = "count", !.todo = <<r>>, !.back = "loop"]
            y == [ior[r] EXCEPT !.step = "claimed"]
            e == [popFIFOElement(fifo[h]) EXCEPT !.pendingRead = Tail(old)]
<1>1. /\ thr[t].pc = "loop" /\ UNCHANGED exitVars /\ fifo \in [Handle -> FIFORec] /\ h \in Handle
      /\ fifo[h] \in FIFORec /\ fifo[h].elements > 0 /\ old # <<>>
  BY FIFOStarts DEF popFIFORequest, hasFIFOElement
<1>2. /\ old \in Seq(Request) /\ Tail(old) \in Seq(Request) /\ r = old[1] /\ 1 \in 1..Len(old)
      /\ Len(Tail(old)) = Len(old) - 1 /\ \A i \in 1..Len(old) - 1 : Tail(old)[i] = old[i + 1]
  <2>1. old \in Seq(Request)
    BY <1>1 DEF FIFORec
  <2>. QED BY <1>1, <2>1, TailFrom
<1>3. /\ t \in Thread /\ t \notin ended /\ f \in FileRec /\ thr[t] \in ThreadRec
      /\ Uses(h) \in Nat /\ CountOK(f, Uses(h)) /\ ThreadOK(thr[t], ior)
      /\ r \in Request /\ ior[r] \in IORec
  <2>1. r \in Request
    BY SMT, <1>2
  <2>. QED BY <1>1, <2>1, Starts
<1>4. /\ Lists /\ Threads /\ FileTypeOK /\ FIFOTypeOK /\ ior[r].file = h
      /\ \A i, j \in 1..Len(old) : old[i] = old[j] => i = j
  <2>1. Lists /\ Threads /\ FileTypeOK /\ FIFOTypeOK
    BY DEF FilesInv, FilesCore, FilesTypeOK
  <2>2. \A i \in 1..Len(old) : /\ ior[old[i]].file = h
                                /\ \A j \in 1..Len(old) : old[i] = old[j] => i = j
    BY <1>1, <2>1 DEF Lists
  <2>. QED BY <1>2, <2>1, <2>2
<1>5. /\ x \in ThreadRec /\ x.pc = "count" /\ x.todo = <<r>> /\ x.back = "loop" /\ x.file = h
      /\ x.op = thr[t].op /\ x.req = thr[t].req
  <2>1. "count" \in ThreadStep /\ "loop" \in {"run", "loop", "free"}
    BY DEF ThreadStep
  <2>2. <<r>> \in Seq(Request)
    BY SMT, <1>3
  <2>. QED BY <1>3, <2>1, <2>2 DEF ThreadRec
<1>6. y \in IORec /\ y.step = "claimed" /\ y.file = h /\ y.task = ior[r].task
  BY <1>3, <1>4 DEF IORec, RequestStep
<1>7. e \in FIFORec /\ e.pendingRead = Tail(old)
  <2>. DEFINE e1 == popFIFOElement(fifo[h])
  <2>1. e1 \in FIFORec /\ e1.pendingRead = old
    BY SMTT(20), <1>1, FIFOFileAssumption DEF FIFORec, popFIFOElement
  <2>. HIDE DEF e1
  <2>2. [e1 EXCEPT !.pendingRead = Tail(old)] \in FIFORec
        /\ [e1 EXCEPT !.pendingRead = Tail(old)].pendingRead = Tail(old)
    BY <1>2, <2>1 DEF FIFORec
  <2>. QED BY <2>2 DEF e1
<1>8. ior' = [ior EXCEPT ![r] = y] /\ fifo' = [fifo EXCEPT ![h] = e] /\ of' = of
  BY DEF popFIFORequest, Step
<1>9. thr' = [thr EXCEPT ![t] = x]
  BY DEF popFIFORequest, CompleteNext
<1>10. panic' \in Panic /\ (panic' = "none" => ior[r].step = "queued")
  BY DEF popFIFORequest, Panic
<1>11. of' = [of EXCEPT ![h] = f] /\ (f.state = "left" => f.refused)
  BY <1>1, <1>8, Starts DEF FilesInv, FilesCore, NoneLeft
<1>12. h = thr[t].file /\ f = of[h] /\ old = fifo[h].pendingRead
  OBVIOUS
<1>. HIDE DEF h, f, old, r, x, y, e
<1>13. Move(t, x, r, y, h, f)
  BY <1>1, <1>3, <1>5, <1>6, <1>8, <1>9, <1>11 DEF Move
<1>14. FIFOTypeOK' /\ offset' \in [Handle -> Nat]
  BY <1>1, <1>7, <1>8, OffsetTyped DEF FIFOTypeOK, FIFORec
<1>15. CASE panic' # "none"
  BY <1>10, <1>13, <1>14, <1>15, PanicInv
<1>16. CASE panic' = "none"
  <2>1. ior[r].step = "queued"
    BY <1>10, <1>16
  <2>2. MoveThread(t, x, r, y)
    <3>. DEFINE io == [ior EXCEPT ![r] = y]
    <3>1. io[r] = y /\ \A q \in Request : q # r => io[q] = ior[q]
      BY <1>3, Starts
    <3>. HIDE DEF io
    <3>2. Serves(x) <=> Serves(thr[t])
      BY <1>1, <1>5 DEF Serves
    <3>3. Serves(thr[t]) => x.req \in Request /\ x.req # r /\ ior[x.req].step = "service" /\ ior[x.req].file = h
      BY <1>3, <1>5, <1>12, <2>1 DEF ThreadOK
    <3>4. Serves(x) => x.req \in Request /\ io[x.req].step = "service" /\ io[x.req].file = x.file
      BY <1>5, <3>1, <3>2, <3>3
    <3>5. Len(x.todo) = 1 /\ x.todo[1] = r
      BY SMT, <1>5
    <3>6. ~Cancels(x)
      BY <1>5 DEF Cancels
    <3>7. ThreadOK(x, io)
      BY <1>1, <1>3, <1>5, <1>6, <3>1, <3>4, <3>5, <3>6 DEF ThreadOK
    <3>8. OwnedBy(x) \subseteq OwnedBy(thr[t]) \cup {r}
      BY <1>5, <3>2, <3>5, <3>6 DEF OwnedBy
    <3>. QED BY <2>1, <3>7, <3>8 DEF MoveThread, Carried, io
  <2>3. MoveRequest(t, r, y)
    BY <1>1, <1>6, <2>1 DEF MoveRequest
  <2>4. MoveFile(t, x, r, y, h, f)
    BY <1>5, <1>6, <1>11, <1>12, <2>1 DEF MoveFile, Closes, Opens
  <2>5. MoveUses(t, x, r, y, h, f, 0)
    <3>1. \A g \in Handle : One(CountsFor(y, g)) + One(CallsOn(x, g))
                            = One(CountsFor(ior[r], g)) + One(CallsOn(thr[t], g)) + IF g = h THEN 0 ELSE 0
      BY SMTT(20), <1>1, <1>4, <1>5, <1>6, <2>1 DEF One, CountsFor, CallsOn
    <3>. QED BY SMTT(20), <1>3, <3>1 DEF MoveUses
  <2>6. MoveReads(t, x)
    <3>1. Processes(x) /\ x.file = thr[t].file
      BY <1>5, <1>12 DEF Processes
    <3>2. \A g \in Handle : g # h => fifo'[g] = fifo[g]
      BY <1>1, <1>8
    <3>3. ReadsKept(x)
      BY <1>5, <3>1, <3>2 DEF ReadsKept, Busy
    <3>. QED BY <1>14, <3>1, <3>3 DEF MoveReads
  <2>7. Lists'
    <3>. DEFINE m == [i \in 1..Len(old) - 1 |-> i + 1]
    <3>1. m \in [1..Len(Tail(old)) -> 1..Len(old)] /\ \A i \in 1..Len(Tail(old)) : m[i] = i + 1
      BY SMT, <1>2
    <3>. HIDE DEF m
    <3>2. From(Tail(old), old)
      <4>1. \A i \in 1..Len(Tail(old)) : Tail(old)[i] = old[m[i]]
        BY <1>2, <3>1
      <4>2. \A i, j \in 1..Len(Tail(old)) : m[i] = m[j] => i = j
        BY SMT, <3>1
      <4>. QED BY <3>1, <4>1, <4>2 DEF From
    <3>3. \A i \in 1..Len(Tail(old)) : Tail(old)[i] # r
      <4>. SUFFICES ASSUME NEW i \in 1..Len(Tail(old)), Tail(old)[i] = r PROVE FALSE
        OBVIOUS
      <4>1. i + 1 \in 1..Len(old) /\ old[i + 1] = old[1] /\ i + 1 # 1
        BY SMT, <1>2
      <4>. QED BY <1>2, <1>4, <4>1
    <3>4. Threads'
      BY <1>3, <1>4, <1>8, <1>9, <2>2, MoveThreads DEF FilesInv, FilesCore
    <3>5. x.pc # "uncount"
      BY <1>5
    <3>. QED BY <1>1, <1>3, <1>4, <1>7, <1>8, <1>9, <1>12, <3>2, <3>3, <3>4, <3>5, ShorterLists
  <2>. QED BY <1>10, <1>13, <2>2, <2>3, <2>4, <2>5, <2>6, <2>7, MoveInv
<1>. QED BY <1>15, <1>16

LEMMA processFIFOInv ==
    ASSUME FilesInv, panic = "none", NEW t \in User, processFIFO(t), UNCHANGED offset
    PROVE  FilesInv'
<1>. DEFINE h == thr[t].file
<1>1. InFIFO(t, "loop")
  BY DEF processFIFO
<1>2. thr[t].pc = "loop" /\ UNCHANGED exitVars /\ h \in Handle /\ fifo[h] \in FIFORec
  BY <1>1, FIFOStarts
<1>3. CASE popFIFORequest(t, h)
  BY <1>1, <1>3, popFIFORequestInv
<1>4. CASE leaveFIFO(t, h)
  <2>1. UNCHANGED <<exitVars, fifo, offset>> /\ ~Busy(h)
    BY <1>2, <1>4 DEF leaveFIFO, Busy, hasFIFOElement
  <2>2. CASE thr[t].op = "write" /\ completeRequest(t)
    <3>1. Serves(thr[t]) /\ thr[t].pc \in {"service", "loop"}
      BY <1>2, <2>2 DEF Serves
    <3>. QED BY <2>1, <2>2, <3>1, completeRequestInv
  <2>3. CASE thr' = [thr EXCEPT ![t] = Idle] /\ UNCHANGED <<of, ior, panic>>
    <3>1. /\ ListsKept /\ ReadsKept(Idle) /\ FIFOTypeOK' /\ offset' \in [Handle -> Nat]
          /\ \A g \in Handle : thr[t].file = g => ~Busy(g)'
      BY <2>1, SameFIFO
    <3>2. UNCHANGED <<of, ior, panic, exitVars>> /\ thr[t].pc \in {"loop", "free"}
      BY <1>2, <2>3
    <3>. QED BY <2>3, <3>1, <3>2, DoneInv
  <2>. QED BY <1>4, <2>2, <2>3 DEF leaveFIFO
<1>5. CASE panic' = "freed" /\ UNCHANGED <<of, ior, thr, fifo>>
  <2>1. FileTypeOK'
    <3>1. of \in [Handle -> FileRec] /\ ior \in [Request -> IORec] /\ thr \in [Thread -> ThreadRec]
          /\ exiting \subseteq User /\ ended \subseteq User \ exiting
      BY FileStates DEF FilesInv, FilesTypeOK
    <3>2. exiting' = exiting /\ ended' = ended /\ panic' \in Panic
      BY <1>2, <1>5 DEF exitVars, Panic
    <3>. QED BY <1>5, <3>1, <3>2, FileStatesNext
  <2>2. FIFOTypeOK' /\ offset' \in [Handle -> Nat]
    BY <1>5, SameFIFO
  <2>. QED BY <1>5, <2>1, <2>2 DEF FilesInv, FilesTypeOK
<1>. QED BY <1>3, <1>4, <1>5 DEF processFIFO

LEMMA closeFIFOFileInv ==
    ASSUME FilesInv, panic = "none", NEW t \in User, closeFIFOFile(t), UNCHANGED offset
    PROVE  FilesInv'
<1>. DEFINE h == thr[t].file
            e == [fifo[h] EXCEPT !.elements = 0]
<1>1. InFIFO(t, "service")
  BY DEF closeFIFOFile, InFIFOService
<1>2. thr[t].pc = "service" /\ UNCHANGED exitVars /\ h \in Handle /\ fifo[h] \in FIFORec
  BY <1>1, FIFOStarts
<1>3. e \in FIFORec /\ e.elements = 0 /\ e.pendingRead = fifo[h].pendingRead /\ fifo' = [fifo EXCEPT ![h] = e]
  BY SMT, <1>2, FIFOFileAssumption DEF FIFORec, closeFIFOFile
<1>. HIDE DEF e
<1>4. ListsKept /\ FIFOTypeOK' /\ (\A x : ReadsKept(x)) /\ offset' \in [Handle -> Nat]
  BY <1>2, <1>3, FIFOStep, OffsetTyped DEF FIFORec
<1>5. CASE completeCloseFile(t, "free")
  BY <1>2, <1>4, <1>5, completeCloseFileInv
<1>6. CASE panic' = "pending" /\ UNCHANGED <<of, ior, thr>>
  <2>1. FileTypeOK'
    <3>1. of \in [Handle -> FileRec] /\ ior \in [Request -> IORec] /\ thr \in [Thread -> ThreadRec]
          /\ exiting \subseteq User /\ ended \subseteq User \ exiting
      BY FileStates DEF FilesInv, FilesTypeOK
    <3>2. exiting' = exiting /\ ended' = ended /\ panic' \in Panic
      BY <1>2, <1>6 DEF exitVars, Panic
    <3>. QED BY <1>6, <3>1, <3>2, FileStatesNext
  <2>. QED BY <1>4, <1>6, <2>1 DEF FilesInv, FilesTypeOK
<1>. QED BY <1>5, <1>6 DEF closeFIFOFile

LEMMA deleteFIFOInv ==
    ASSUME FilesInv, panic = "none", NEW t \in User, deleteFIFO(t), UNCHANGED offset
    PROVE  FilesInv'
<1>1. InFIFO(t, "free") /\ fifo' = [fifo EXCEPT ![thr[t].file] = NoFIFO] /\ thr' = [thr EXCEPT ![t] = Idle]
  BY DEF deleteFIFO
<1>2. thr[t].pc = "free" /\ thr[t].file \in Handle /\ UNCHANGED <<of, ior, panic, exitVars>>
  BY <1>1, FIFOStarts DEF deleteFIFO
<1>3. NoFIFO \in FIFORec /\ NoFIFO.elements = 0 /\ NoFIFO.pendingRead = <<>>
  BY SMT, FIFOFileAssumption DEF FIFORec, NoFIFO
<1>4. ListsKept /\ FIFOTypeOK' /\ ReadsKept(Idle) /\ offset' \in [Handle -> Nat]
  BY <1>1, <1>2, <1>3, FIFOStep, OffsetTyped DEF FIFORec
<1>5. thr[t].pc \in {"loop", "free"} /\ thr[t].pc # "loop"
  BY <1>2
<1>. QED BY <1>1, <1>2, <1>4, <1>5, DoneInv

LEMMA cancelReadFIFOInv ==
    ASSUME FilesInv, panic = "none", NEW t \in User, cancelReadFIFO(t), UNCHANGED offset
    PROVE  FilesInv'
<1>. DEFINE h == thr[t].file
            old == fifo[h].pendingRead
            new == Without(old, thr[t].req)
            x == [thr[t] EXCEPT !.pc = "uncount"]
            e == [fifo[h] EXCEPT !.pendingRead = new]
<1>1. InFIFO(t, "cancel") /\ fifo' = [fifo EXCEPT ![h] = e] /\ UNCHANGED <<of, ior, panic>>
  BY DEF cancelReadFIFO
<1>2. /\ thr[t].pc = "cancel" /\ UNCHANGED exitVars /\ fifo \in [Handle -> FIFORec] /\ h \in Handle
      /\ fifo[h] \in FIFORec
  BY <1>1, FIFOStarts
<1>3. /\ t \in Thread /\ thr[t] \in ThreadRec /\ ThreadOK(thr[t], ior) /\ panic' \in Panic /\ 1 \in Request
      /\ ior \in [Request -> IORec]
  BY <1>1, Starts
<1>4. /\ x \in ThreadRec /\ x.pc = "uncount" /\ x.file = h /\ x.req = thr[t].req /\ x.back = thr[t].back
      /\ thr' = [thr EXCEPT ![t] = x]
  BY <1>3 DEF ThreadRec, ThreadStep, cancelReadFIFO, Go
<1>5. Lists /\ Threads /\ Apart /\ FileTypeOK /\ FIFOTypeOK
  BY DEF FilesInv, FilesCore, FilesTypeOK
<1>6. old \in Seq(Request) /\ \A i, j \in 1..Len(old) : old[i] = old[j] => i = j
  BY <1>2, <1>5 DEF Lists, FIFORec
<1>7. new \in Seq(Request) /\ From(new, old) /\ \A i \in 1..Len(new) : new[i] # thr[t].req
  BY <1>6, WithoutFrom
<1>. HIDE DEF new
<1>8. e \in FIFORec /\ e.pendingRead = new /\ e.elements = fifo[h].elements
  BY <1>2, <1>7 DEF FIFORec
<1>9. h = thr[t].file /\ old = fifo[h].pendingRead
  OBVIOUS
<1>. HIDE DEF x, e, h, old
<1>10. ThreadOK(x, ior) /\ OwnedBy(x) \subseteq OwnedBy(thr[t])
  BY <1>2, <1>3, <1>4, <1>9 DEF ThreadOK, OwnedBy, Serves, Cancels, Completes
<1>11. ior' = [ior EXCEPT ![1] = ior[1]]
  BY <1>1, <1>3
<1>12. Threads'
  <2>1. MoveThread(t, x, 1, ior[1])
    BY <1>1, <1>10, <1>11 DEF MoveThread
  <2>. QED BY <1>3, <1>4, <1>5, <1>11, <2>1, MoveThreads
<1>13. Lists'
  <2>1. From(e.pendingRead, fifo[h].pendingRead) /\ \A i \in 1..Len(e.pendingRead) : e.pendingRead[i] # x.req
    BY <1>4, <1>7, <1>8, <1>9
  <2>. QED BY ZenonT(30), <1>1, <1>2, <1>3, <1>4, <1>5, <1>11, <1>12, <2>1, ShorterLists
<1>14. FIFOTypeOK' /\ offset' \in [Handle -> Nat]
  BY <1>1, <1>2, <1>8, OffsetTyped DEF FIFOTypeOK, FIFORec
<1>15. ReadsKept(x)
  <2>1. fifo'[h] = e /\ \A g \in Handle : g # h => fifo'[g] = fifo[g]
    BY <1>1, <1>2
  <2>2. old = <<>> => new = <<>>
    <3>1. old = <<>> => Len(new) = 0
      BY SMT, <1>6, <1>7 DEF From
    <3>. QED BY SMT, <1>7, <3>1
  <2>. QED BY <1>8, <1>9, <2>1, <2>2 DEF ReadsKept, Busy
<1>16. ~Opens(x) /\ ~Processes(thr[t]) /\ {x.pc, thr[t].pc} \cap {"found", "undo"} = {}
  BY <1>2, <1>3, <1>4 DEF Opens, Processes, ThreadOK
<1>. QED BY <1>1, <1>2, <1>3, <1>4, <1>9, <1>10, <1>13, <1>14, <1>15, <1>16, GoOnInv

LEMMA FIFOServiceInv ==
    ASSUME FilesInv, panic = "none", NEW t \in User, FIFOService(t), UNCHANGED offset
    PROVE  FilesInv'
BY openFIFOFileInv, readFIFOFileInv, writeFIFOFileInv, getFIFOFileParamInv, processFIFOInv,
   closeFIFOFileInv, deleteFIFOInv, cancelReadFIFOInv DEF FIFOService

-----------------------------------------------------------------------------
\* kernelfs.c

LEMMA KFSStarts ==
    ASSUME NEW t \in User, NEW step, InKFS(t, step)
    PROVE  thr[t].pc = step /\ UNCHANGED exitVars /\ thr[t].file \in Handle
BY DEF InKFS, At

LEMMA SameLists ==
    ASSUME FilesInv, UNCHANGED fifo
    PROVE  ListsKept /\ FIFOTypeOK' /\ (\A x : ReadsKept(x)) /\ \A g : Busy(g)' = Busy(g)
BY DEF FilesInv, FilesTypeOK, FIFOTypeOK, ListsKept, ReadsKept, Busy

LEMMA openKFSInv ==
    ASSUME FilesInv, panic = "none", NEW t \in User, openKFS(t), UNCHANGED fifo
    PROVE  FilesInv'
<1>1. InKFS(t, "service") /\ thr[t].op = "open"
  BY DEF openKFS, InKFSService
<1>2. thr[t].pc = "service" /\ UNCHANGED exitVars /\ thr[t].file \in Handle /\ Opens(thr[t])
  BY <1>1, KFSStarts DEF Opens
<1>3. CASE completeOpenFile(t) /\ offset' = [offset EXCEPT ![thr[t].file] = 0]
  <2>1. offset' \in [Handle -> Nat]
    BY <1>2, <1>3, OffsetTyped
  <2>. QED BY <1>2, <1>3, <2>1, SameLists, completeOpenFileInv
<1>4. CASE cancelFailedFileIO(t) /\ UNCHANGED offset
  <2>1. UNCHANGED <<exitVars, fifo, offset>>
    BY <1>2, <1>4
  <2>. QED BY <1>2, <1>4, <2>1, RefuseInv
<1>. QED BY <1>3, <1>4 DEF openKFS

LEMMA fetchOffsetInv ==
    ASSUME FilesInv, panic = "none", NEW t \in User, fetchOffset(t), UNCHANGED fifo
    PROVE  FilesInv'
<1>. DEFINE h == thr[t].file
<1>1. InKFS(t, "service") /\ thr[t].op = "read" /\ UNCHANGED <<fifo, offset>>
  BY DEF fetchOffset, InKFSService
<1>2. thr[t].pc = "service" /\ UNCHANGED exitVars /\ h \in Handle
  BY <1>1, KFSStarts
<1>3. CASE /\ thr' = [thr EXCEPT ![t].pc = "position", ![t].position = offset[h]]
           /\ panic' = IF of[h].kind = "directory" /\ offset[h] > BlobCount THEN "entry" ELSE "none"
           /\ UNCHANGED <<of, ior>>
  <2>. DEFINE x == [thr[t] EXCEPT !.pc = "position", !.position = offset[h]]
  <2>1. thr[t] \in ThreadRec /\ ThreadOK(thr[t], ior) /\ offset[h] \in Nat
    BY <1>2, Starts, OffsetTyped
  <2>2. /\ x \in ThreadRec /\ x.pc = "position" /\ x.file = h /\ x.req = thr[t].req /\ x.back = thr[t].back
        /\ x.op = thr[t].op /\ thr' = [thr EXCEPT ![t] = x]
    BY <1>3, <2>1 DEF ThreadRec, ThreadStep
  <2>3. panic' \in Panic /\ h = thr[t].file
    BY <1>3 DEF Panic
  <2>. HIDE DEF x, h
  <2>4. ThreadOK(x, ior) /\ OwnedBy(x) \subseteq OwnedBy(thr[t])
    BY <1>2, <2>1, <2>2, <2>3 DEF ThreadOK, OwnedBy, Serves, Cancels, Completes
  <2>5. ~Opens(x) /\ ~Processes(thr[t]) /\ {x.pc, thr[t].pc} \cap {"found", "undo"} = {} /\ x.pc # "uncount"
    BY <1>2, <2>1, <2>2 DEF Opens, Processes, ThreadOK
  <2>6. ListsKept /\ ReadsKept(x) /\ FIFOTypeOK' /\ offset' \in [Handle -> Nat]
    BY <1>1, SameFIFO
  <2>. QED BY <1>2, <1>3, <2>2, <2>3, <2>4, <2>5, <2>6, GoOnInv
<1>4. CASE cancelFailedFileIO(t)
  <2>1. UNCHANGED <<exitVars, fifo, offset>>
    BY <1>1, <1>2
  <2>. QED BY <1>2, <1>4, <2>1, RefuseInv
<1>. QED BY <1>3, <1>4 DEF fetchOffset

LEMMA advanceOffsetInv ==
    ASSUME FilesInv, panic = "none", NEW t \in User, advanceOffset(t), UNCHANGED fifo
    PROVE  FilesInv'
<1>. DEFINE h == thr[t].file
            x == [thr[t] EXCEPT !.pc = "count", !.todo = <<thr[t].req>>, !.position = 0]
<1>1. /\ InKFS(t, "position") /\ ior' = Step(thr[t].req, "claimed") /\ thr' = [thr EXCEPT ![t] = x]
      /\ UNCHANGED <<of, panic>>
  BY DEF advanceOffset
<1>2. thr[t].pc = "position" /\ UNCHANGED exitVars /\ h \in Handle
  BY <1>1, KFSStarts
<1>3. /\ thr[t] \in ThreadRec /\ Serves(thr[t]) /\ thr[t].req \in Request /\ of[h] \in FileRec
      /\ Uses(h) \in Nat /\ CountOK(of[h], Uses(h)) /\ panic' \in Panic /\ thr[t].back # "loop"
  BY <1>1, <1>2, Starts DEF ThreadOK, Serves
<1>4. /\ x \in ThreadRec /\ x.pc = "count" /\ x.todo = <<thr[t].req>> /\ x.back \in {"run", "free"}
      /\ x.file = h
  <2>1. "count" \in ThreadStep /\ thr[t].back \in {"run", "free"}
    BY <1>3 DEF ThreadRec, ThreadStep
  <2>2. <<thr[t].req>> \in Seq(Request) /\ 0 \in Nat
    BY SMT, <1>3
  <2>. QED BY <1>3, <2>1, <2>2 DEF ThreadRec
<1>5. of' = [of EXCEPT ![h] = of[h]] /\ (of[h].state = "left" => of[h].refused)
  BY <1>1, <1>2, Starts DEF FilesInv, FilesCore, NoneLeft
<1>6. offset' \in [Handle -> Nat]
  <2>1. thr[t].position \in Nat
    BY <1>3 DEF ThreadRec
  <2>2. copySize(thr[t].position) \in Nat
    BY SMT, <2>1, KernelFSAssumption DEF copySize
  <2>3. (IF of[h].kind = "directory" THEN 1 ELSE copySize(thr[t].position)) \in Nat
    BY <2>2
  <2>. QED BY SMT, <1>2, <2>3, OffsetTyped DEF advanceOffset
<1>. HIDE DEF x
<1>. QED BY <1>1, <1>2, <1>3, <1>4, <1>5, <1>6, SameLists, AnswerInv

LEMMA KernelFSServiceInv ==
    ASSUME FilesInv, panic = "none", NEW t \in User, KernelFSService(t), UNCHANGED fifo
    PROVE  FilesInv'
<1>1. CASE openKFS(t)
  BY <1>1, openKFSInv
<1>2. CASE fetchOffset(t)
  BY <1>2, fetchOffsetInv
<1>3. CASE advanceOffset(t)
  BY <1>3, advanceOffsetInv
<1>4. CASE getKFSParameter(t)
  <2>1. InKFS(t, "service") /\ UNCHANGED offset
    BY <1>4 DEF getKFSParameter, InKFSService
  <2>2. thr[t].pc = "service" /\ thr[t].pc \in {"service", "loop"} /\ thr[t].pc # "loop" /\ UNCHANGED <<exitVars, fifo, offset>>
    BY SMT, <2>1, KFSStarts
  <2>3. Serves(thr[t])
    BY <2>2 DEF Serves
  <2>. QED BY <1>4, <2>2, <2>3, completeRequestInv, RefuseInv DEF getKFSParameter
<1>5. CASE refuseWriteKFS(t)
  <2>1. InKFS(t, "service") /\ UNCHANGED offset /\ cancelFailedFileIO(t)
    BY <1>5 DEF refuseWriteKFS, InKFSService
  <2>2. thr[t].pc = "service" /\ UNCHANGED <<exitVars, fifo, offset>>
    BY <2>1, KFSStarts
  <2>. QED BY <2>1, <2>2, RefuseInv
<1>6. CASE closeKFS(t)
  <2>1. InKFS(t, "service") /\ UNCHANGED offset /\ completeCloseFile(t, "run")
    BY <1>6 DEF closeKFS, InKFSService
  <2>2. thr[t].pc = "service" /\ UNCHANGED exitVars /\ offset' \in [Handle -> Nat]
    BY <2>1, KFSStarts, OffsetTyped
  <2>. QED BY <2>1, <2>2, SameLists, completeCloseFileInv
<1>. QED BY <1>1, <1>2, <1>3, <1>4, <1>5, <1>6 DEF KernelFSService

-----------------------------------------------------------------------------
\* The theorems

FST == INSTANCE FiniteSetTheorems

LEMMA SizesAgree ==
    /\ \A S : FST!IsFiniteSet(S) <=> IsFiniteSet(S)
    /\ \A S : FST!Cardinality(S) = Cardinality(S)
<1>1. \A S : FST!IsFiniteSet(S) <=> IsFiniteSet(S)
  BY DEF IsFiniteSet, FST!IsFiniteSet
<1>2. \A S : FST!Cardinality(S) = Cardinality(S)
  BY DEF Cardinality, FST!Cardinality
<1>. QED BY <1>1, <1>2

LEMMA CountingFactsHold == CountingFacts
<1>1. FST!IsFiniteSet(Request) /\ FST!IsFiniteSet(Thread)
  <2>1. FST!IsFiniteSet(User) /\ FST!IsFiniteSet(Kernel) /\ FST!IsFiniteSet(Handle)
    BY FileAssumption, SizesAgree
  <2>2. FST!IsFiniteSet(Thread)
    BY <2>1, FST!FS_Union DEF Thread
  <2>3. 1 \in Int /\ Requests \in Int
    BY SMT, FileAssumption
  <2>4. FST!IsFiniteSet(1..Requests)
    BY <2>3, FST!FS_Interval
  <2>5. FST!IsFiniteSet(Request)
    BY <2>1, <2>4, FST!FS_Union DEF Request, Pool
  <2>. QED BY <2>2, <2>5
<1>2. ASSUME NEW S \in (SUBSET Request) \cup (SUBSET Thread)
      PROVE  /\ Cardinality(S) \in Nat /\ (Cardinality(S) = 0 <=> S = {})
             /\ \A e : /\ Cardinality(S \ {e}) = Cardinality(S) - (IF e \in S THEN 1 ELSE 0)
                       /\ Cardinality(S \cup {e}) = Cardinality(S) + (IF e \in S THEN 0 ELSE 1)
  <2>1. FST!IsFiniteSet(S)
    BY <1>1, FST!FS_Subset
  <2>2. Cardinality(S) \in Nat
    BY <2>1, SizesAgree, FST!FS_CardinalityType
  <2>3. Cardinality(S) = 0 <=> S = {}
    BY <2>1, SizesAgree, FST!FS_EmptySet
  <2>4. ASSUME NEW e
        PROVE  /\ Cardinality(S \ {e}) = Cardinality(S) - (IF e \in S THEN 1 ELSE 0)
               /\ Cardinality(S \cup {e}) = Cardinality(S) + (IF e \in S THEN 0 ELSE 1)
    <3>1. Cardinality(S \ {e}) = IF e \in S THEN Cardinality(S) - 1 ELSE Cardinality(S)
      BY <2>1, SizesAgree, FST!FS_RemoveElement
    <3>2. Cardinality(S \cup {e}) = IF e \in S THEN Cardinality(S) ELSE Cardinality(S) + 1
      BY <2>1, SizesAgree, FST!FS_AddElement
    <3>. QED BY SMTT(20), <2>2, <3>1, <3>2
  <2>. QED BY <2>2, <2>3, <2>4
<1>. QED BY <1>2 DEF CountingFacts

LEMMA FilesInitInv == FileServicesInit => FilesInv
<1>. SUFFICES ASSUME FileServicesInit PROVE FilesInv
  OBVIOUS
<1>1. PICK kind \in [Handle -> {"fifo", "blob", "directory"}] : of = [h \in Handle |-> NoFile(kind[h], FALSE)]
  BY DEF FileServicesInit, FileInit
<1>2. /\ ior = [r \in Request |-> NoIO] /\ thr = [t \in Thread |-> Idle] /\ exiting = {} /\ ended = {}
      /\ panic = "none" /\ fifo = [h \in Handle |-> NoFIFO] /\ offset = [h \in Handle |-> 0]
  BY DEF FileServicesInit, FileInit, FIFOInit, KFSInit
<1>3. \A h \in Handle : /\ of[h] \in FileRec /\ of[h].state = "none" /\ of[h].ioCount = 0
                        /\ of[h].deleteOnCompletion = FALSE
  BY <1>1 DEF NoFile, FileRec, Kind
<1>4. FileTypeOK
  <2>1. of \in [Handle -> FileRec]
    BY <1>1, <1>3
  <2>2. ior \in [Request -> IORec] /\ thr \in [Thread -> ThreadRec]
    BY <1>2, NoIOTyped, IdleOK
  <2>3. exiting \subseteq User /\ ended \subseteq User \ exiting /\ panic \in Panic
    BY <1>2 DEF Panic
  <2>. QED BY <2>1, <2>2, <2>3, FileStates
<1>5. FIFOTypeOK /\ \A h \in Handle : fifo[h].pendingRead = <<>>
  BY SMTT(20), <1>2, FIFOFileAssumption DEF FIFOTypeOK, NoFIFO
<1>6. offset \in [Handle -> Nat]
  BY <1>2
<1>7. (\A r \in Request : ior[r].step = "none") /\ \A t \in Thread : thr[t] = Idle
  BY <1>2 DEF NoIO
<1>8. \A t \in Thread : thr[t].pc = "run"
  BY SMTT(20), <1>7 DEF Idle
<1>9. Threads /\ Apart
  BY <1>7, IdleOK DEF Threads, Apart
<1>10. Ended
  BY <1>2, <1>7, FileSets DEF Ended
<1>11. OneCloser
  BY <1>3, <1>7, <1>8 DEF OneCloser, Open, Closes, Opens
<1>12. Counts
  <2>1. \A h \in Handle : Counted(h) = {} /\ Calls(h) = {}
    BY <1>7, <1>8 DEF Counted, Calls
  <2>2. \A h \in Handle : Uses(h) = 0
    BY <2>1, UsesBounded, CountingFactsHold
  <2>. QED BY <1>3, <2>2, CountingFactsHold DEF Counts, CountOK
<1>13. NoneLeft
  BY <1>3 DEF NoneLeft
<1>14. Lists
  <2>1. \A h \in Handle : Len(fifo[h].pendingRead) = 0
    BY SMTT(20), <1>5
  <2>. QED BY SMTT(20), <1>8, <2>1 DEF Lists
<1>15. Paired
  BY <1>5 DEF Paired
<1>. QED BY <1>4, <1>5, <1>6, <1>9, <1>10, <1>11, <1>12, <1>13, <1>14, <1>15 DEF FilesInv, FilesTypeOK, FilesCore

LEMMA FilesNextInv ==
    ASSUME FilesInv, [FileServicesNext]_<<fileVars, fifo, offset>>
    PROVE  FilesInv'
<1>1. ASSUME NEW t \in User, FileLayer(t), UNCHANGED <<fifo, offset>>
      PROVE  FilesInv'
  <2>1. panic = "none"
    BY <1>1 DEF FileLayer, dispatchFileNameCommand, searchOpenFileList, createFileIO, acceptDeleteFileIO,
       cancelIO, cancelAllIORequests, undoCount, uncountCancelled, completeCount, completeIO,
       terminateCurrentTask, leaveOpenFileManager, closeAllOpenFileRequest, createUserThread, Runs, At, Exits
  <2>. QED BY <1>1, <2>1, FileLayerInv
<1>2. ASSUME NEW t \in User, FIFOService(t), UNCHANGED offset
      PROVE  FilesInv'
  <2>1. panic = "none"
    BY <1>2 DEF FIFOService, openFIFOFile, readFIFOFile, writeFIFOFile, getFIFOFileParam, processFIFO,
       closeFIFOFile, deleteFIFO, cancelReadFIFO, InFIFOService, InFIFO, At
  <2>. QED BY <1>2, <2>1, FIFOServiceInv
<1>3. ASSUME NEW t \in User, KernelFSService(t), UNCHANGED fifo
      PROVE  FilesInv'
  <2>1. panic = "none"
    BY <1>3 DEF KernelFSService, openKFS, fetchOffset, advanceOffset, getKFSParameter, refuseWriteKFS, closeKFS,
       InKFSService, InKFS, At
  <2>. QED BY <1>3, <2>1, KernelFSServiceInv
<1>4. CASE UNCHANGED <<fileVars, fifo, offset>>
  <2>1. UNCHANGED <<of, ior, thr, exiting, ended, panic, fifo, offset>>
    BY <1>4 DEF fileVars, exitVars
  <2>2. FilesTypeOK'
    BY <2>1 DEF FilesInv, FilesTypeOK, FileTypeOK, FIFOTypeOK
  <2>3. ASSUME panic' = "none"
        PROVE  FilesCore' /\ Lists' /\ Paired'
    <3>1. FilesCore /\ Lists /\ Paired
      BY <2>1, <2>3 DEF FilesInv
    <3>2. Threads' /\ Apart' /\ Ended'
      BY <2>1, <3>1 DEF FilesCore, Threads, Apart, Ended
    <3>3. OneCloser' /\ NoneLeft'
      BY <2>1, <3>1 DEF FilesCore, OneCloser, NoneLeft
    <3>4. Counts'
      BY <2>1, <3>1, SameCounts DEF FilesCore
    <3>5. Lists'
      BY SMTT(20), <2>1, <3>1 DEF Lists
    <3>6. Paired'
      BY <2>1, <3>1 DEF Paired, hasFIFOElement
    <3>. QED BY <3>2, <3>3, <3>4, <3>5, <3>6 DEF FilesCore
  <2>. QED BY <2>2, <2>3 DEF FilesInv
<1>. QED BY <1>1, <1>2, <1>3, <1>4 DEF FileServicesNext

LEMMA FilesInvariant == FileServicesSpec => []FilesInv
BY FilesInitInv, FilesNextInv, PTL DEF FileServicesSpec

\* addFileIOCount: the count of every OpenedFile is the number of calls and requests that use it,
\* for any number of threads, files and requests, as long as no service refused one of them.
THEOREM FilesAlwaysCounted == FileServicesSpec => []FileCountsRequests
<1>1. FilesInv => FileCountsRequests
  BY DEF FilesInv, FilesTypeOK, FilesCore, FileCountsRequests, Counts, CountOK, Uses
<1>. QED BY <1>1, FilesInvariant, PTL

\* closeAllOpenFileRequest: the last thread of a task gives up on no file, unless a service refused
\* a request for it: the threads before it have cancelled or awaited theirs.
THEOREM FilesClosedAtExit == FileServicesSpec => []ExitClosesFiles
<1>1. FilesInv => ExitClosesFiles
  BY DEF FilesInv, FilesCore, ExitClosesFiles, NoneLeft
<1>. QED BY <1>1, FilesInvariant, PTL

\* processFIFO: whatever threads read from and write to a FIFO, no read waits beside an element that
\* no thread is going to give to it.
THEOREM ReadsMeetElements == FileServicesSpec => []NoReadMissesElement
<1>1. FilesInv => NoReadMissesElement
  BY DEF FilesInv, FilesTypeOK, NoReadMissesElement, Paired, Processes
<1>. QED BY <1>1, FilesInvariant, PTL
==============================================================================
