----------------------------- MODULE FileProofs ------------------------------
(***************************************************************************)
(* The opened files and their requests, for any number of threads, files   *)
(* and requests: the invariant of file.c and of the FIFO and kernel files, *)
(* what a step of a thread has to show to keep it, and that the steps of   *)
(* file.c keep it.                                                         *)
(***************************************************************************)
EXTENDS FileServices, TLAPS

\* A leaf that cites no prover is first-order and goes to Zenon; arithmetic and sequences
\* go to SMT.
USE Zenon

FileRec == [state : {"none", "opening", "listed", "closing", "left"}, kind : Kind,
            deleteOnCompletion : BOOLEAN, ioCount : Nat, refused : BOOLEAN]
IORec == [step : RequestStep, op : Op, file : Handle \cup {NoHandle}, task : Thread \cup {NoHandle}]
ThreadRec == [pc : ThreadStep, file : Handle \cup {NoHandle}, op : Op, req : Request \cup {NoRequest},
              todo : Seq(Request), back : {"run", "loop", "free"}, position : Nat]

\* The steps of a request that some thread is carrying on, and those of one in a list of a FIFO.
Carried == {"service", "claimed", "counted", "cancelling", "cancelled"}
InAList == {"queued", "cancelling", "cancelled"}

\* A thread with the record x goes on with its own request, cancels it, or completes one.
Serves(x) ==
    \/ x.pc \in {"service", "position"}
    \/ x.op = "write" /\ (x.pc = "loop" \/ (x.pc \in {"count", "list"} /\ x.back = "loop"))
Cancels(x) == x.pc \in {"cancel", "uncount"}
Completes(x) == x.pc \in {"count", "list"}

OwnedBy(x) ==
    {r \in Request : ((Serves(x) \/ Cancels(x)) /\ r = x.req) \/ (Completes(x) /\ r = x.todo[1])}

\* What the record x of a thread says of the requests io.
ThreadOK(x, io) ==
    /\ x \in ThreadRec
    /\ IF x.pc = "run" THEN x = Idle ELSE x.file \in Handle
    /\ x.pc = "found" => x.op # "open"
    /\ x.pc \notin {"loop", "count", "list"} => x.back # "loop"
    /\ Serves(x) => x.req \in Request /\ io[x.req].step = "service" /\ io[x.req].file = x.file
    /\ Cancels(x) => /\ x.req \in Request /\ io[x.req].file = x.file
                     /\ io[x.req].step \in {"cancelling", "cancelled"}
    /\ Completes(x) => /\ Len(x.todo) = 1 /\ x.todo[1] \in Request /\ io[x.todo[1]].file = x.file
                       /\ io[x.todo[1]].step = IF x.pc = "count" THEN "claimed" ELSE "counted"

Threads == \A t \in Thread : ThreadOK(thr[t], ior)

Apart == \A t, u \in Thread : t # u => OwnedBy(thr[t]) \cap OwnedBy(thr[u]) = {}

\* A thread that ended has left nothing behind.
Ended ==
    /\ \A r \in Request : ior[r].step # "none" =>
          ior[r].file \in Handle /\ ior[r].task \in User \ ended
    /\ \A u \in ended \cup Kernel : thr[u] = Idle

\* The list of a FIFO holds reads of its file, each once, until their owner takes them out.
Lists ==
    /\ \A h \in Handle : \A i \in 1..Len(fifo[h].pendingRead) :
          /\ ior[fifo[h].pendingRead[i]].step \in InAList
          /\ ior[fifo[h].pendingRead[i]].file = h
          /\ \A j \in 1..Len(fifo[h].pendingRead) :
                fifo[h].pendingRead[i] = fifo[h].pendingRead[j] => i = j
    /\ \A t \in Thread : thr[t].pc = "uncount" =>
          \A i \in 1..Len(fifo[thr[t].file].pendingRead) :
             fifo[thr[t].file].pendingRead[i] # thr[t].req

Closes(x) == x.pc = "found" /\ x.op = "close"
Opens(x) == x.pc = "service" /\ x.op = "open"
Open(f) == f.state = "listed" /\ ~f.deleteOnCompletion

\* One thread opens a file, alone, and one closes it, with the request of the file.
OneCloser ==
    /\ \A h \in Handle : Open(of[h]) =>
          ior[h].step = "none" /\ \A t \in Thread : ~(Closes(thr[t]) /\ thr[t].file = h)
    /\ \A t \in Thread : Closes(thr[t]) =>
          /\ ior[thr[t].file].step = "none"
          /\ \A u \in Thread : Closes(thr[u]) /\ thr[u].file = thr[t].file => u = t
    /\ \A t \in Thread : Opens(thr[t]) =>
          /\ of[thr[t].file].state = "opening" /\ ior[thr[t].file].step = "none"
          /\ \A u \in Thread : thr[u].file = thr[t].file => u = t
          /\ \A r \in Request : ior[r].step = "queued" => ior[r].file # thr[t].file

CountOK(f, n) == ~f.refused => f.ioCount = n /\ (f.deleteOnCompletion => n = 1)
Uses(h) == Cardinality(Counted(h)) + Cardinality(Calls(h))

\* What the counting has to know of the sizes of sets of requests and of threads.  It speaks of
\* the constants alone and holds because they are finite (CountingFactsHold).
CountingFacts ==
    \A S \in (SUBSET Request) \cup (SUBSET Thread) :
        /\ Cardinality(S) \in Nat /\ (Cardinality(S) = 0 <=> S = {})
        /\ \A e \in Request \cup Thread :
              /\ Cardinality(S \ {e}) = Cardinality(S) - (IF e \in S THEN 1 ELSE 0)
              /\ Cardinality(S \cup {e}) = Cardinality(S) + (IF e \in S THEN 0 ELSE 1)
Counts == CountingFacts /\ \A h \in Handle : CountOK(of[h], Uses(h))

NoneLeft == \A h \in Handle : of[h].state = "left" => of[h].refused

Processes(x) == x.pc = "loop" \/ x.back = "loop"
Paired ==
    \A h \in Handle : hasFIFOElement(h) /\ fifo[h].pendingRead # <<>> =>
        \E t \in Thread : thr[t].file = h /\ Processes(thr[t])

FilesTypeOK == FileTypeOK /\ FIFOTypeOK /\ offset \in [Handle -> Nat]

FilesCore == Threads /\ Apart /\ Ended /\ OneCloser /\ Counts /\ NoneLeft

FilesInv == FilesTypeOK /\ (panic = "none" => FilesCore /\ Lists /\ Paired)

-----------------------------------------------------------------------------
\* Constants and types

LEMMA FileSets ==
    /\ Handle \subseteq Request /\ Pool \subseteq Request /\ Pool \cap Handle = {} /\ NoRequest \notin Request
    /\ NoHandle \notin Handle /\ User \subseteq Thread /\ Kernel \subseteq Thread /\ User \cap Kernel = {}
BY SMT, FileAssumption DEF Request, Pool, NoRequest, Thread

LEMMA FileStates ==
    FileTypeOK <=> /\ of \in [Handle -> FileRec] /\ ior \in [Request -> IORec] /\ thr \in [Thread -> ThreadRec]
                   /\ exiting \subseteq User /\ ended \subseteq User \ exiting /\ panic \in Panic
BY DEF FileTypeOK, FileRec, IORec, ThreadRec

LEMMA FileStatesNext ==
    FileTypeOK' <=> /\ of' \in [Handle -> FileRec] /\ ior' \in [Request -> IORec] /\ thr' \in [Thread -> ThreadRec]
                    /\ exiting' \subseteq User /\ ended' \subseteq User \ exiting' /\ panic' \in Panic
BY DEF FileTypeOK, FileRec, IORec, ThreadRec

LEMMA IdleOK == Idle \in ThreadRec /\ OwnedBy(Idle) = {} /\ \A io : ThreadOK(Idle, io)
<1>1. Idle \in ThreadRec
  BY SMT DEF Idle, ThreadRec, ThreadStep, Op
<1>. QED BY <1>1 DEF Idle, OwnedBy, ThreadOK, Serves, Cancels, Completes

LEMMA NoIOTyped == NoIO \in IORec
BY DEF NoIO, IORec, RequestStep, Op

\* One thread, one request and one file change.
LEMMA MoveTypes ==
    ASSUME FileTypeOK, NEW t \in Thread, NEW x \in ThreadRec, NEW r \in Request, NEW y \in IORec,
           NEW h \in Handle, NEW f \in FileRec, thr' = [thr EXCEPT ![t] = x],
           ior' = [ior EXCEPT ![r] = y], of' = [of EXCEPT ![h] = f],
           UNCHANGED exitVars, panic' \in Panic
    PROVE  FileTypeOK'
<1>1. thr' \in [Thread -> ThreadRec] /\ ior' \in [Request -> IORec] /\ of' \in [Handle -> FileRec]
  BY FileStates
<1>2. exiting' \subseteq User /\ ended' \subseteq User \ exiting'
  BY FileStates DEF exitVars
<1>. QED BY <1>1, <1>2, FileStatesNext

MoveThread(t, x, r, y) ==
    /\ ThreadOK(x, [ior EXCEPT ![r] = y])
    /\ \/ y = ior[r] /\ OwnedBy(x) \subseteq OwnedBy(thr[t])
       \/ /\ OwnedBy(x) \subseteq OwnedBy(thr[t]) \cup {r}
          /\ r \in OwnedBy(thr[t]) \/ ior[r].step \notin Carried

LEMMA OwnedCarried ==
    ASSUME NEW x, NEW io, ThreadOK(x, io), NEW r \in OwnedBy(x)
    PROVE  r \in Request /\ io[r].step \in Carried
BY DEF ThreadOK, OwnedBy, Serves, Cancels, Completes, Carried

LEMMA OthersOK ==
    ASSUME NEW x, NEW io \in [Request -> IORec], ThreadOK(x, io), NEW r \in Request, r \notin OwnedBy(x),
           NEW y
    PROVE  ThreadOK(x, [io EXCEPT ![r] = y])
<1>. DEFINE new == [io EXCEPT ![r] = y]
<1>1. \A q \in Request : q # r => new[q] = io[q]
  OBVIOUS
<1>. HIDE DEF new
<1>2. /\ Serves(x) \/ Cancels(x) => x.req \in Request /\ x.req # r
      /\ Completes(x) => x.todo[1] \in Request /\ x.todo[1] # r
  BY DEF OwnedBy, ThreadOK
<1>3. ThreadOK(x, new)
  BY <1>1, <1>2 DEF ThreadOK
<1>. QED BY <1>3 DEF new

LEMMA MoveThreads ==
    ASSUME FileTypeOK, Threads, Apart, NEW t \in Thread, NEW x, NEW r \in Request, NEW y,
           thr' = [thr EXCEPT ![t] = x], ior' = [ior EXCEPT ![r] = y], MoveThread(t, x, r, y)
    PROVE  Threads' /\ Apart'
<1>1. ior \in [Request -> IORec] /\ thr'[t] = x /\ \A u \in Thread : u # t => thr'[u] = thr[u]
  BY FileStates
<1>2. ASSUME NEW u \in Thread, u # t
      PROVE  ThreadOK(thr[u], ior') /\ OwnedBy(thr[u]) \cap OwnedBy(x) = {}
  <2>1. ThreadOK(thr[u], ior) /\ OwnedBy(thr[u]) \cap OwnedBy(thr[t]) = {}
    BY <1>2 DEF Apart, Threads
  <2>2. CASE y = ior[r] /\ OwnedBy(x) \subseteq OwnedBy(thr[t])
    <3>1. ior' = ior
      BY <1>1, <2>2
    <3>. QED BY <2>1, <2>2, <3>1
  <2>3. CASE /\ OwnedBy(x) \subseteq OwnedBy(thr[t]) \cup {r}
             /\ r \in OwnedBy(thr[t]) \/ ior[r].step \notin Carried
    <3>1. r \notin OwnedBy(thr[u])
      BY <2>1, <2>3, OwnedCarried
    <3>2. ThreadOK(thr[u], ior')
      BY <1>1, <2>1, <3>1, OthersOK
    <3>. QED BY <2>1, <2>3, <3>1, <3>2
  <2>. QED BY <2>2, <2>3 DEF MoveThread
<1>3. ThreadOK(x, ior')
  BY DEF MoveThread
<1>4. Threads'
  BY <1>1, <1>2, <1>3 DEF Threads
<1>5. Apart'
  <2>1. ASSUME NEW u \in Thread, NEW v \in Thread, u # v
        PROVE  OwnedBy(thr'[u]) \cap OwnedBy(thr'[v]) = {}
    <3>1. CASE u # t /\ v # t
      BY <1>1, <2>1, <3>1 DEF Apart
    <3>2. CASE u = t
      BY <1>1, <1>2, <2>1, <3>2
    <3>3. CASE v = t
      BY <1>1, <1>2, <2>1, <3>3
    <3>. QED BY <3>1, <3>2, <3>3
  <2>. QED BY <2>1 DEF Apart
<1>. QED BY <1>4, <1>5

LEMMA MoveEnded ==
    ASSUME FileTypeOK, Ended, NEW t \in User, t \notin ended, NEW x, NEW r \in Request, NEW y,
           thr' = [thr EXCEPT ![t] = x], ior' = [ior EXCEPT ![r] = y], UNCHANGED exitVars,
           y.step # "none" =>
              y.file \in Handle /\ (y.task = t \/ (ior[r].step # "none" /\ y.task = ior[r].task))
    PROVE  Ended'
<1>1. ended' = ended
  BY DEF exitVars
<1>2. \A u \in ended \cup Kernel : thr'[u] = Idle
  <2>1. \A u \in ended \cup Kernel : u # t /\ u \in Thread
    BY FileSets, FileStates
  <2>. QED BY <2>1, FileStates DEF Ended
<1>3. \A q \in Request : ior'[q] = IF q = r THEN y ELSE ior[q]
  BY FileStates
<1>4. \A q \in Request : ior'[q].step # "none" => ior'[q].file \in Handle /\ ior'[q].task \in User \ ended
  BY <1>3 DEF Ended
<1>. QED BY <1>1, <1>2, <1>4 DEF Ended

\* The lists of the FIFOs stay as they are, or are emptied.
ListsKept == \A g \in Handle : fifo'[g].pendingRead \in {<<>>, fifo[g].pendingRead}

LEMMA MoveListsInv ==
    ASSUME FileTypeOK, FIFOTypeOK, Lists, NEW t \in Thread, NEW x, NEW r \in Request, NEW y,
           thr' = [thr EXCEPT ![t] = x], ior' = [ior EXCEPT ![r] = y], ListsKept, Threads',
           x.pc # "uncount",
           \/ ior[r].step \notin InAList
           \/ y.step \in InAList /\ y.file = ior[r].file
           \/ thr[t].pc = "uncount" /\ r = thr[t].req /\ ior[r].file = thr[t].file
    PROVE  Lists'
<1>1. \A q \in Request : ior'[q] = IF q = r THEN y ELSE ior[q]
  BY FileStates
<1>2. thr'[t] = x /\ \A u \in Thread : u # t => thr'[u] = thr[u]
  BY FileStates
<1>3. Len(<<>>) = 0 /\ 1..0 = {}
  BY SMT
<1>4. ASSUME NEW h \in Handle, NEW i \in 1..Len(fifo'[h].pendingRead)
      PROVE  /\ ior'[fifo'[h].pendingRead[i]].step \in InAList
             /\ ior'[fifo'[h].pendingRead[i]].file = h
             /\ \A j \in 1..Len(fifo'[h].pendingRead) :
                   fifo'[h].pendingRead[i] = fifo'[h].pendingRead[j] => i = j
  <2>1. fifo'[h].pendingRead = fifo[h].pendingRead
    <3>1. fifo'[h].pendingRead # <<>>
      BY <1>3, <1>4
    <3>. QED BY <3>1 DEF ListsKept
  <2>. DEFINE l == fifo[h].pendingRead
  <2>2. l \in Seq(Request) /\ i \in 1..Len(l)
    BY <2>1, <1>4 DEF FIFOTypeOK
  <2>3. l[i] \in Request
    BY SMT, <2>2
  <2>4. ior[l[i]].step \in InAList /\ ior[l[i]].file = h /\ \A j \in 1..Len(l) : l[i] = l[j] => i = j
    BY <2>2 DEF Lists
  <2>5. thr[t].pc = "uncount" /\ ior[r].file = thr[t].file /\ r = thr[t].req => l[i] # r
    <3>. SUFFICES ASSUME thr[t].pc = "uncount", ior[r].file = thr[t].file, r = thr[t].req, l[i] = r PROVE FALSE
      OBVIOUS
    <3>1. thr[t].file = h
      BY <2>4
    <3>. QED BY SMT, <2>2, <3>1 DEF Lists
  <2>. HIDE DEF l
  <2>6. ior'[l[i]].step \in InAList /\ ior'[l[i]].file = h
    BY <1>1, <2>3, <2>4, <2>5
  <2>. QED BY <2>1, <2>4, <2>6 DEF l
<1>5. ASSUME NEW u \in Thread, thr'[u].pc = "uncount", NEW i \in 1..Len(fifo'[thr'[u].file].pendingRead)
      PROVE  fifo'[thr'[u].file].pendingRead[i] # thr'[u].req
  <2>1. u # t /\ thr'[u] = thr[u]
    BY <1>2, <1>5
  <2>2. thr[u].file \in Handle
    BY <1>5, <2>1 DEF Threads, ThreadOK
  <2>3. fifo'[thr[u].file].pendingRead = fifo[thr[u].file].pendingRead
    <3>1. fifo'[thr[u].file].pendingRead # <<>>
      BY <1>3, <1>5, <2>1
    <3>. QED BY <2>2, <3>1 DEF ListsKept
  <2>. QED BY SMT, <1>5, <2>1, <2>3 DEF Lists
<1>. QED BY <1>4, <1>5 DEF Lists

Busy(g) == fifo[g].elements > 0 /\ fifo[g].pendingRead # <<>>

\* A FIFO with both an element and a read was one before, unless the thread will see to it.
ReadsKept(x) == \A g \in Handle : Busy(g)' => Busy(g) \/ (x.file = g /\ Processes(x))

LEMMA MovePaired ==
    ASSUME FileTypeOK, Paired, NEW t \in Thread, NEW x, thr' = [thr EXCEPT ![t] = x], ReadsKept(x),
           \A g \in Handle : Processes(thr[t]) /\ thr[t].file = g => (Processes(x) /\ x.file = g) \/ ~Busy(g)'
    PROVE  Paired'
<1>1. thr'[t] = x /\ \A u \in Thread : u # t => thr'[u] = thr[u]
  BY FileStates
<1>. SUFFICES ASSUME NEW g \in Handle, Busy(g)'
             PROVE  \E u \in Thread : thr'[u].file = g /\ Processes(thr'[u])
  BY DEF Paired, Busy, hasFIFOElement
<1>2. CASE x.file = g /\ Processes(x)
  BY <1>1, <1>2
<1>6. CASE Busy(g)
 <2>3. PICK u \in Thread : thr[u].file = g /\ Processes(thr[u])
  BY <1>6 DEF Paired, Busy, hasFIFOElement
 <2>4. CASE u = t
  BY <1>1, <2>3, <2>4
 <2>5. CASE u # t
  BY <1>1, <2>3, <2>5
 <2>. QED BY <2>4, <2>5
<1>. QED BY <1>2, <1>6 DEF ReadsKept

LEMMA MoveOneCloser ==
    ASSUME FileTypeOK, Threads, OneCloser, NEW t \in Thread, NEW x, NEW r \in Request, NEW y,
           NEW h \in Handle, NEW f, thr' = [thr EXCEPT ![t] = x], ior' = [ior EXCEPT ![r] = y],
           of' = [of EXCEPT ![h] = f],
           Open(f) => Open(of[h]) \/ (Opens(thr[t]) /\ thr[t].file = h),
           y.step # "none" /\ ior[r].step = "none" => r \in Pool \/ (Closes(thr[t]) /\ r = thr[t].file),
           Closes(x) => x.file = h /\ Open(of[h]) /\ ~Open(f) /\ y = ior[r],
           Opens(x) => /\ x.file = h /\ f.state = "opening" /\ ~Referenced(h)
                       /\ r \in Pool /\ y.step = "service",
           h = thr[t].file \/ of[h].state # "opening" \/ f = of[h],
           \/ x.file = thr[t].file \/ x.file = NoHandle
           \/ x.file \in Handle /\ of[x.file].state # "opening"
           \/ \E q \in Request : ior[q].step = "queued" /\ ior[q].file = x.file,
           y.step = "queued" => (ior[r].step = "queued" /\ y.file = ior[r].file) \/ y.file = thr[t].file
    PROVE  OneCloser'
<1>1. \A q \in Request : ior'[q] = IF q = r THEN y ELSE ior[q]
  BY FileStates
<1>2. thr'[t] = x /\ \A u \in Thread : u # t => thr'[u] = thr[u]
  BY FileStates
<1>3. \A g \in Handle : of'[g] = IF g = h THEN f ELSE of[g]
  BY FileStates
<1>4. \A g \in Handle : g \in Request /\ g \notin Pool
  BY FileSets
<1>5. \A u \in Thread : Opens(thr[u]) \/ Closes(thr[u]) => thr[u].file \in Handle /\ thr[u].file # NoHandle
  BY FileSets DEF Threads, ThreadOK, Opens, Closes
<1>6. \A u \in Thread : ~(Opens(thr[u]) /\ Closes(thr[u]))
  BY DEF Opens, Closes
<1>7. \A g \in Handle : Open(of[g]) => of[g].state # "opening"
  BY DEF Open
<1>8. ASSUME NEW g \in Handle, ior[g].step = "none", ~(Closes(thr[t]) /\ g = thr[t].file)
      PROVE  ior'[g].step = "none"
  BY <1>1, <1>4, <1>8
<1>9. ASSUME NEW g \in Handle, Open(of'[g])
      PROVE  ior'[g].step = "none" /\ \A u \in Thread : ~(Closes(thr'[u]) /\ thr'[u].file = g)
  <2>1. CASE Open(of[g])
    <3>1. ior[g].step = "none" /\ \A u \in Thread : ~(Closes(thr[u]) /\ thr[u].file = g)
      BY <2>1 DEF OneCloser
    <3>2. ior'[g].step = "none"
      BY <1>8, <3>1
    <3>3. ~(Closes(x) /\ x.file = g)
      BY <1>3, <1>9
    <3>. QED BY <1>2, <3>1, <3>2, <3>3
  <2>2. CASE ~Open(of[g])
    <3>1. g = h /\ Opens(thr[t]) /\ thr[t].file = h
      BY <1>3, <1>9, <2>2
    <3>2. ior[h].step = "none" /\ of[h].state = "opening" /\ \A u \in Thread : thr[u].file = h => u = t
      BY <3>1 DEF OneCloser
    <3>3. ior'[h].step = "none"
      BY <1>6, <1>8, <3>1, <3>2
    <3>4. ~Closes(x)
      BY <1>7, <3>2
    <3>. QED BY <1>2, <3>1, <3>2, <3>3, <3>4
  <2>. QED BY <2>1, <2>2
<1>10. ASSUME NEW u \in Thread, Closes(thr'[u])
       PROVE  /\ ior'[thr'[u].file].step = "none"
              /\ \A v \in Thread : Closes(thr'[v]) /\ thr'[v].file = thr'[u].file => v = u
  <2>1. CASE u = t
    <3>1. x.file = h /\ Open(of[h]) /\ y = ior[r] /\ Closes(x)
      BY <1>2, <1>10, <2>1
    <3>2. ior[h].step = "none" /\ \A v \in Thread : ~(Closes(thr[v]) /\ thr[v].file = h)
      BY <3>1 DEF OneCloser
    <3>3. ior'[h].step = "none"
      BY <1>1, <1>4, <3>1, <3>2
    <3>. QED BY <1>2, <2>1, <3>1, <3>2, <3>3
  <2>2. CASE u # t
    <3>1. thr'[u] = thr[u] /\ Closes(thr[u])
      BY <1>2, <1>10, <2>2
    <3>2. /\ ior[thr[u].file].step = "none" /\ thr[u].file \in Handle
          /\ \A v \in Thread : Closes(thr[v]) /\ thr[v].file = thr[u].file => v = u
      BY <1>5, <3>1 DEF OneCloser
    <3>3. ior'[thr[u].file].step = "none"
      BY <1>8, <2>2, <3>2
    <3>4. ~(Closes(x) /\ x.file = thr[u].file)
      BY <3>1 DEF OneCloser
    <3>. QED BY <1>2, <3>1, <3>2, <3>3, <3>4
  <2>. QED BY <2>1, <2>2
<1>11. ASSUME NEW u \in Thread, Opens(thr'[u])
       PROVE  /\ of'[thr'[u].file].state = "opening" /\ ior'[thr'[u].file].step = "none"
              /\ \A v \in Thread : thr'[v].file = thr'[u].file => v = u
              /\ \A q \in Request : ior'[q].step = "queued" => ior'[q].file # thr'[u].file
  <2>1. CASE u = t
    <3>1. x.file = h /\ f.state = "opening" /\ ~Referenced(h) /\ r \in Pool /\ y.step = "service"
      BY <1>2, <1>11, <2>1
    <3>2. /\ ior[h].step = "none" /\ (\A v \in Thread : thr[v].file # h)
          /\ \A q \in Request : ior[q].step = "queued" => ior[q].file # h
      BY <3>1 DEF Referenced, Counted
    <3>3. ior'[h].step = "none" /\ of'[h].state = "opening"
      BY SMT, <1>1, <1>3, <1>4, <3>1, <3>2
    <3>4. \A q \in Request : ior'[q].step = "queued" => ior'[q].file # h
      BY SMT, <1>1, <3>1, <3>2
    <3>5. \A v \in Thread : thr'[v].file = h => v = t
      BY <1>2, <3>2
    <3>6. thr'[u].file = h
      BY <1>2, <2>1, <3>1
    <3>. QED BY <2>1, <3>3, <3>4, <3>5, <3>6
  <2>2. CASE u # t
    <3>. DEFINE g == thr[u].file
    <3>1. thr'[u] = thr[u] /\ Opens(thr[u])
      BY <1>2, <1>11, <2>2
    <3>2. /\ g \in Handle /\ g # NoHandle /\ of[g].state = "opening" /\ ior[g].step = "none"
          /\ \A v \in Thread : thr[v].file = g => v = u
          /\ \A q \in Request : ior[q].step = "queued" => ior[q].file # g
      BY <1>5, <3>1 DEF OneCloser
    <3>. HIDE DEF g
    <3>3. thr[t].file # g
      BY <2>2, <3>2
    <3>4. of'[g].state = "opening"
      BY <1>3, <3>2, <3>3
    <3>5. ior'[g].step = "none"
      BY <1>8, <3>2, <3>3
    <3>6. x.file # g
      BY <3>2, <3>3
    <3>7. \A q \in Request : ior'[q].step = "queued" => ior'[q].file # g
      BY SMT, <1>1, <3>2, <3>3
    <3>8. \A v \in Thread : thr'[v].file = g => v = u
      BY <1>2, <3>2, <3>6
    <3>9. thr'[u].file = g
      BY <3>1 DEF g
    <3>. QED BY <3>4, <3>5, <3>7, <3>8, <3>9
  <2>. QED BY <2>1, <2>2
<1>. QED BY <1>9, <1>10, <1>11 DEF OneCloser

-----------------------------------------------------------------------------
\* Counts

One(b) == IF b THEN 1 ELSE 0
CountsFor(y, h) == y.file = h /\ y.step \notin {"none", "counted", "completed"}
CallsOn(x, h) == x.file = h /\ x.pc \in {"found", "undo"}

LEMMA MemberChange ==
    ASSUME CountingFacts, NEW S \in (SUBSET Request) \cup (SUBSET Thread), NEW e \in Request \cup Thread,
           NEW b \in BOOLEAN, NEW T,
           T = (S \ {e}) \cup (IF b THEN {e} ELSE {})
    PROVE  /\ Cardinality(S) \in Nat /\ Cardinality(T) = Cardinality(S) - One(e \in S) + One(b)
           /\ Cardinality(S) >= One(e \in S)
<1>1. /\ Cardinality(S) \in Nat /\ (Cardinality(S) = 0 <=> S = {})
      /\ Cardinality(S \ {e}) = Cardinality(S) - (IF e \in S THEN 1 ELSE 0)
      /\ Cardinality(S \cup {e}) = Cardinality(S) + (IF e \in S THEN 0 ELSE 1)
  BY DEF CountingFacts
<1>2. e \in S => Cardinality(S) # 0
  BY <1>1
<1>3. T = IF b THEN S \cup {e} ELSE S \ {e}
  OBVIOUS
<1>4. Cardinality(T) = IF b THEN Cardinality(S \cup {e}) ELSE Cardinality(S \ {e})
  BY <1>3
<1>. QED BY SMT, <1>1, <1>2, <1>4 DEF One

LEMMA UsesChange ==
    ASSUME FileTypeOK, CountingFacts, NEW t \in Thread, NEW x, NEW r \in Request, NEW y, NEW h \in Handle,
           thr' = [thr EXCEPT ![t] = x], ior' = [ior EXCEPT ![r] = y]
    PROVE  /\ Uses(h) \in Nat
           /\ Uses(h) >= One(CountsFor(ior[r], h)) + One(CallsOn(thr[t], h))
           /\ Uses(h)' = Uses(h) - One(CountsFor(ior[r], h)) + One(CountsFor(y, h))
                                 - One(CallsOn(thr[t], h)) + One(CallsOn(x, h))
<1>1. Counted(h) \subseteq Request /\ Calls(h) \subseteq Thread
  BY DEF Counted, Calls
<1>2. Counted(h) \in (SUBSET Request) \cup (SUBSET Thread) /\ Calls(h) \in (SUBSET Request) \cup (SUBSET Thread)
  BY <1>1
<1>3. Counted(h)' = (Counted(h) \ {r}) \cup (IF CountsFor(y, h) THEN {r} ELSE {})
  <2>1. \A q \in Request : ior'[q] = IF q = r THEN y ELSE ior[q]
    BY FileStates
  <2>. QED BY <2>1 DEF Counted, CountsFor
<1>4. Calls(h)' = (Calls(h) \ {t}) \cup (IF CallsOn(x, h) THEN {t} ELSE {})
  <2>1. \A u \in Thread : thr'[u] = IF u = t THEN x ELSE thr[u]
    BY FileStates
  <2>. QED BY <2>1 DEF Calls, CallsOn
<1>5. (r \in Counted(h) <=> CountsFor(ior[r], h)) /\ (t \in Calls(h) <=> CallsOn(thr[t], h))
  BY DEF Counted, CountsFor, Calls, CallsOn
<1>6. CountsFor(y, h) \in BOOLEAN /\ CallsOn(x, h) \in BOOLEAN
  BY DEF CountsFor, CallsOn
<1>7. /\ Cardinality(Counted(h)) \in Nat /\ Cardinality(Counted(h)) >= One(r \in Counted(h))
      /\ Cardinality(Counted(h)') = Cardinality(Counted(h)) - One(r \in Counted(h)) + One(CountsFor(y, h))
  BY <1>2, <1>3, <1>6, MemberChange
<1>8. /\ Cardinality(Calls(h)) \in Nat /\ Cardinality(Calls(h)) >= One(t \in Calls(h))
      /\ Cardinality(Calls(h)') = Cardinality(Calls(h)) - One(t \in Calls(h)) + One(CallsOn(x, h))
  BY <1>2, <1>4, <1>6, MemberChange
<1>9. /\ One(r \in Counted(h)) = One(CountsFor(ior[r], h)) /\ One(t \in Calls(h)) = One(CallsOn(thr[t], h))
      /\ One(CountsFor(ior[r], h)) \in Nat /\ One(CallsOn(thr[t], h)) \in Nat
      /\ One(CountsFor(y, h)) \in Nat /\ One(CallsOn(x, h)) \in Nat
  BY <1>5 DEF One
<1>10. Uses(h) = Cardinality(Counted(h)) + Cardinality(Calls(h))
       /\ Uses(h)' = Cardinality(Counted(h)') + Cardinality(Calls(h)')
  BY DEF Uses
<1>. QED BY SMT, <1>7, <1>8, <1>9, <1>10

\* The uses of the file h change by d, and those of the others do not.
\* The record f of the file h counts d more uses than before, and the step makes just those.
MoveUses(t, x, r, y, h, f, d) ==
    /\ d \in {-1, 0, 1}
    /\ \A g \in Handle : One(CountsFor(y, g)) + One(CallsOn(x, g))
                         = One(CountsFor(ior[r], g)) + One(CallsOn(thr[t], g)) + IF g = h THEN d ELSE 0
    /\ CountOK(f, Uses(h) + d)

LEMMA MoveCounts ==
    ASSUME FileTypeOK, Counts, NEW t \in Thread, NEW x, NEW r \in Request, NEW y, NEW h \in Handle, NEW f, NEW d,
           thr' = [thr EXCEPT ![t] = x], ior' = [ior EXCEPT ![r] = y], of' = [of EXCEPT ![h] = f],
           MoveUses(t, x, r, y, h, f, d)
    PROVE  Counts'
<1>0. d \in {-1, 0, 1} /\ CountOK(f, Uses(h) + d)
  BY DEF MoveUses
<1>1. \A g \in Handle : of'[g] = IF g = h THEN f ELSE of[g]
  BY FileStates
<1>2. ASSUME NEW g \in Handle
      PROVE  Uses(g)' = Uses(g) + IF g = h THEN d ELSE 0
  <2>1. /\ Uses(g) \in Nat
        /\ Uses(g)' = Uses(g) - One(CountsFor(ior[r], g)) + One(CountsFor(y, g))
                              - One(CallsOn(thr[t], g)) + One(CallsOn(x, g))
    BY UsesChange DEF Counts
  <2>2. One(CountsFor(y, g)) \in Nat /\ One(CallsOn(x, g)) \in Nat
        /\ One(CountsFor(ior[r], g)) \in Nat /\ One(CallsOn(thr[t], g)) \in Nat
    BY DEF One
  <2>3. One(CountsFor(y, g)) + One(CallsOn(x, g))
        = One(CountsFor(ior[r], g)) + One(CallsOn(thr[t], g)) + IF g = h THEN d ELSE 0
    BY DEF MoveUses
  <2>. QED BY SMT, <1>0, <2>1, <2>2, <2>3
<1>3. \A g \in Handle : Uses(g) \in Nat
  BY UsesChange DEF Counts
<1>4. ASSUME NEW g \in Handle
      PROVE  CountOK(of'[g], Uses(g)')
  <2>1. CASE g = h
    BY <1>0, <1>1, <1>2, <2>1
  <2>2. CASE g # h
    <3>1. of'[g] = of[g] /\ Uses(g)' = Uses(g)
      BY SMT, <1>1, <1>2, <1>3, <2>2
    <3>2. CountOK(of[g], Uses(g))
      BY DEF Counts
    <3>. QED BY <3>1, <3>2
  <2>. QED BY <2>1, <2>2
<1>. QED BY <1>4 DEF Counts

LEMMA SameCounts ==
    ASSUME Counts, UNCHANGED <<of, ior, thr>>
    PROVE  Counts'
<1>1. \A h \in Handle : Counted(h)' = Counted(h) /\ Calls(h)' = Calls(h)
  BY DEF Counted, Calls
<1>2. \A h \in Handle : Uses(h)' = Uses(h)
  BY <1>1 DEF Uses
<1>. QED BY <1>2 DEF Counts

\* addFileIOCount(of, -1) takes one use off.
LEMMA UncountedOK ==
    ASSUME NEW f \in FileRec, NEW n \in Nat, n >= 1, CountOK(f, n), UncountPanic(f) = "none"
    PROVE  /\ Uncounted(f) \in FileRec /\ CountOK(Uncounted(f), n - 1)
           /\ Open(Uncounted(f)) => Open(f)
           /\ Uncounted(f).state = "left" => f.state = "left" /\ Uncounted(f).refused = f.refused
<1>1. f.ioCount \in Nat \ {0} /\ f.deleteOnCompletion \in BOOLEAN /\ f.refused \in BOOLEAN /\ f.kind \in Kind
  BY DEF FileRec, UncountPanic
<1>2. CASE f.deleteOnCompletion
  <2>1. Uncounted(f) = NoFile(f.kind, f.refused) /\ f.ioCount = 1
    BY <1>2 DEF Uncounted, UncountPanic, Accepts
  <2>. DEFINE g == NoFile(f.kind, f.refused)
  <2>2. /\ g \in FileRec /\ g.ioCount = 0 /\ g.refused = f.refused /\ g.state = "none"
        /\ g.deleteOnCompletion = FALSE
    BY <1>1 DEF NoFile, FileRec
  <2>. HIDE DEF g
  <2>3. ~f.refused => n - 1 = 0
    BY SMT, <1>2 DEF CountOK
  <2>. QED BY <2>1, <2>2, <2>3 DEF CountOK, Open, g
<1>3. CASE ~f.deleteOnCompletion
  <2>. DEFINE g == [f EXCEPT !.ioCount = @ - 1]
  <2>1. Uncounted(f) = g
    BY <1>3 DEF Uncounted
  <2>2. g \in FileRec /\ g.ioCount = f.ioCount - 1 /\ g.refused = f.refused /\ g.state = f.state
        /\ g.deleteOnCompletion = f.deleteOnCompletion
    BY SMT, <1>1 DEF FileRec
  <2>. HIDE DEF g
  <2>. QED BY <1>1, <1>3, <2>1, <2>2 DEF CountOK, Open
<1>. QED BY <1>1, <1>2, <1>3

-----------------------------------------------------------------------------
\* The step of a thread t with the request r on the file h: what they are afterwards, and what
\* has to be shown of it

Move(t, x, r, y, h, f) ==
    /\ t \in User /\ t \notin ended /\ r \in Request /\ h \in Handle
    /\ x \in ThreadRec /\ y \in IORec /\ f \in FileRec
    /\ thr' = [thr EXCEPT ![t] = x] /\ ior' = [ior EXCEPT ![r] = y] /\ of' = [of EXCEPT ![h] = f]
    /\ UNCHANGED exitVars

MoveRequest(t, r, y) ==
    y.step # "none" =>
        y.file \in Handle /\ (y.task = t \/ (ior[r].step # "none" /\ y.task = ior[r].task))

MoveFile(t, x, r, y, h, f) ==
    /\ Open(f) => Open(of[h]) \/ (Opens(thr[t]) /\ thr[t].file = h)
    /\ f.state = "left" => f.refused
    /\ y.step # "none" /\ ior[r].step = "none" => r \in Pool \/ (Closes(thr[t]) /\ r = thr[t].file)
    /\ Closes(x) => x.file = h /\ Open(of[h]) /\ ~Open(f) /\ y = ior[r]
    /\ Opens(x) => x.file = h /\ f.state = "opening" /\ ~Referenced(h) /\ r \in Pool /\ y.step = "service"
    /\ h = thr[t].file \/ of[h].state # "opening" \/ f = of[h]
    /\ \/ x.file = thr[t].file \/ x.file = NoHandle
       \/ x.file \in Handle /\ of[x.file].state # "opening"
       \/ \E q \in Request : ior[q].step = "queued" /\ ior[q].file = x.file
    /\ y.step = "queued" => (ior[r].step = "queued" /\ y.file = ior[r].file) \/ y.file = thr[t].file

MoveLists(t, x, r, y) ==
    /\ ListsKept
    /\ x.pc # "uncount"
    /\ \/ ior[r].step \notin InAList
       \/ y.step \in InAList /\ y.file = ior[r].file
       \/ thr[t].pc = "uncount" /\ r = thr[t].req /\ ior[r].file = thr[t].file

MoveReads(t, x) ==
    /\ FIFOTypeOK' /\ offset' \in [Handle -> Nat] /\ ReadsKept(x)
    /\ \A g \in Handle : Processes(thr[t]) /\ thr[t].file = g => (Processes(x) /\ x.file = g) \/ ~Busy(g)'

LEMMA MoveCore ==
    ASSUME FileTypeOK, FilesCore, NEW t, NEW x, NEW r, NEW y, NEW h, NEW f, NEW d, panic' \in Panic,
           Move(t, x, r, y, h, f), MoveThread(t, x, r, y), MoveRequest(t, r, y),
           MoveFile(t, x, r, y, h, f), MoveUses(t, x, r, y, h, f, d)
    PROVE  FileTypeOK' /\ FilesCore'
<1>1. /\ t \in User /\ t \in Thread /\ t \notin ended /\ r \in Request /\ h \in Handle
      /\ x \in ThreadRec /\ y \in IORec /\ f \in FileRec /\ UNCHANGED exitVars
      /\ thr' = [thr EXCEPT ![t] = x] /\ ior' = [ior EXCEPT ![r] = y] /\ of' = [of EXCEPT ![h] = f]
  BY FileSets DEF Move
<1>2. FileTypeOK'
  BY <1>1, MoveTypes
<1>3. Threads' /\ Apart'
  BY <1>1, MoveThreads DEF FilesCore
<1>4. Ended'
  BY <1>1, MoveEnded DEF MoveRequest, FilesCore
<1>5. OneCloser'
  BY <1>1, MoveOneCloser DEF MoveFile, FilesCore
<1>6. Counts'
  BY <1>1, MoveCounts DEF FilesCore
<1>7. NoneLeft'
  <2>1. \A g \in Handle : of'[g] = IF g = h THEN f ELSE of[g]
    BY <1>1, FileStates
  <2>. QED BY <2>1 DEF NoneLeft, FilesCore, MoveFile
<1>. QED BY <1>2, <1>3, <1>4, <1>5, <1>6, <1>7 DEF FilesCore

LEMMA MoveInv ==
    ASSUME FilesInv, panic = "none", NEW t, NEW x, NEW r, NEW y, NEW h, NEW f, NEW d, panic' \in Panic,
           Move(t, x, r, y, h, f), MoveThread(t, x, r, y), MoveRequest(t, r, y),
           MoveFile(t, x, r, y, h, f), MoveUses(t, x, r, y, h, f, d),
           MoveLists(t, x, r, y) \/ Lists', MoveReads(t, x)
    PROVE  FilesInv'
<1>1. FileTypeOK /\ FIFOTypeOK /\ FilesCore /\ Lists /\ Paired
  BY DEF FilesInv, FilesTypeOK
<1>2. FileTypeOK' /\ FilesCore'
  BY <1>1, MoveCore
<1>3. /\ t \in Thread /\ r \in Request /\ thr' = [thr EXCEPT ![t] = x] /\ ior' = [ior EXCEPT ![r] = y]
      /\ Threads'
  BY <1>2, FileSets DEF Move, FilesCore
<1>4. Lists'
  BY <1>1, <1>3, MoveListsInv DEF MoveLists
<1>5. Paired'
  BY <1>1, <1>3, MovePaired DEF MoveReads
<1>. QED BY <1>2, <1>4, <1>5 DEF FilesInv, FilesTypeOK, MoveReads

\* After a failed assertion only the types matter.
LEMMA PanicInv ==
    ASSUME FilesInv, NEW t, NEW x, NEW r, NEW y, NEW h, NEW f, Move(t, x, r, y, h, f),
           panic' \in Panic \ {"none"}, FIFOTypeOK', offset' \in [Handle -> Nat]
    PROVE  FilesInv'
<1>1. /\ t \in Thread /\ r \in Request /\ h \in Handle /\ UNCHANGED exitVars
      /\ x \in ThreadRec /\ y \in IORec /\ f \in FileRec
      /\ thr' = [thr EXCEPT ![t] = x] /\ ior' = [ior EXCEPT ![r] = y] /\ of' = [of EXCEPT ![h] = f]
  BY FileSets DEF Move
<1>2. FileTypeOK'
  BY <1>1, MoveTypes DEF FilesInv, FilesTypeOK
<1>. QED BY <1>2 DEF FilesInv, FilesTypeOK

\* The FIFOs and the offsets stay as they are.
LEMMA SameFIFO ==
    ASSUME FilesInv, UNCHANGED <<fifo, offset>>, NEW x
    PROVE  ListsKept /\ ReadsKept(x) /\ FIFOTypeOK' /\ offset' \in [Handle -> Nat] /\ \A g : Busy(g)' = Busy(g)
BY DEF FilesInv, FilesTypeOK, FIFOTypeOK, ListsKept, ReadsKept, Busy

LEMMA UsesBounded ==
    ASSUME CountingFacts, NEW h \in Handle
    PROVE  /\ Uses(h) \in Nat
           /\ (\E r \in Request : CountsFor(ior[r], h)) \/ (\E t \in Thread : CallsOn(thr[t], h)) => Uses(h) >= 1
           /\ Counted(h) = {} /\ Calls(h) = {} => Uses(h) = 0
<1>0. Counted(h) \subseteq Request /\ Calls(h) \subseteq Thread
  BY DEF Counted, Calls
<1>1. Counted(h) \in (SUBSET Request) \cup (SUBSET Thread) /\ Calls(h) \in (SUBSET Request) \cup (SUBSET Thread)
  BY <1>0
<1>2. /\ Cardinality(Counted(h)) \in Nat /\ Cardinality(Calls(h)) \in Nat
      /\ Cardinality(Counted(h)) = 0 <=> Counted(h) = {}
      /\ Cardinality(Calls(h)) = 0 <=> Calls(h) = {}
  BY <1>1 DEF CountingFacts
<1>3. (\E r \in Request : CountsFor(ior[r], h)) => Counted(h) # {}
  BY DEF Counted, CountsFor
<1>4. (\E t \in Thread : CallsOn(thr[t], h)) => Calls(h) # {}
  BY DEF Calls, CallsOn
<1>5. (\E r \in Request : CountsFor(ior[r], h)) \/ (\E t \in Thread : CallsOn(thr[t], h)) =>
         Cardinality(Counted(h)) # 0 \/ Cardinality(Calls(h)) # 0
  BY <1>2, <1>3, <1>4
<1>6. Counted(h) = {} /\ Calls(h) = {} => Cardinality(Counted(h)) = 0 /\ Cardinality(Calls(h)) = 0
  BY <1>2
<1>7. Uses(h) \in Nat /\ (Cardinality(Counted(h)) # 0 \/ Cardinality(Calls(h)) # 0 => Uses(h) >= 1)
      /\ (Cardinality(Counted(h)) = 0 /\ Cardinality(Calls(h)) = 0 => Uses(h) = 0)
  BY SMT, <1>2 DEF Uses
<1>. QED BY <1>5, <1>6, <1>7

LEMMA UsesBounds ==
    ASSUME FilesInv, panic = "none", NEW h \in Handle
    PROVE  /\ Uses(h) \in Nat
           /\ (\E r \in Request : CountsFor(ior[r], h)) \/ (\E t \in Thread : CallsOn(thr[t], h)) => Uses(h) >= 1
           /\ Counted(h) = {} /\ Calls(h) = {} => Uses(h) = 0
<1>1. CountingFacts
  BY DEF FilesInv, FilesCore, Counts
<1>. QED BY <1>1, UsesBounded

\* The facts every action starts from.
LEMMA Starts ==
    ASSUME FilesInv, panic = "none", NEW t \in User
    PROVE  /\ thr \in [Thread -> ThreadRec] /\ ior \in [Request -> IORec] /\ of \in [Handle -> FileRec]
           /\ t \in Thread /\ thr[t] \in ThreadRec /\ ThreadOK(thr[t], ior) /\ panic \in Panic
           /\ ended \subseteq User \ exiting
           /\ thr[t].pc # "run" => thr[t].file \in Handle /\ t \notin ended
           /\ thr[t].pc = "run" => thr[t] = Idle
           /\ \A h \in Handle : Uses(h) \in Nat /\ CountOK(of[h], Uses(h))
           /\ \A r \in Request : ior[r] \in IORec /\ (ior[r].step # "none" => ior[r].file \in Handle)
           /\ 1 \in Pool /\ 1 \in Request /\ Handle \subseteq Request /\ Pool \subseteq Request
<1>1. FileTypeOK /\ FilesCore
  BY DEF FilesInv, FilesTypeOK
<1>2. /\ thr \in [Thread -> ThreadRec] /\ ior \in [Request -> IORec] /\ of \in [Handle -> FileRec]
      /\ t \in Thread /\ panic \in Panic /\ ended \subseteq User \ exiting
  BY <1>1, FileStates, FileSets
<1>3. ThreadOK(thr[t], ior)
  BY <1>1, <1>2 DEF FilesCore, Threads
<1>4. t \in ended => thr[t].pc = "run"
  BY SMT, <1>1 DEF FilesCore, Ended, Idle
<1>5. 1 \in Pool /\ Handle \subseteq Request /\ Pool \subseteq Request
  BY SMT, FileAssumption, FileSets DEF Pool
<1>6. \A h \in Handle : Uses(h) \in Nat
  BY UsesBounds
<1>7. \A h \in Handle : CountOK(of[h], Uses(h))
  BY <1>1 DEF FilesCore, Counts
<1>8. \A r \in Request : ior[r].step # "none" => ior[r].file \in Handle
  BY <1>1 DEF FilesCore, Ended
<1>9. (thr[t].pc # "run" => thr[t].file \in Handle /\ t \notin ended) /\ (thr[t].pc = "run" => thr[t] = Idle)
  BY <1>3, <1>4 DEF ThreadOK
<1>. QED BY <1>2, <1>3, <1>5, <1>6, <1>7, <1>8, <1>9

-----------------------------------------------------------------------------
\* file.c

LEMMA dispatchInv ==
    ASSUME FilesInv, panic = "none", NEW t \in User, NEW h \in Handle, NEW r \in Pool,
           dispatchFileNameCommand(t, h, r), UNCHANGED <<fifo, offset>>
    PROVE  FilesInv'
<1>. DEFINE x == [thr[t] EXCEPT !.pc = "service", !.file = h, !.op = "open", !.req = r]
            y == [step |-> "service", op |-> "open", file |-> h, task |-> t]
            f == initOpenedFile(of[h])
<1>1. /\ thr[t] = Idle /\ ior[r].step = "none" /\ ~Referenced(h) /\ of[h].state = "none" /\ r \in Request
      /\ t \in Thread /\ t \notin ended /\ thr[t] \in ThreadRec /\ of[h] \in FileRec
  BY Starts DEF dispatchFileNameCommand, Runs, At, Fresh
<1>2. /\ x \in ThreadRec /\ x.pc = "service" /\ x.file = h /\ x.op = "open" /\ x.req = r /\ x.back = "run"
  <2>1. "service" \in ThreadStep /\ "open" \in Op
    BY DEF ThreadStep, Op
  <2>2. thr[t].back = "run"
    BY SMT, <1>1 DEF Idle
  <2>. QED BY <1>1, <2>1, <2>2 DEF ThreadRec
<1>3. y \in IORec /\ y.step = "service" /\ y.file = h /\ y.task = t
  BY <1>1 DEF IORec, RequestStep, Op
<1>4. f \in FileRec /\ f.state = "opening" /\ f.deleteOnCompletion = TRUE /\ f.ioCount = 1
  BY <1>1 DEF initOpenedFile, FileRec
<1>5. /\ thr' = [thr EXCEPT ![t] = x] /\ ior' = [ior EXCEPT ![r] = y] /\ of' = [of EXCEPT ![h] = f]
      /\ UNCHANGED exitVars /\ panic' \in Panic
  BY DEF dispatchFileNameCommand, createOpenFileRequests, Runs, At, Panic
<1>. HIDE DEF x, y, f
<1>6. Move(t, x, r, y, h, f)
  BY <1>1, <1>2, <1>3, <1>4, <1>5 DEF Move
<1>7. MoveThread(t, x, r, y)
  <2>1. [ior EXCEPT ![r] = y][r] = y
    BY <1>1, Starts
  <2>2. ThreadOK(x, [ior EXCEPT ![r] = y])
    BY <1>1, <1>2, <1>3, <2>1 DEF ThreadOK, Serves, Cancels, Completes
  <2>3. OwnedBy(x) \subseteq {r}
    BY <1>2 DEF OwnedBy, Completes
  <2>. QED BY <1>1, <2>2, <2>3 DEF MoveThread, Carried
<1>8. MoveRequest(t, r, y)
  BY <1>3 DEF MoveRequest
<1>9. MoveFile(t, x, r, y, h, f)
  BY <1>1, <1>2, <1>3, <1>4 DEF MoveFile, Open, Closes
<1>10. MoveUses(t, x, r, y, h, f, 1)
  <2>1. Counted(h) = {} /\ Calls(h) = {}
    BY <1>1 DEF Referenced, Calls
  <2>2. Uses(h) = 0
    BY <2>1, UsesBounds
  <2>3. CountOK(f, Uses(h) + 1)
    BY SMT, <1>4, <2>2 DEF CountOK
  <2>4. thr[t].pc = "run"
    BY SMT, <1>1 DEF Idle
  <2>. QED BY SMT, <1>1, <1>2, <1>3, <2>3, <2>4 DEF MoveUses, One, CountsFor, CallsOn
<1>11. MoveLists(t, x, r, y)
  BY <1>1, <1>2, SameFIFO DEF MoveLists, InAList
<1>12. MoveReads(t, x)
  BY SMT, <1>1, FileSets, SameFIFO DEF MoveReads, Idle
<1>. QED BY <1>5, <1>6, <1>7, <1>8, <1>9, <1>10, <1>11, <1>12, MoveInv

LEMMA FindFileInv ==
    ASSUME FilesInv, panic = "none", NEW t \in User, t \notin ended, thr[t].pc = "run", UNCHANGED exitVars,
           NEW h \in Handle, NEW op \in Calling, FindFile(t, h, op), UNCHANGED <<fifo, offset>>
    PROVE  FilesInv'
<1>. DEFINE x == [thr[t] EXCEPT !.pc = "found", !.file = h, !.op = op]
            y == ior[1]
            f == IF op = "close" THEN [of[h] EXCEPT !.deleteOnCompletion = TRUE, !.ioCount = 1]
                 ELSE [of[h] EXCEPT !.ioCount = @ + 1]
<1>1. /\ thr[t] = Idle /\ t \in Thread /\ thr[t] \in ThreadRec /\ of[h] \in FileRec /\ 1 \in Request
      /\ 1 \in Pool /\ y \in IORec /\ Uses(h) \in Nat /\ CountOK(of[h], Uses(h)) /\ of[h].state = "listed"
      /\ of[h].deleteOnCompletion = FALSE /\ (op = "close" => of[h].ioCount = 0)
  BY Starts DEF FindFile, Closable, FileRec
<1>2. x \in ThreadRec /\ x.pc = "found" /\ x.file = h /\ x.op = op /\ x.back = "run"
  <2>1. "found" \in ThreadStep /\ op \in Op
    BY DEF ThreadStep, Op, Calling
  <2>2. thr[t].back = "run"
    BY SMT, <1>1 DEF Idle
  <2>. QED BY <1>1, <2>1, <2>2 DEF ThreadRec
<1>3. /\ f \in FileRec /\ f.state = "listed" /\ f.refused = of[h].refused
      /\ f.deleteOnCompletion = (op = "close") /\ f.ioCount = of[h].ioCount + 1
  <2>1. CASE op = "close"
    <3>1. f = [of[h] EXCEPT !.deleteOnCompletion = TRUE, !.ioCount = 1] /\ of[h].ioCount + 1 = 1
      BY SMT, <1>1, <2>1
    <3>2. 1 \in Nat /\ TRUE \in BOOLEAN
      BY SMT
    <3>. QED BY <1>1, <2>1, <3>1, <3>2 DEF FileRec
  <2>2. CASE op # "close"
    <3>1. f = [of[h] EXCEPT !.ioCount = of[h].ioCount + 1]
      BY <2>2
    <3>2. of[h].ioCount + 1 \in Nat
      BY SMT, <1>1 DEF FileRec
    <3>. QED BY <1>1, <2>2, <3>1, <3>2 DEF FileRec
  <2>. QED BY <2>1, <2>2
<1>4. thr' = [thr EXCEPT ![t] = x] /\ of' = [of EXCEPT ![h] = f]
  BY DEF FindFile
<1>5. ior' = [ior EXCEPT ![1] = y] /\ panic' \in Panic
  BY Starts DEF FindFile, Panic
<1>. HIDE DEF x, y, f
<1>6. Move(t, x, 1, y, h, f)
  BY <1>1, <1>2, <1>3, <1>4, <1>5 DEF Move
<1>7. MoveThread(t, x, 1, y)
  <2>1. ThreadOK(x, [ior EXCEPT ![1] = y])
    BY <1>1, <1>2 DEF ThreadOK, Serves, Cancels, Completes, Calling
  <2>2. OwnedBy(x) = {}
    BY <1>2 DEF OwnedBy, Serves, Cancels, Completes
  <2>. QED BY <2>1, <2>2 DEF MoveThread, y
<1>8. MoveRequest(t, 1, y)
  BY Starts DEF MoveRequest, y
<1>9. MoveFile(t, x, 1, y, h, f)
  BY <1>1, <1>2, <1>3 DEF MoveFile, Open, Closes, Opens, y
<1>10. MoveUses(t, x, 1, y, h, f, 1)
  <2>1. thr[t].pc = "run"
    BY <1>1 DEF Idle
  <2>2. CountOK(f, Uses(h) + 1)
    <3>1. 0 + 1 = 1
      BY SMT
    <3>2. f.deleteOnCompletion => of[h].ioCount = 0
      BY <1>1, <1>3
    <3>. QED BY <1>1, <1>3, <3>1, <3>2 DEF CountOK
  <2>3. \A g \in Handle : /\ One(CallsOn(thr[t], g)) = 0 /\ One(CallsOn(x, g)) = IF g = h THEN 1 ELSE 0
                          /\ One(CountsFor(y, g)) \in Nat /\ CountsFor(y, g) = CountsFor(ior[1], g)
    BY <1>2, <2>1 DEF One, CallsOn, y
  <2>. QED BY SMT, <2>2, <2>3 DEF MoveUses
<1>11. MoveLists(t, x, 1, y)
  BY <1>2, SameFIFO DEF MoveLists, y
<1>12. MoveReads(t, x)
  BY SMT, <1>1, FileSets, SameFIFO DEF MoveReads, Idle
<1>. QED BY <1>5, <1>6, <1>7, <1>8, <1>9, <1>10, <1>11, <1>12, MoveInv

\* The steps that change no request.
LEMMA NoRequestStep ==
    ASSUME FilesInv, panic = "none", NEW t \in User, NEW x, NEW h \in Handle, NEW d,
           OwnedBy(x) \subseteq OwnedBy(thr[t]), ThreadOK(x, ior), x.pc # "uncount",
           \A g \in Handle : One(CallsOn(x, g)) = One(CallsOn(thr[t], g)) + IF g = h THEN d ELSE 0
    PROVE  /\ ior = [ior EXCEPT ![1] = ior[1]] /\ ior[1] \in IORec /\ 1 \in Request
           /\ MoveThread(t, x, 1, ior[1]) /\ MoveRequest(t, 1, ior[1])
           /\ \A f : d \in {-1, 0, 1} /\ CountOK(f, Uses(h) + d) => MoveUses(t, x, 1, ior[1], h, f, d)
           /\ ListsKept => MoveLists(t, x, 1, ior[1])
<1>1. ior = [ior EXCEPT ![1] = ior[1]] /\ ior[1] \in IORec /\ 1 \in Request
  BY Starts
<1>2. MoveThread(t, x, 1, ior[1])
  BY <1>1 DEF MoveThread
<1>3. MoveRequest(t, 1, ior[1])
  BY Starts DEF MoveRequest
<1>4. ASSUME NEW f, d \in {-1, 0, 1}, CountOK(f, Uses(h) + d)
      PROVE  MoveUses(t, x, 1, ior[1], h, f, d)
  <2>1. \A g \in Handle : One(CountsFor(ior[1], g)) \in Nat /\ One(CallsOn(thr[t], g)) \in Nat
    BY DEF One
  <2>. QED BY SMT, <1>4, <2>1 DEF MoveUses
<1>5. ListsKept => MoveLists(t, x, 1, ior[1])
  BY DEF MoveLists
<1>. QED BY SMT, <1>1, <1>2, <1>3, <1>4, <1>5

LEMMA createFileIOInv ==
    ASSUME FilesInv, panic = "none", NEW t \in User, NEW r \in Request,
           createFileIO(t, r), UNCHANGED <<fifo, offset>>
    PROVE  FilesInv'
<1>. DEFINE h == thr[t].file
            f == of[h]
<1>1. /\ thr[t].pc = "found" /\ UNCHANGED exitVars /\ panic' \in Panic /\ of' = of
      /\ t \in Thread /\ t \notin ended /\ h \in Handle /\ thr[t] \in ThreadRec /\ f \in FileRec
      /\ Uses(h) \in Nat /\ CountOK(f, Uses(h)) /\ thr[t].op # "open" /\ thr[t].back # "loop"
  <2>1. thr[t].pc = "found" /\ UNCHANGED exitVars /\ panic' \in Panic /\ of' = of
    BY Starts DEF createFileIO, At
  <2>. QED BY <2>1, Starts DEF ThreadOK
<1>2. of' = [of EXCEPT ![h] = f] /\ (f.state = "left" => f.refused)
  BY <1>1, Starts DEF FilesInv, FilesCore, NoneLeft
<1>3. CASE NotCreated(t)
  <2>. DEFINE x == [thr[t] EXCEPT !.pc = "undo"]
  <2>1. /\ x \in ThreadRec /\ x.pc = "undo" /\ x.file = h /\ x.back # "loop" /\ thr' = [thr EXCEPT ![t] = x]
        /\ ior' = ior
    BY <1>1, <1>3 DEF ThreadRec, ThreadStep, NotCreated, Go
  <2>. HIDE DEF x
  <2>2. OwnedBy(x) = {} /\ ThreadOK(x, ior)
    BY <1>1, <2>1 DEF OwnedBy, ThreadOK, Serves, Cancels, Completes
  <2>3. \A g \in Handle : One(CallsOn(x, g)) = One(CallsOn(thr[t], g)) + IF g = h THEN 0 ELSE 0
    BY SMT, <1>1, <2>1 DEF One, CallsOn
  <2>4. CountOK(f, Uses(h) + 0)
    BY SMT, <1>1
  <2>. HIDE DEF f, h
  <2>5. /\ ior' = [ior EXCEPT ![1] = ior[1]] /\ ior[1] \in IORec /\ 1 \in Request
        /\ MoveThread(t, x, 1, ior[1]) /\ MoveRequest(t, 1, ior[1])
        /\ MoveUses(t, x, 1, ior[1], h, f, 0) /\ MoveLists(t, x, 1, ior[1])
    BY SMT, <1>1, <2>1, <2>2, <2>3, <2>4, SameFIFO, NoRequestStep
  <2>6. Move(t, x, 1, ior[1], h, f)
    BY <1>1, <1>2, <2>1, <2>5 DEF Move
  <2>7. MoveFile(t, x, 1, ior[1], h, f)
    BY <1>2, <2>1 DEF MoveFile, Closes, Opens, f, h
  <2>8. MoveReads(t, x)
    BY <1>1, SameFIFO DEF MoveReads, Processes
  <2>. QED BY <1>1, <2>5, <2>6, <2>7, <2>8, MoveInv
<1>4. CASE ~NotCreated(t)
  <2>. DEFINE x == [thr[t] EXCEPT !.pc = "service", !.req = r]
              y == [step |-> "service", op |-> thr[t].op, file |-> h, task |-> t]
  <2>1. /\ x \in ThreadRec /\ x.pc = "service" /\ x.file = h /\ x.back # "loop" /\ x.req = r
        /\ x.op = thr[t].op
    BY <1>1 DEF ThreadRec, ThreadStep
  <2>2. y \in IORec /\ y.step = "service" /\ y.file = h /\ y.task = t
    BY <1>1 DEF IORec, RequestStep, ThreadRec
  <2>3. thr' = [thr EXCEPT ![t] = x] /\ ior' = [ior EXCEPT ![r] = y]
    BY <1>4 DEF createFileIO
  <2>4. /\ ior[r].step = "none" /\ (r \in Pool \/ (Closes(thr[t]) /\ r = h))
    BY <1>1, <1>4 DEF createFileIO, Fresh, FilesInv, FilesCore, OneCloser, Closes
  <2>. HIDE DEF x, y, f, h
  <2>5. Move(t, x, r, y, h, f)
    BY <1>1, <1>2, <2>1, <2>2, <2>3 DEF Move
  <2>6. MoveThread(t, x, r, y)
    <3>1. [ior EXCEPT ![r] = y][r] = y
      BY Starts
    <3>2. ThreadOK(x, [ior EXCEPT ![r] = y])
      BY <1>1, <2>1, <2>2, <3>1 DEF ThreadOK, Serves, Cancels, Completes
    <3>3. OwnedBy(x) \subseteq {r}
      BY <2>1 DEF OwnedBy, Completes
    <3>. QED BY <2>4, <3>2, <3>3 DEF MoveThread, Carried
  <2>7. MoveRequest(t, r, y)
    BY <1>1, <2>2 DEF MoveRequest
  <2>8. MoveFile(t, x, r, y, h, f)
    BY <1>1, <1>2, <2>1, <2>2, <2>4 DEF MoveFile, Closes, Opens, f, h
  <2>9. MoveUses(t, x, r, y, h, f, 0)
    <3>1. \A g \in Handle : One(CountsFor(y, g)) + One(CallsOn(x, g))
                            = One(CountsFor(ior[r], g)) + One(CallsOn(thr[t], g)) + IF g = h THEN 0 ELSE 0
      BY SMT, <1>1, <2>1, <2>2, <2>4 DEF One, CountsFor, CallsOn, h
    <3>. QED BY SMT, <1>1, <3>1 DEF MoveUses
  <2>10. MoveLists(t, x, r, y)
    BY <2>1, <2>4, SameFIFO DEF MoveLists, InAList
  <2>11. MoveReads(t, x)
    BY <1>1, SameFIFO DEF MoveReads, Processes
  <2>. QED BY <1>1, <2>5, <2>6, <2>7, <2>8, <2>9, <2>10, <2>11, MoveInv
<1>. QED BY <1>3, <1>4

\* What addFileIOCount(of, -1) leaves of the file h.
LEMMA UncountStep ==
    ASSUME FilesInv, panic = "none", NEW h \in Handle, Uncount(h), Uses(h) >= 1
    PROVE  \E f \in FileRec : /\ of' = [of EXCEPT ![h] = f] /\ panic' \in Panic
                              /\ panic' = "none" => /\ CountOK(f, Uses(h) + (-1)) /\ (Open(f) => Open(of[h]))
                                                    /\ f.state = "left" => f.refused
<1>1. of \in [Handle -> FileRec] /\ Uses(h) \in Nat /\ CountOK(of[h], Uses(h)) /\ NoneLeft
  BY FileStates, UsesBounds DEF FilesInv, FilesTypeOK, FilesCore, Counts
<1>2. panic' = UncountPanic(of[h]) /\ panic' \in Panic
  BY DEF Uncount, UncountPanic, Panic
<1>3. CASE panic' = "none"
  <2>1. of' = [of EXCEPT ![h] = Uncounted(of[h])]
    BY <1>3 DEF Uncount
  <2>2. /\ Uncounted(of[h]) \in FileRec /\ CountOK(Uncounted(of[h]), Uses(h) - 1)
        /\ Open(Uncounted(of[h])) => Open(of[h])
        /\ Uncounted(of[h]).state = "left" => of[h].state = "left" /\ Uncounted(of[h]).refused = of[h].refused
    BY <1>1, <1>2, <1>3, UncountedOK
  <2>3. CountOK(Uncounted(of[h]), Uses(h) + (-1))
    BY <1>1, <2>2 DEF CountOK
  <2>4. Uncounted(of[h]).state = "left" => Uncounted(of[h]).refused
    BY <1>1, <2>2 DEF NoneLeft
  <2>. QED BY <1>2, <2>1, <2>2, <2>3, <2>4
<1>4. CASE panic' # "none"
  <2>1. of' = [of EXCEPT ![h] = of[h]]
    BY <1>1, <1>4 DEF Uncount
  <2>. QED BY <1>1, <1>2, <1>4, <2>1
<1>. QED BY <1>3, <1>4

LEMMA undoCountInv ==
    ASSUME FilesInv, panic = "none", NEW t \in User, undoCount(t), UNCHANGED <<fifo, offset>>
    PROVE  FilesInv'
<1>. DEFINE h == thr[t].file
<1>1. /\ thr[t].pc = "undo" /\ UNCHANGED exitVars /\ ior' = ior /\ thr' = [thr EXCEPT ![t] = Idle]
      /\ t \in Thread /\ t \notin ended /\ h \in Handle /\ of[h] \in FileRec
      /\ Uses(h) \in Nat /\ CountOK(of[h], Uses(h)) /\ thr[t].back # "loop"
  <2>1. thr[t].pc = "undo" /\ UNCHANGED exitVars /\ ior' = ior /\ thr' = [thr EXCEPT ![t] = Idle]
    BY DEF undoCount, At
  <2>. QED BY <2>1, Starts DEF ThreadOK
<1>2. Uses(h) >= 1
  BY <1>1, UsesBounds DEF CallsOn
<1>3. PICK f \in FileRec : /\ of' = [of EXCEPT ![h] = f] /\ panic' \in Panic
                           /\ panic' = "none" => /\ CountOK(f, Uses(h) + (-1)) /\ (Open(f) => Open(of[h]))
                                                 /\ f.state = "left" => f.refused
  <2>1. CASE Accepts(of[h]) /\ Uncount(h)
    BY <1>1, <1>2, <2>1, UncountStep
  <2>2. CASE ~Accepts(of[h]) /\ UNCHANGED <<of, panic>>
    <3>1. of[h].refused
      BY <1>1, <2>2 DEF Accepts, CountOK, FileRec
    <3>2. of' = [of EXCEPT ![h] = of[h]]
      BY <2>2, Starts
    <3>3. panic' \in Panic
      BY <2>2, Starts
    <3>. QED BY <1>1, <3>1, <3>2, <3>3 DEF CountOK
  <2>. QED BY <2>1, <2>2 DEF undoCount
<1>4. OwnedBy(Idle) \subseteq OwnedBy(thr[t]) /\ ThreadOK(Idle, ior) /\ Idle.pc = "run" /\ Idle.file = NoHandle
      /\ Idle \in ThreadRec
  BY IdleOK DEF Idle
<1>5. \A g \in Handle : One(CallsOn(Idle, g)) = One(CallsOn(thr[t], g)) + IF g = h THEN -1 ELSE 0
  BY SMT, <1>1, <1>4 DEF One, CallsOn
<1>. HIDE DEF h
<1>6. /\ ior' = [ior EXCEPT ![1] = ior[1]] /\ ior[1] \in IORec /\ 1 \in Request
      /\ MoveThread(t, Idle, 1, ior[1]) /\ MoveRequest(t, 1, ior[1])
      /\ panic' = "none" => MoveUses(t, Idle, 1, ior[1], h, f, -1)
      /\ MoveLists(t, Idle, 1, ior[1])
  BY <1>1, <1>3, <1>4, <1>5, SameFIFO, NoRequestStep
<1>7. Move(t, Idle, 1, ior[1], h, f)
  BY <1>1, <1>3, <1>4, <1>6 DEF Move
<1>8. FIFOTypeOK' /\ offset' \in [Handle -> Nat]
  BY SameFIFO
<1>9. CASE panic' = "none"
  <2>1. MoveFile(t, Idle, 1, ior[1], h, f)
    BY <1>3, <1>4, <1>9 DEF MoveFile, Closes, Opens, h
  <2>2. MoveReads(t, Idle)
    BY <1>1, SameFIFO DEF MoveReads, Processes
  <2>. QED BY <1>3, <1>6, <1>7, <1>9, <2>1, <2>2, MoveInv
<1>10. CASE panic' # "none"
  BY <1>3, <1>7, <1>8, <1>10, PanicInv
<1>. QED BY <1>9, <1>10

LEMMA completeCountInv ==
    ASSUME FilesInv, panic = "none", NEW t \in User, completeCount(t), UNCHANGED <<fifo, offset>>
    PROVE  FilesInv'
<1>. DEFINE h == thr[t].file
            r == thr[t].todo[1]
            x == [thr[t] EXCEPT !.pc = "list"]
            y == [ior[r] EXCEPT !.step = "counted"]
<1>1. thr[t].pc = "count" /\ UNCHANGED exitVars
  BY DEF completeCount, At
<1>2. /\ t \in Thread /\ t \notin ended /\ h \in Handle /\ of[h] \in FileRec /\ thr[t] \in ThreadRec
      /\ Len(thr[t].todo) = 1 /\ r \in Request /\ ior[r].file = h /\ ior[r].step = "claimed"
      /\ ior[r] \in IORec /\ ThreadOK(thr[t], ior)
  BY <1>1, Starts DEF ThreadOK, Completes
<1>3. Head(thr[t].todo) = r
  BY SMT, <1>2 DEF ThreadRec
<1>4. Uncount(h) /\ ior' = [ior EXCEPT ![r] = y] /\ thr' = [thr EXCEPT ![t] = x]
  BY <1>2, <1>3 DEF completeCount, Step, Go
<1>5. /\ x \in ThreadRec /\ x.pc = "list" /\ x.file = h /\ x.back = thr[t].back /\ x.req = thr[t].req
      /\ x.op = thr[t].op /\ x.todo = thr[t].todo
  BY <1>2 DEF ThreadRec, ThreadStep
<1>6. y \in IORec /\ y.step = "counted" /\ y.file = h /\ y.task = ior[r].task
  BY <1>2 DEF IORec, RequestStep
<1>7. Uses(h) >= 1
  BY <1>2, UsesBounds DEF CountsFor
<1>8. PICK f \in FileRec : /\ of' = [of EXCEPT ![h] = f] /\ panic' \in Panic
                           /\ panic' = "none" => /\ CountOK(f, Uses(h) + (-1)) /\ (Open(f) => Open(of[h]))
                                                 /\ f.state = "left" => f.refused
  BY <1>2, <1>4, <1>7, UncountStep
<1>9. thr[t].file = h
  OBVIOUS
<1>10. thr[t].todo[1] = r
  OBVIOUS
<1>. HIDE DEF x, y, h, r
<1>11. Move(t, x, r, y, h, f)
  BY <1>1, <1>2, <1>4, <1>5, <1>6, <1>8 DEF Move
<1>12. FIFOTypeOK' /\ offset' \in [Handle -> Nat]
  BY SameFIFO
<1>13. CASE panic' = "none"
  <2>1. MoveThread(t, x, r, y)
    <3>. DEFINE io == [ior EXCEPT ![r] = y]
    <3>1. io[r] = y /\ \A q \in Request : q # r => io[q] = ior[q]
      BY <1>2, Starts
    <3>. HIDE DEF io
    <3>2. Serves(x) <=> Serves(thr[t])
      BY <1>1, <1>5 DEF Serves
    <3>3. Serves(thr[t]) => x.req \in Request /\ x.req # r /\ ior[x.req].step = "service" /\ ior[x.req].file = h
      BY <1>2, <1>5, <1>9 DEF ThreadOK
    <3>4. Serves(x) => x.req \in Request /\ io[x.req].step = "service" /\ io[x.req].file = x.file
      BY <1>5, <3>1, <3>2, <3>3
    <3>5. ThreadOK(x, io)
      BY <1>2, <1>5, <1>6, <1>10, <3>1, <3>4 DEF ThreadOK, Cancels, Completes
    <3>6. OwnedBy(x) = OwnedBy(thr[t]) /\ r \in OwnedBy(thr[t])
      BY <1>1, <1>2, <1>5, <1>10, <3>2 DEF OwnedBy, Cancels, Completes
    <3>. QED BY <3>5, <3>6 DEF MoveThread, io
  <2>2. MoveRequest(t, r, y)
    BY <1>2, <1>6 DEF MoveRequest
  <2>3. MoveFile(t, x, r, y, h, f)
    BY <1>2, <1>5, <1>6, <1>8, <1>9, <1>13 DEF MoveFile, Closes, Opens
  <2>4. MoveUses(t, x, r, y, h, f, -1)
    <3>1. \A g \in Handle : One(CountsFor(y, g)) + One(CallsOn(x, g))
                            = One(CountsFor(ior[r], g)) + One(CallsOn(thr[t], g)) + IF g = h THEN -1 ELSE 0
      BY SMT, <1>1, <1>2, <1>5, <1>6 DEF One, CountsFor, CallsOn
    <3>. QED BY <1>8, <1>13, <3>1 DEF MoveUses
  <2>5. MoveLists(t, x, r, y)
    BY <1>2, <1>5, SameFIFO DEF MoveLists, InAList
  <2>6. MoveReads(t, x)
    BY <1>1, <1>5, <1>9, SameFIFO DEF MoveReads, Processes
  <2>. QED BY <1>8, <1>11, <2>1, <2>2, <2>3, <2>4, <2>5, <2>6, MoveInv
<1>14. CASE panic' # "none"
  BY <1>8, <1>11, <1>12, <1>14, PanicInv
<1>. QED BY <1>13, <1>14

LEMMA OneElement ==
    ASSUME NEW S, NEW q \in Seq(S), Len(q) = 1
    PROVE  Head(q) = q[1] /\ Tail(q) = <<>>
<1>1. Head(q) = q[1] /\ Tail(q) \in Seq(S) /\ Len(Tail(q)) = 0
  BY SMT
<1>2. \A p \in Seq(S) : Len(p) = 0 => p = <<>>
  BY SMT
<1>. QED BY <1>1, <1>2

LEMMA completeIOInv ==
    ASSUME FilesInv, panic = "none", NEW t \in User, completeIO(t), UNCHANGED <<fifo, offset>>
    PROVE  FilesInv'
<1>. DEFINE h == thr[t].file
            r == thr[t].todo[1]
            f == of[h]
            x == IF thr[t].back = "run" THEN Idle
                 ELSE [thr[t] EXCEPT !.pc = thr[t].back, !.todo = <<>>, !.back = thr[t].back]
            y == [ior[r] EXCEPT !.step = "completed"]
<1>1. thr[t].pc = "list" /\ UNCHANGED exitVars
  BY DEF completeIO, At
<1>2. /\ t \in Thread /\ t \notin ended /\ h \in Handle /\ f \in FileRec /\ thr[t] \in ThreadRec
      /\ Len(thr[t].todo) = 1 /\ r \in Request /\ ior[r].file = h /\ ior[r].step = "counted"
      /\ ior[r] \in IORec /\ ThreadOK(thr[t], ior) /\ Uses(h) \in Nat /\ CountOK(f, Uses(h))
  BY <1>1, Starts DEF ThreadOK, Completes
<1>3. Head(thr[t].todo) = r /\ Tail(thr[t].todo) = <<>>
  <2>1. thr[t].todo \in Seq(Request)
    BY <1>2 DEF ThreadRec
  <2>. QED BY <1>2, <2>1, OneElement
<1>4. ior' = [ior EXCEPT ![r] = y] /\ thr' = [thr EXCEPT ![t] = x] /\ panic' \in Panic /\ of' = of
  BY <1>2, <1>3, Starts DEF completeIO, Step, CompleteNext
<1>5. of' = [of EXCEPT ![h] = f] /\ (f.state = "left" => f.refused)
  BY <1>2, <1>4, Starts DEF FilesInv, FilesCore, NoneLeft
<1>6. /\ x \in ThreadRec
      /\ \/ x = Idle /\ thr[t].back = "run"
         \/ /\ x.pc = thr[t].back /\ x.file = h /\ x.back = thr[t].back /\ x.req = thr[t].req
            /\ x.op = thr[t].op /\ x.pc \in {"loop", "free"}
  <2>1. CASE thr[t].back = "run"
    BY <2>1, IdleOK
  <2>2. CASE thr[t].back # "run"
    <3>1. thr[t].back \in {"loop", "free"} /\ thr[t].back \in ThreadStep
      BY <1>2, <2>2 DEF ThreadRec, ThreadStep
    <3>2. <<>> \in Seq(Request)
      BY SMT
    <3>3. x = [thr[t] EXCEPT !.pc = thr[t].back, !.todo = <<>>, !.back = thr[t].back]
      BY <2>2
    <3>. QED BY <1>2, <3>1, <3>2, <3>3 DEF ThreadRec
  <2>. QED BY <2>1, <2>2
<1>7. y \in IORec /\ y.step = "completed" /\ y.file = h /\ y.task = ior[r].task
  BY <1>2 DEF IORec, RequestStep
<1>8. thr[t].file = h /\ thr[t].todo[1] = r /\ f = of[h]
  OBVIOUS
<1>. HIDE DEF x, y, h, r, f
<1>9. Idle.pc = "run" /\ Idle.file = NoHandle
  BY DEF Idle
<1>10. Move(t, x, r, y, h, f)
  BY <1>1, <1>2, <1>4, <1>5, <1>6, <1>7 DEF Move
<1>11. MoveThread(t, x, r, y)
  <2>. DEFINE io == [ior EXCEPT ![r] = y]
  <2>1. \A q \in Request : q # r => io[q] = ior[q]
    BY <1>2, Starts
  <2>. HIDE DEF io
  <2>2. r \in OwnedBy(thr[t])
    BY <1>1, <1>2, <1>8 DEF OwnedBy, Completes
  <2>3. ThreadOK(x, io) /\ OwnedBy(x) \subseteq OwnedBy(thr[t])
    <3>1. CASE x = Idle
      BY <3>1, IdleOK
    <3>2. CASE /\ x.pc = thr[t].back /\ x.file = h /\ x.back = thr[t].back /\ x.req = thr[t].req
               /\ x.op = thr[t].op /\ x.pc \in {"loop", "free"}
      <4>1. Serves(x) => Serves(thr[t]) /\ x.req = thr[t].req
        BY <1>1, <3>2 DEF Serves
      <4>2. Serves(thr[t]) => /\ thr[t].req \in Request /\ thr[t].req # r
                              /\ ior[thr[t].req].step = "service" /\ ior[thr[t].req].file = h
        BY <1>2, <1>8 DEF ThreadOK
      <4>3. Serves(x) => x.req \in Request /\ io[x.req].step = "service" /\ io[x.req].file = x.file
        BY <2>1, <3>2, <4>1, <4>2
      <4>4. ~Cancels(x) /\ ~Completes(x)
        BY <3>2 DEF Cancels, Completes
      <4>5. ThreadOK(x, io)
        BY <1>2, <1>6, <3>2, <4>3, <4>4 DEF ThreadOK
      <4>6. OwnedBy(x) \subseteq OwnedBy(thr[t])
        BY <4>1, <4>4 DEF OwnedBy
      <4>. QED BY <4>5, <4>6
    <3>. QED BY <1>6, <3>1, <3>2
  <2>. QED BY <2>2, <2>3 DEF MoveThread, io
<1>12. MoveRequest(t, r, y)
  BY <1>2, <1>7 DEF MoveRequest
<1>13. MoveFile(t, x, r, y, h, f)
  BY <1>2, <1>5, <1>6, <1>7, <1>8, <1>9 DEF MoveFile, Closes, Opens
<1>14. MoveUses(t, x, r, y, h, f, 0)
  <2>1. x.pc \notin {"found", "undo"}
    BY <1>6, <1>9
  <2>2. \A g \in Handle : One(CountsFor(y, g)) + One(CallsOn(x, g))
                          = One(CountsFor(ior[r], g)) + One(CallsOn(thr[t], g)) + IF g = h THEN 0 ELSE 0
    BY SMT, <1>1, <1>2, <1>7, <2>1 DEF One, CountsFor, CallsOn
  <2>. QED BY SMT, <1>2, <2>2 DEF MoveUses
<1>15. MoveLists(t, x, r, y)
  BY <1>2, <1>6, <1>9, SameFIFO DEF MoveLists, InAList
<1>16. MoveReads(t, x)
  BY <1>1, <1>6, <1>8, SameFIFO DEF MoveReads, Processes
<1>. QED BY <1>4, <1>10, <1>11, <1>12, <1>13, <1>14, <1>15, <1>16, MoveInv

\* acceptDeleteFileIO, and the same in cancelAllIORequests.
LEMMA AcceptInv ==
    ASSUME FilesInv, panic = "none", NEW t \in User, t \notin ended, thr[t].pc = "run", NEW r \in Request,
           ior[r].step = "completed", ior' = [ior EXCEPT ![r] = NoIO],
           UNCHANGED <<of, thr, exitVars, panic, fifo, offset>>
    PROVE  FilesInv'
<1>. DEFINE h == ior[r].file
            f == of[h]
            x == thr[t]
<1>1. /\ thr[t] = Idle /\ t \in Thread /\ h \in Handle /\ f \in FileRec /\ x \in ThreadRec
      /\ Uses(h) \in Nat /\ CountOK(f, Uses(h)) /\ ThreadOK(x, ior) /\ panic' \in Panic
  BY Starts
<1>2. of' = [of EXCEPT ![h] = f] /\ (f.state = "left" => f.refused) /\ thr' = [thr EXCEPT ![t] = x]
  BY <1>1, Starts DEF FilesInv, FilesCore, NoneLeft
<1>3. NoIO \in IORec /\ NoIO.step = "none"
  BY NoIOTyped DEF NoIO
<1>4. x = thr[t] /\ f = of[h] /\ h = ior[r].file
  OBVIOUS
<1>. HIDE DEF x, f, h
<1>5. Move(t, x, r, NoIO, h, f)
  BY <1>1, <1>2, <1>3 DEF Move
<1>6. MoveThread(t, x, r, NoIO)
  <2>1. ThreadOK(x, [ior EXCEPT ![r] = NoIO])
    BY <1>1, <1>4, IdleOK
  <2>. QED BY <1>4, <2>1 DEF MoveThread, Carried
<1>7. MoveRequest(t, r, NoIO)
  BY <1>3 DEF MoveRequest
<1>8. x.pc = "run"
  BY <1>4
<1>9. MoveFile(t, x, r, NoIO, h, f)
  BY <1>2, <1>3, <1>4, <1>8 DEF MoveFile, Closes, Opens
<1>10. MoveUses(t, x, r, NoIO, h, f, 0)
  <2>1. \A g \in Handle : One(CountsFor(NoIO, g)) + One(CallsOn(x, g))
                          = One(CountsFor(ior[r], g)) + One(CallsOn(thr[t], g)) + IF g = h THEN 0 ELSE 0
    BY SMT, <1>3, <1>4 DEF One, CountsFor, CallsOn
  <2>. QED BY SMT, <1>1, <2>1 DEF MoveUses
<1>11. MoveLists(t, x, r, NoIO)
  BY <1>8, SameFIFO DEF MoveLists, InAList
<1>12. MoveReads(t, x)
  BY <1>4, SameFIFO DEF MoveReads
<1>. QED BY <1>1, <1>5, <1>6, <1>7, <1>9, <1>10, <1>11, <1>12, MoveInv

\* The first half of a cancellation, by cacnelIOHandler or by tryCancelIO.
LEMMA CancelInv ==
    ASSUME FilesInv, panic = "none", NEW t \in User, t \notin ended, thr[t].pc = "run", NEW r \in Request,
           ior[r].step = "queued", NEW s \in {"cancelling", "cancelled"}, ior' = Step(r, s),
           thr' = [thr EXCEPT ![t].pc = "cancel", ![t].file = ior[r].file, ![t].req = r],
           UNCHANGED <<of, exitVars, panic, fifo, offset>>
    PROVE  FilesInv'
<1>. DEFINE h == ior[r].file
            f == of[h]
            x == [thr[t] EXCEPT !.pc = "cancel", !.file = h, !.req = r]
            y == [ior[r] EXCEPT !.step = s]
<1>1. /\ thr[t] = Idle /\ t \in Thread /\ h \in Handle /\ f \in FileRec /\ thr[t] \in ThreadRec
      /\ Uses(h) \in Nat /\ CountOK(f, Uses(h)) /\ panic' \in Panic /\ ior[r] \in IORec
  BY Starts
<1>2. of' = [of EXCEPT ![h] = f] /\ (f.state = "left" => f.refused)
  BY <1>1, Starts DEF FilesInv, FilesCore, NoneLeft
<1>3. y \in IORec /\ y.step = s /\ y.file = h /\ y.task = ior[r].task
  BY <1>1 DEF IORec, RequestStep
<1>4. /\ x \in ThreadRec /\ x.pc = "cancel" /\ x.file = h /\ x.req = r /\ x.back = "run" /\ x.op = "none"
      /\ thr[t].pc = "run" /\ thr[t].back = "run"
  <2>1. "cancel" \in ThreadStep
    BY DEF ThreadStep
  <2>2. thr[t].back = "run" /\ thr[t].op = "none"
    BY SMT, <1>1 DEF Idle
  <2>. QED BY <1>1, <2>1, <2>2 DEF ThreadRec
<1>5. thr' = [thr EXCEPT ![t] = x] /\ ior' = [ior EXCEPT ![r] = y]
  BY DEF Step
<1>6. f = of[h] /\ h = ior[r].file
  OBVIOUS
<1>. HIDE DEF x, y, f, h
<1>7. Move(t, x, r, y, h, f)
  BY <1>1, <1>2, <1>3, <1>4, <1>5 DEF Move
<1>8. MoveThread(t, x, r, y)
  <2>1. [ior EXCEPT ![r] = y][r] = y
    BY Starts
  <2>2. ThreadOK(x, [ior EXCEPT ![r] = y])
    BY <1>1, <1>3, <1>4, <2>1 DEF ThreadOK, Serves, Cancels, Completes
  <2>3. OwnedBy(x) \subseteq {r}
    BY <1>4 DEF OwnedBy, Completes
  <2>. QED BY <2>2, <2>3 DEF MoveThread, Carried
<1>9. MoveRequest(t, r, y)
  BY <1>1, <1>3 DEF MoveRequest
<1>10. MoveFile(t, x, r, y, h, f)
  BY <1>2, <1>3, <1>4, <1>6 DEF MoveFile, Closes, Opens
<1>11. MoveUses(t, x, r, y, h, f, 0)
  <2>1. \A g \in Handle : One(CountsFor(y, g)) + One(CallsOn(x, g))
                          = One(CountsFor(ior[r], g)) + One(CallsOn(thr[t], g)) + IF g = h THEN 0 ELSE 0
    BY SMT, <1>3, <1>4, <1>6 DEF One, CountsFor, CallsOn
  <2>. QED BY SMT, <1>1, <2>1 DEF MoveUses
<1>12. MoveLists(t, x, r, y)
  BY <1>3, <1>4, <1>6, SameFIFO DEF MoveLists, InAList
<1>13. MoveReads(t, x)
  BY <1>4, SameFIFO DEF MoveReads, Processes
<1>. QED BY <1>1, <1>7, <1>8, <1>9, <1>10, <1>11, <1>12, <1>13, MoveInv

LEMMA uncountCancelledInv ==
    ASSUME FilesInv, panic = "none", NEW t \in User, uncountCancelled(t), UNCHANGED <<fifo, offset>>
    PROVE  FilesInv'
<1>. DEFINE h == thr[t].file
            r == thr[t].req
<1>1. /\ thr[t].pc = "uncount" /\ UNCHANGED exitVars /\ Uncount(h) /\ ior' = [ior EXCEPT ![r] = NoIO]
      /\ thr' = [thr EXCEPT ![t] = Idle]
  BY DEF uncountCancelled, At
<1>2. /\ t \in Thread /\ t \notin ended /\ h \in Handle /\ of[h] \in FileRec
      /\ r \in Request /\ ior[r].file = h /\ ior[r].step \in {"cancelling", "cancelled"}
      /\ thr[t].back # "loop"
  BY <1>1, Starts DEF ThreadOK, Cancels
<1>3. Uses(h) >= 1
  BY <1>2, UsesBounds DEF CountsFor
<1>4. PICK f \in FileRec : /\ of' = [of EXCEPT ![h] = f] /\ panic' \in Panic
                           /\ panic' = "none" => /\ CountOK(f, Uses(h) + (-1)) /\ (Open(f) => Open(of[h]))
                                                 /\ f.state = "left" => f.refused
  BY <1>1, <1>2, <1>3, UncountStep
<1>5. thr[t].file = h /\ thr[t].req = r
  OBVIOUS
<1>6. /\ NoIO \in IORec /\ NoIO.step = "none" /\ Idle \in ThreadRec /\ Idle.pc = "run" /\ Idle.file = NoHandle
  BY NoIOTyped, IdleOK DEF NoIO, Idle
<1>. HIDE DEF h, r
<1>7. Move(t, Idle, r, NoIO, h, f)
  BY <1>1, <1>2, <1>4, <1>6 DEF Move
<1>8. FIFOTypeOK' /\ offset' \in [Handle -> Nat]
  BY SameFIFO
<1>9. CASE panic' = "none"
  <2>1. MoveThread(t, Idle, r, NoIO)
    <3>1. r \in OwnedBy(thr[t])
      BY <1>1, <1>2, <1>5 DEF OwnedBy, Cancels
    <3>. QED BY <3>1, IdleOK DEF MoveThread
  <2>2. MoveRequest(t, r, NoIO)
    BY <1>6 DEF MoveRequest
  <2>3. MoveFile(t, Idle, r, NoIO, h, f)
    BY <1>4, <1>5, <1>6, <1>9 DEF MoveFile, Closes, Opens
  <2>4. MoveUses(t, Idle, r, NoIO, h, f, -1)
    <3>1. \A g \in Handle : One(CountsFor(NoIO, g)) + One(CallsOn(Idle, g))
                            = One(CountsFor(ior[r], g)) + One(CallsOn(thr[t], g)) + IF g = h THEN -1 ELSE 0
      BY SMT, <1>1, <1>2, <1>6 DEF One, CountsFor, CallsOn
    <3>. QED BY <1>4, <1>9, <3>1 DEF MoveUses
  <2>5. MoveLists(t, Idle, r, NoIO)
    BY <1>1, <1>2, <1>5, <1>6, SameFIFO DEF MoveLists
  <2>6. MoveReads(t, Idle)
    BY <1>1, <1>2, SameFIFO DEF MoveReads, Processes
  <2>. QED BY <1>4, <1>7, <2>1, <2>2, <2>3, <2>4, <2>5, <2>6, MoveInv
<1>10. CASE panic' # "none"
  BY <1>4, <1>7, <1>8, <1>10, PanicInv
<1>. QED BY <1>9, <1>10

-----------------------------------------------------------------------------
\* The end of a thread

LEMMA ExitInv ==
    ASSUME FilesInv, panic = "none", UNCHANGED <<of, ior, thr, panic, fifo, offset>>,
           exiting' \subseteq User, ended' \subseteq User \ exiting',
           \A u \in ended' \ ended : thr[u] = Idle /\ OwnIO(u) = {}
    PROVE  FilesInv'
<1>1. FileTypeOK /\ FIFOTypeOK /\ offset \in [Handle -> Nat] /\ FilesCore /\ Lists /\ Paired
  BY DEF FilesInv, FilesTypeOK
<1>2. FileTypeOK'
  <2>1. of \in [Handle -> FileRec] /\ ior \in [Request -> IORec] /\ thr \in [Thread -> ThreadRec] /\ panic \in Panic
    BY <1>1, FileStates
  <2>. QED BY <2>1, FileStatesNext
<1>3. Ended'
  <2>1. \A r \in Request : ior[r].step # "none" => ior[r].file \in Handle /\ ior[r].task \in User \ ended'
    BY <1>1 DEF FilesCore, Ended, OwnIO
  <2>2. \A u \in ended' \cup Kernel : thr[u] = Idle
    BY <1>1 DEF FilesCore, Ended
  <2>. QED BY <2>1, <2>2 DEF Ended
<1>4. FIFOTypeOK' /\ offset' \in [Handle -> Nat]
  BY <1>1 DEF FIFOTypeOK
<1>5. Threads' /\ Apart'
  BY <1>1 DEF FilesCore, Threads, Apart
<1>6. OneCloser' /\ NoneLeft'
  BY <1>1 DEF FilesCore, OneCloser, NoneLeft
<1>7. Counts'
  BY <1>1, SameCounts DEF FilesCore
<1>8. Lists'
  BY SMTT(20), <1>1 DEF Lists
<1>9. Paired'
  BY <1>1 DEF Paired, hasFIFOElement
<1>. QED BY <1>2, <1>3, <1>4, <1>5, <1>6, <1>7, <1>8, <1>9 DEF FilesInv, FilesTypeOK, FilesCore

\* The last thread finds a file it cannot close only after a request for it was refused.
LEMMA LeftInv ==
    ASSUME FilesInv, panic = "none", NEW t \in User, Exits(t), NoRequestLeft(t), User \ ended = {t},
           NEW h \in Handle, of[h].state = "listed", ~Closable(of[h]),
           of' = [of EXCEPT ![h].state = "left"], UNCHANGED <<ior, thr, exitVars, panic, fifo, offset>>
    PROVE  FilesInv'
<1>. DEFINE x == thr[t]
            f == [of[h] EXCEPT !.state = "left"]
<1>1. /\ thr[t] = Idle /\ t \in Thread /\ t \notin ended /\ x \in ThreadRec /\ of[h] \in FileRec
      /\ Uses(h) \in Nat /\ CountOK(of[h], Uses(h)) /\ panic' \in Panic /\ ThreadOK(x, ior)
  BY Starts DEF Exits
<1>2. Ended
  BY DEF FilesInv, FilesCore
<1>3. Calls(h) = {}
  <2>1. \A u \in Thread : thr[u] = Idle
    BY SMT, <1>1, <1>2 DEF Ended, Thread
  <2>2. \A u \in Thread : thr[u].pc = "run"
    BY SMT, <2>1 DEF Idle
  <2>. QED BY <2>2 DEF Calls
<1>4. Counted(h) = {}
  <2>1. \A r \in Request : ior[r].step = "none"
    BY <1>2 DEF Ended, NoRequestLeft, OwnIO
  <2>. QED BY <2>1 DEF Counted
<1>5. of[h].refused
  <2>1. Uses(h) = 0
    BY <1>3, <1>4, UsesBounds
  <2>. QED BY SMT, <1>1, <2>1 DEF CountOK, Closable, FileRec
<1>6. f \in FileRec /\ f.state = "left" /\ f.refused = of[h].refused /\ of' = [of EXCEPT ![h] = f]
  BY <1>1 DEF FileRec
<1>7. thr' = [thr EXCEPT ![t] = x]
  BY Starts
<1>. HIDE DEF f
<1>8. CountOK(f, Uses(h) + 0)
  BY <1>5, <1>6 DEF CountOK
<1>9. x = thr[t] /\ x.pc = "run" /\ x.file = NoHandle
  BY SMT, <1>1 DEF Idle
<1>10. \A g \in Handle : One(CallsOn(x, g)) = One(CallsOn(thr[t], g)) + IF g = h THEN 0 ELSE 0
  BY SMT, <1>9 DEF One
<1>. HIDE DEF x
<1>11. /\ ior' = [ior EXCEPT ![1] = ior[1]] /\ ior[1] \in IORec /\ 1 \in Request
       /\ MoveThread(t, x, 1, ior[1]) /\ MoveRequest(t, 1, ior[1])
       /\ MoveUses(t, x, 1, ior[1], h, f, 0) /\ MoveLists(t, x, 1, ior[1])
  BY <1>1, <1>8, <1>9, <1>10, SameFIFO, NoRequestStep
<1>12. Move(t, x, 1, ior[1], h, f)
  BY <1>1, <1>6, <1>7, <1>11 DEF Move
<1>13. MoveFile(t, x, 1, ior[1], h, f)
  BY <1>5, <1>6, <1>9 DEF MoveFile, Closes, Opens, Open
<1>14. MoveReads(t, x)
  BY <1>9, FileSets, SameFIFO DEF MoveReads
<1>. QED BY <1>1, <1>11, <1>12, <1>13, <1>14, MoveInv

LEMMA FileLayerInv ==
    ASSUME FilesInv, panic = "none", NEW t \in User, FileLayer(t), UNCHANGED <<fifo, offset>>
    PROVE  FilesInv'
<1>1. exiting \subseteq User /\ ended \subseteq User \ exiting
  BY FileStates DEF FilesInv, FilesTypeOK
<1>2. thr[t].pc = "run" => thr[t] = Idle
  BY Starts
<1>3. ASSUME NEW h \in Handle, NEW r \in Pool, dispatchFileNameCommand(t, h, r)
      PROVE  FilesInv'
  BY <1>3, dispatchInv
<1>4. ASSUME NEW h \in Handle, NEW op \in Calling, searchOpenFileList(t, h, op)
      PROVE  FilesInv'
  <2>1. t \notin ended /\ thr[t].pc = "run" /\ UNCHANGED exitVars /\ FindFile(t, h, op)
    BY <1>4 DEF searchOpenFileList, Runs, At
  <2>. QED BY <2>1, FindFileInv
<1>5. ASSUME NEW r \in Request, createFileIO(t, r)
      PROVE  FilesInv'
  BY <1>5, createFileIOInv
<1>6. ASSUME NEW r \in Request, acceptDeleteFileIO(t, r)
      PROVE  FilesInv'
  <2>1. /\ t \notin ended /\ thr[t].pc = "run" /\ UNCHANGED <<of, thr, exitVars, panic, fifo, offset>>
        /\ ior[r].step = "completed" /\ ior' = [ior EXCEPT ![r] = NoIO]
    BY <1>6 DEF acceptDeleteFileIO, Runs, At
  <2>. QED BY <2>1, AcceptInv
<1>7. ASSUME NEW r \in Request, cancelIO(t, r)
      PROVE  FilesInv'
  <2>1. /\ t \notin ended /\ thr[t].pc = "run" /\ UNCHANGED <<of, exitVars, panic, fifo, offset>>
        /\ ior[r].step = "queued" /\ ior' = Step(r, "cancelling")
        /\ thr' = [thr EXCEPT ![t].pc = "cancel", ![t].file = ior[r].file, ![t].req = r]
    BY <1>7 DEF cancelIO, Runs, At
  <2>. QED BY <2>1, CancelInv
<1>8. ASSUME NEW r \in Request, cancelAllIORequests(t, r)
      PROVE  FilesInv'
  <2>1. t \notin ended /\ thr[t].pc = "run" /\ UNCHANGED <<of, exitVars, panic, fifo, offset>>
    BY <1>1, <1>8 DEF cancelAllIORequests, Exits
  <2>2. CASE /\ ior[r].step = "queued" /\ ior' = Step(r, "cancelled")
             /\ thr' = [thr EXCEPT ![t].pc = "cancel", ![t].file = ior[r].file, ![t].req = r]
    BY <2>1, <2>2, CancelInv
  <2>3. CASE ior[r].step = "completed" /\ ior' = [ior EXCEPT ![r] = NoIO] /\ UNCHANGED thr
    <3>1. UNCHANGED <<of, thr, exitVars, panic, fifo, offset>>
      BY <2>1, <2>3
    <3>. QED BY <2>1, <2>3, <3>1, AcceptInv
  <2>. QED BY <1>8, <2>2, <2>3 DEF cancelAllIORequests
<1>9. CASE undoCount(t)
  BY <1>9, undoCountInv
<1>10. CASE uncountCancelled(t)
  BY <1>10, uncountCancelledInv
<1>11. CASE completeCount(t)
  BY <1>11, completeCountInv
<1>12. CASE completeIO(t)
  BY <1>12, completeIOInv
<1>13. CASE terminateCurrentTask(t)
  <2>1. /\ UNCHANGED <<of, ior, thr, panic, fifo, offset>> /\ exiting' \subseteq User
        /\ ended' \subseteq User \ exiting' /\ ended' \ ended = {}
    BY <1>1, <1>13 DEF terminateCurrentTask
  <2>. QED BY <2>1, ExitInv
<1>14. CASE leaveOpenFileManager(t)
  <2>1. /\ UNCHANGED <<of, ior, thr, panic, fifo, offset>> /\ exiting' \subseteq User
        /\ ended' \subseteq User \ exiting' /\ ended' \ ended \subseteq {t}
        /\ thr[t].pc = "run" /\ OwnIO(t) = {}
    BY <1>1, <1>14 DEF leaveOpenFileManager, Exits, NoRequestLeft
  <2>2. \A u \in ended' \ ended : thr[u] = Idle /\ OwnIO(u) = {}
    BY <1>2, <2>1
  <2>. QED BY <2>1, <2>2, ExitInv
<1>15. CASE closeAllOpenFileRequest(t)
  <2>1. Exits(t) /\ NoRequestLeft(t) /\ User \ ended = {t} /\ t \notin ended /\ thr[t].pc = "run"
    BY <1>1, <1>15 DEF closeAllOpenFileRequest, Exits
  <2>2. CASE (\E h \in Handle : FindFile(t, h, "close")) /\ UNCHANGED exitVars
    <3>1. "close" \in Calling
      BY DEF Calling
    <3>. QED BY <2>1, <2>2, <3>1, FindFileInv
  <2>3. CASE /\ \E h \in Handle : /\ of[h].state = "listed" /\ ~Closable(of[h])
                                  /\ of' = [of EXCEPT ![h].state = "left"]
             /\ UNCHANGED <<ior, thr, exitVars, panic>>
    <3>1. UNCHANGED <<ior, thr, exitVars, panic, fifo, offset>>
      BY <2>3
    <3>. QED BY <2>1, <2>3, <3>1, LeftInv
  <2>4. CASE /\ ended' = ended \cup {t} /\ exiting' = exiting \ {t}
             /\ UNCHANGED <<of, ior, thr, panic>>
    <3>1. /\ UNCHANGED <<of, ior, thr, panic, fifo, offset>> /\ exiting' \subseteq User
          /\ ended' \subseteq User \ exiting' /\ ended' \ ended \subseteq {t}
          /\ thr[t].pc = "run" /\ OwnIO(t) = {}
      BY <1>1, <2>1, <2>4 DEF NoRequestLeft
    <3>2. \A u \in ended' \ ended : thr[u] = Idle /\ OwnIO(u) = {}
      BY <1>2, <3>1
    <3>. QED BY <3>1, <3>2, ExitInv
  <2>. QED BY <1>15, <2>2, <2>3, <2>4 DEF closeAllOpenFileRequest
<1>16. ASSUME NEW u \in User, createUserThread(t, u)
       PROVE  FilesInv'
  <2>1. /\ UNCHANGED <<of, ior, thr, panic, fifo, offset>> /\ exiting' \subseteq User
        /\ ended' \subseteq User \ exiting' /\ ended' \ ended = {}
    BY <1>1, <1>16 DEF createUserThread
  <2>. QED BY <2>1, ExitInv
<1>. QED BY <1>3, <1>4, <1>5, <1>6, <1>7, <1>8, <1>9, <1>10, <1>11, <1>12, <1>13, <1>14, <1>15, <1>16 DEF FileLayer

-----------------------------------------------------------------------------
\* The services

\* The service has the answer to the request of the thread.
LEMMA AnswerInv ==
    ASSUME FilesInv, panic = "none", NEW t \in User, Serves(thr[t]), thr[t].pc \in {"service", "position", "loop"},
           NEW x \in ThreadRec, x.pc = "count", x.todo = <<thr[t].req>>, x.back \in {"run", "free"},
           x.file = thr[t].file, thr' = [thr EXCEPT ![t] = x], ior' = Step(thr[t].req, "claimed"),
           NEW f \in FileRec, of' = [of EXCEPT ![thr[t].file] = f], CountOK(f, Uses(thr[t].file)),
           Open(f) => Open(of[thr[t].file]) \/ Opens(thr[t]), f.state = "left" => f.refused,
           UNCHANGED exitVars, panic' \in Panic, ListsKept, ReadsKept(x), FIFOTypeOK',
           offset' \in [Handle -> Nat], \A g \in Handle : thr[t].pc = "loop" /\ thr[t].file = g => ~Busy(g)'
    PROVE  FilesInv'
<1>. DEFINE h == thr[t].file
            r == thr[t].req
            y == [ior[r] EXCEPT !.step = "claimed"]
<1>1. /\ t \in Thread /\ t \notin ended /\ h \in Handle /\ Uses(h) \in Nat /\ thr[t].pc # "run"
      /\ r \in Request /\ ior[r].step = "service" /\ ior[r].file = h /\ ior[r] \in IORec
      /\ thr[t].back = "loop" => thr[t].pc = "loop"
  BY Starts DEF ThreadOK
<1>2. y \in IORec /\ y.step = "claimed" /\ y.file = h /\ y.task = ior[r].task
  BY <1>1 DEF IORec, RequestStep
<1>3. ior' = [ior EXCEPT ![r] = y] /\ thr[t].file = h /\ thr[t].req = r
  BY DEF Step
<1>. HIDE DEF h, r, y
<1>4. Move(t, x, r, y, h, f)
  BY <1>1, <1>2, <1>3 DEF Move
<1>5. MoveThread(t, x, r, y)
  <2>1. [ior EXCEPT ![r] = y][r] = y
    BY <1>1, Starts
  <2>2. Len(x.todo) = 1 /\ x.todo[1] = r
    BY SMT, <1>3
  <2>3. ~Serves(x) /\ ~Cancels(x)
    BY DEF Serves, Cancels
  <2>4. ThreadOK(x, [ior EXCEPT ![r] = y])
    BY SMT, <1>1, <1>2, <1>3, <2>1, <2>2, <2>3 DEF ThreadOK
  <2>5. OwnedBy(x) \subseteq {r} /\ r \in OwnedBy(thr[t])
    BY <1>1, <1>3, <2>2, <2>3 DEF OwnedBy
  <2>. QED BY <2>4, <2>5 DEF MoveThread
<1>6. MoveRequest(t, r, y)
  BY <1>1, <1>2 DEF MoveRequest
<1>7. MoveFile(t, x, r, y, h, f)
  BY <1>1, <1>2, <1>3 DEF MoveFile, Closes, Opens
<1>8. MoveUses(t, x, r, y, h, f, 0)
  <2>1. \A g \in Handle : One(CountsFor(y, g)) + One(CallsOn(x, g))
                          = One(CountsFor(ior[r], g)) + One(CallsOn(thr[t], g)) + IF g = h THEN 0 ELSE 0
    BY SMT, <1>1, <1>2 DEF One, CountsFor, CallsOn
  <2>. QED BY SMTT(20), <1>1, <1>3, <2>1 DEF MoveUses
<1>9. MoveLists(t, x, r, y)
  BY <1>1 DEF MoveLists, InAList
<1>10. MoveReads(t, x)
  BY <1>1, <1>3 DEF MoveReads, Processes
<1>. QED BY <1>4, <1>5, <1>6, <1>7, <1>8, <1>9, <1>10, MoveInv

LEMMA RefuseInv ==
    ASSUME FilesInv, panic = "none", NEW t \in User, thr[t].pc = "service", cancelFailedFileIO(t),
           UNCHANGED <<exitVars, fifo, offset>>
    PROVE  FilesInv'
<1>. DEFINE h == thr[t].file
            r == thr[t].req
            b == thr[t].op # "open"
            e == [of[h] EXCEPT !.refused = @ \/ b]
            f == IF panic' = "none" THEN Uncounted(e) ELSE of[h]
            x == IF b THEN [thr[t] EXCEPT !.pc = "undo"] ELSE Idle
<1>1. /\ t \in Thread /\ t \notin ended /\ h \in Handle /\ of[h] \in FileRec /\ thr[t] \in ThreadRec
      /\ r \in Request /\ ior[r].file = h /\ ior[r].step = "service" /\ thr[t].back # "loop"
      /\ Uses(h) \in Nat /\ CountOK(of[h], Uses(h)) /\ r \in OwnedBy(thr[t])
  BY Starts DEF ThreadOK, Serves, OwnedBy
<1>2. /\ ior' = [ior EXCEPT ![r] = NoIO] /\ of' = [of EXCEPT ![h] = f] /\ thr' = [thr EXCEPT ![t] = x]
      /\ panic' = UncountPanic(of[h])
  <2>1. of' = [of EXCEPT ![h] = f] /\ ior' = [ior EXCEPT ![r] = NoIO] /\ panic' = UncountPanic(of[h])
    BY DEF cancelFailedFileIO
  <2>2. (IF thr[t].op = "open" THEN Idle ELSE [thr[t] EXCEPT !.pc = "undo"]) = x
    OBVIOUS
  <2>3. thr' = [thr EXCEPT ![t] = IF thr[t].op = "open" THEN Idle ELSE [thr[t] EXCEPT !.pc = "undo"]]
    BY DEF cancelFailedFileIO
  <2>. QED BY <2>1, <2>2, <2>3
<1>3. panic' \in Panic
  BY <1>2 DEF UncountPanic, Panic
<1>4. /\ NoIO \in IORec /\ NoIO.step = "none" /\ Idle \in ThreadRec /\ Idle.pc = "run" /\ Idle.file = NoHandle
      /\ Idle.back = "run"
  BY NoIOTyped, IdleOK DEF NoIO, Idle
<1>5. /\ x \in ThreadRec /\ b \in BOOLEAN /\ (b => x.pc = "undo" /\ x.file = h /\ x.back # "loop")
      /\ ~b => x = Idle
  BY <1>1, <1>4 DEF ThreadRec, ThreadStep
<1>6. /\ e \in FileRec /\ (b => e.refused) /\ (~b => e.refused = of[h].refused) /\ e.ioCount = of[h].ioCount
      /\ e.deleteOnCompletion = of[h].deleteOnCompletion /\ e.state = of[h].state
      /\ of[h].refused => e.refused
  BY <1>1, <1>5 DEF FileRec
<1>7. Uses(h) >= 1
  BY <1>1, UsesBounds DEF CountsFor
<1>. HIDE DEF e
<1>8. CountOK(e, Uses(h)) /\ UncountPanic(e) = UncountPanic(of[h])
  BY <1>1, <1>6 DEF CountOK, UncountPanic, Accepts
<1>9. /\ f \in FileRec
      /\ panic' = "none" => /\ CountOK(f, Uses(h) - 1) /\ (Open(f) => Open(e)) /\ f = Uncounted(e)
                            /\ f.state = "left" => e.state = "left" /\ f.refused = e.refused
  <2>1. CASE panic' = "none"
    BY <1>1, <1>2, <1>6, <1>7, <1>8, <2>1, UncountedOK
  <2>2. CASE panic' # "none"
    BY <1>1, <2>2
  <2>. QED BY <2>1, <2>2
<1>10. panic' = "none" => f.refused = e.refused
  BY <1>6, <1>9 DEF Uncounted, NoFile, FileRec
<1>11. of[h].state = "left" => of[h].refused
  BY <1>1 DEF FilesInv, FilesCore, NoneLeft
<1>12. thr[t].file = h /\ thr[t].req = r
  OBVIOUS
<1>. HIDE DEF h, r, b, f, x
<1>13. Move(t, x, r, NoIO, h, f)
  BY <1>1, <1>2, <1>4, <1>5, <1>9 DEF Move
<1>14. FIFOTypeOK' /\ offset' \in [Handle -> Nat]
  BY SameFIFO
<1>15. CASE panic' = "none"
  <2>1. MoveThread(t, x, r, NoIO)
    <3>1. CASE ~b
      BY <1>1, <1>5, <3>1, IdleOK DEF MoveThread
    <3>2. CASE b
      BY <1>1, <1>5, <3>2 DEF MoveThread, ThreadOK, OwnedBy, Serves, Cancels, Completes
    <3>. QED BY <3>1, <3>2
  <2>2. MoveRequest(t, r, NoIO)
    BY <1>4 DEF MoveRequest
  <2>3. MoveFile(t, x, r, NoIO, h, f)
    <3>1. Open(f) => Open(of[h])
      BY <1>6, <1>9, <1>15 DEF Open
    <3>2. f.state = "left" => f.refused
      BY <1>6, <1>9, <1>11, <1>15
    <3>3. ~Closes(x) /\ ~Opens(x) /\ (x.file = thr[t].file \/ x.file = NoHandle)
      BY <1>4, <1>5, <1>12 DEF Closes, Opens
    <3>. QED BY <1>4, <1>12, <3>1, <3>2, <3>3 DEF MoveFile
  <2>4. \E d : MoveUses(t, x, r, NoIO, h, f, d)
    <3>1. CASE ~b
      <4>1. CountOK(f, Uses(h) + (-1))
        BY <1>1, <1>9, <1>15 DEF CountOK
      <4>2. \A g \in Handle : One(CountsFor(NoIO, g)) + One(CallsOn(x, g))
                              = One(CountsFor(ior[r], g)) + One(CallsOn(thr[t], g)) + IF g = h THEN -1 ELSE 0
        BY SMT, <1>1, <1>4, <1>5, <3>1 DEF One, CountsFor, CallsOn
      <4>3. MoveUses(t, x, r, NoIO, h, f, -1)
        BY <4>1, <4>2 DEF MoveUses
      <4>. QED BY <4>3
    <3>2. CASE b
      <4>1. CountOK(f, Uses(h) + 0)
        BY <1>6, <1>10, <1>15, <3>2 DEF CountOK
      <4>2. \A g \in Handle : One(CountsFor(NoIO, g)) + One(CallsOn(x, g))
                              = One(CountsFor(ior[r], g)) + One(CallsOn(thr[t], g)) + IF g = h THEN 0 ELSE 0
        BY SMT, <1>1, <1>4, <1>5, <3>2 DEF One, CountsFor, CallsOn
      <4>3. MoveUses(t, x, r, NoIO, h, f, 0)
        BY <4>1, <4>2 DEF MoveUses
      <4>. QED BY <4>3
    <3>. QED BY <1>5, <3>1, <3>2
  <2>5. MoveLists(t, x, r, NoIO)
    BY <1>1, <1>4, <1>5, SameFIFO DEF MoveLists, InAList
  <2>6. MoveReads(t, x)
    BY <1>1, SameFIFO DEF MoveReads, Processes
  <2>. QED BY <1>3, <1>13, <2>1, <2>2, <2>3, <2>4, <2>5, <2>6, MoveInv
<1>16. CASE panic' # "none"
  BY <1>3, <1>13, <1>14, <1>16, PanicInv
<1>. QED BY <1>15, <1>16

\* The FIFO of h changes to e.
LEMMA FIFOStep ==
    ASSUME FilesInv, NEW x, NEW h \in Handle, NEW e, fifo' = [fifo EXCEPT ![h] = e],
           e.pendingRead \in {<<>>, fifo[h].pendingRead},
           e \in [alive : BOOLEAN, elements : 0..MaxElements, pendingRead : Seq(Request)],
           \/ e.elements \in {0, fifo[h].elements} \/ (x.file = h /\ Processes(x))
    PROVE  ListsKept /\ ReadsKept(x) /\ FIFOTypeOK'
<1>1. fifo \in [Handle -> [alive : BOOLEAN, elements : 0..MaxElements, pendingRead : Seq(Request)]]
  BY DEF FilesInv, FilesTypeOK, FIFOTypeOK
<1>2. FIFOTypeOK'
  BY <1>1 DEF FIFOTypeOK
<1>3. fifo'[h] = e /\ \A g \in Handle : g # h => fifo'[g] = fifo[g]
  BY <1>1
<1>4. ListsKept
  BY <1>3 DEF ListsKept
<1>5. ReadsKept(x)
  BY SMT, <1>3 DEF ReadsKept, Busy
<1>. QED BY <1>2, <1>4, <1>5

LEMMA OffsetTyped == FilesInv => offset \in [Handle -> Nat]
BY DEF FilesInv, FilesTypeOK

\* CompleteNext with the request of the thread.
Answering(w, back) == [w EXCEPT !.pc = "count", !.todo = <<w.req>>, !.back = back]
LEMMA AnswerThread ==
    ASSUME NEW w \in ThreadRec, w.req \in Request, NEW back \in {"run", "free"}
    PROVE  /\ Answering(w, back) \in ThreadRec /\ Answering(w, back).pc = "count"
           /\ Answering(w, back).todo = <<w.req>> /\ Answering(w, back).back = back
           /\ Answering(w, back).file = w.file
<1>1. "count" \in ThreadStep /\ back \in {"run", "loop", "free"}
  BY DEF ThreadStep
<1>2. <<w.req>> \in Seq(Request)
  BY SMT
<1>. QED BY <1>1, <1>2 DEF ThreadRec, Answering

LEMMA completeOpenFileInv ==
    ASSUME FilesInv, panic = "none", NEW t \in User, Opens(thr[t]), completeOpenFile(t), UNCHANGED exitVars,
           ListsKept, FIFOTypeOK', offset' \in [Handle -> Nat], \A x : ReadsKept(x)
    PROVE  FilesInv'
<1>. DEFINE h == thr[t].file
            x == Answering(thr[t], "run")
            f == initOpenedFile2(of[h])
<1>1. /\ thr[t] \in ThreadRec /\ Serves(thr[t]) /\ thr[t].pc = "service" /\ thr[t].req \in Request /\ h \in Handle
      /\ of[h] \in FileRec /\ Uses(h) \in Nat /\ CountOK(of[h], Uses(h)) /\ panic \in Panic
  BY Starts DEF ThreadOK, Serves, Opens
<1>2. thr' = [thr EXCEPT ![t] = x]
  BY DEF completeOpenFile, CompleteNext, Answering
<1>3. of' = [of EXCEPT ![h] = f] /\ ior' = Step(thr[t].req, "claimed") /\ panic' = panic
  BY DEF completeOpenFile
<1>4. x \in ThreadRec /\ x.pc = "count" /\ x.todo = <<thr[t].req>> /\ x.back = "run" /\ x.file = h
  BY <1>1, AnswerThread
<1>5. /\ f \in FileRec /\ f.state = "listed" /\ f.deleteOnCompletion = FALSE /\ f.ioCount = of[h].ioCount
      /\ f.refused = of[h].refused
  BY <1>1 DEF FileRec, initOpenedFile2
<1>. HIDE DEF x, f
<1>6. CountOK(f, Uses(h))
  BY <1>1, <1>5 DEF CountOK
<1>. QED BY <1>1, <1>2, <1>3, <1>4, <1>5, <1>6, AnswerInv

LEMMA completeCloseFileInv ==
    ASSUME FilesInv, panic = "none", NEW t \in User, thr[t].pc = "service", NEW back \in {"run", "free"},
           completeCloseFile(t, back), UNCHANGED exitVars,
           ListsKept, FIFOTypeOK', offset' \in [Handle -> Nat], \A x : ReadsKept(x)
    PROVE  FilesInv'
<1>. DEFINE h == thr[t].file
            x == Answering(thr[t], back)
            f == removeFromOpenFileList(of[h])
<1>1. /\ thr[t] \in ThreadRec /\ Serves(thr[t]) /\ thr[t].req \in Request /\ h \in Handle
      /\ of[h] \in FileRec /\ Uses(h) \in Nat /\ CountOK(of[h], Uses(h))
  BY Starts DEF ThreadOK, Serves
<1>2. thr' = [thr EXCEPT ![t] = x]
  BY DEF completeCloseFile, CompleteNext, Answering
<1>3. of' = [of EXCEPT ![h] = f] /\ ior' = Step(thr[t].req, "claimed") /\ panic' \in Panic
  BY DEF completeCloseFile, Panic
<1>4. x \in ThreadRec /\ x.pc = "count" /\ x.todo = <<thr[t].req>> /\ x.back = back /\ x.file = h
  BY <1>1, AnswerThread
<1>5. /\ f \in FileRec /\ f.state = "closing" /\ f.deleteOnCompletion = of[h].deleteOnCompletion
      /\ f.ioCount = of[h].ioCount /\ f.refused = of[h].refused
  BY <1>1 DEF FileRec, removeFromOpenFileList
<1>. HIDE DEF x, f
<1>6. CountOK(f, Uses(h)) /\ ~Open(f)
  BY <1>1, <1>5 DEF CountOK, Open
<1>. QED BY <1>1, <1>2, <1>3, <1>4, <1>5, <1>6, AnswerInv

LEMMA completeRequestInv ==
    ASSUME FilesInv, panic = "none", NEW t \in User, Serves(thr[t]), thr[t].pc \in {"service", "loop"},
           completeRequest(t), UNCHANGED <<exitVars, fifo, offset>>, thr[t].pc = "loop" => ~Busy(thr[t].file)
    PROVE  FilesInv'
<1>. DEFINE h == thr[t].file
            x == Answering(thr[t], "run")
<1>1. /\ thr[t] \in ThreadRec /\ thr[t].req \in Request /\ h \in Handle
      /\ of[h] \in FileRec /\ Uses(h) \in Nat /\ CountOK(of[h], Uses(h)) /\ panic \in Panic
  BY Starts DEF ThreadOK
<1>2. thr' = [thr EXCEPT ![t] = x]
  BY DEF completeRequest, CompleteNext, Answering
<1>3. of' = [of EXCEPT ![h] = of[h]] /\ ior' = Step(thr[t].req, "claimed") /\ panic' = panic
  BY Starts DEF completeRequest
<1>4. x \in ThreadRec /\ x.pc = "count" /\ x.todo = <<thr[t].req>> /\ x.back = "run" /\ x.file = h
  BY <1>1, AnswerThread
<1>5. of[h].state = "left" => of[h].refused
  BY <1>1 DEF FilesInv, FilesCore, NoneLeft
<1>. HIDE DEF x
<1>6. ListsKept /\ ReadsKept(x) /\ FIFOTypeOK' /\ offset' \in [Handle -> Nat] /\ \A g : Busy(g)' = Busy(g)
  BY SameFIFO
<1>. QED BY <1>1, <1>2, <1>3, <1>4, <1>5, <1>6, AnswerInv
==============================================================================
