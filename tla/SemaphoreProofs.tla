--------------------------- MODULE SemaphoreProofs ---------------------------
(***************************************************************************)
(* The semaphore's invariant is inductive: one lemma per action, each      *)
(* reused by the components that take these actions.                       *)
(***************************************************************************)
EXTENDS Semaphore, Integers, TLAPS

\* A leaf that cites no prover is first-order and goes to Zenon; arithmetic and sequences
\* go to SMT.
USE Zenon

\* What popQueue leaves of a non-empty queue.
LEMMA TailFacts ==
    ASSUME NEW S, NEW q \in Seq(S), q # <<>>
    PROVE  /\ Head(q) \in S
           /\ Head(q) = q[1]
           /\ Len(q) \in Nat \ {0}
           /\ Tail(q) \in Seq(S)
           /\ Len(Tail(q)) = Len(q) - 1
           /\ \A i \in 1..Len(Tail(q)) : Tail(q)[i] = q[i + 1]
BY SMT

\* What pushQueue makes of a queue.
LEMMA AppendFacts ==
    ASSUME NEW S, NEW q \in Seq(S), NEW e \in S
    PROVE  /\ Append(q, e) \in Seq(S)
           /\ Append(q, e) # <<>>
           /\ Len(Append(q, e)) = Len(q) + 1
           /\ \A i \in 1..Len(q) : Append(q, e)[i] = q[i]
           /\ Append(q, e)[Len(q) + 1] = e
BY SMT

LEMMA ConcatFacts ==
    ASSUME NEW S, NEW p \in Seq(S), NEW q \in Seq(S)
    PROVE  /\ p \o q \in Seq(S) /\ Len(p \o q) = Len(p) + Len(q)
           /\ \A i \in 1..Len(p) + Len(q) : (p \o q)[i] = IF i <= Len(p) THEN p[i] ELSE q[i - Len(p)]
BY SMT

LEMMA SubSeqFacts ==
    ASSUME NEW S, NEW q, NEW m \in Int, NEW n \in Int, \A i \in m..n : q[i] \in S
    PROVE  /\ SubSeq(q, m, n) \in Seq(S)
           /\ Len(SubSeq(q, m, n)) = IF m <= n THEN n - m + 1 ELSE 0
           /\ \A i \in 1..n - m + 1 : SubSeq(q, m, n)[i] = q[m + i - 1]
BY SMT

LEMMA SameSeq ==
    ASSUME NEW S, NEW p \in Seq(S), NEW q \in Seq(S), Len(p) = Len(q), \A i \in 1..Len(p) : p[i] = q[i]
    PROVE  p = q
BY SMT

LEMMA SemInitInv == SemInit => SemInv
BY SMT, SemaphoreAssumption DEF SemInit, SemInv, SemTypeOK, QueueHoldsWaiters, NoIdlePermit, Status

LEMMA AcquirePermitInv ==
    ASSUME NEW t \in Task, SemInv, AcquirePermit(t)
    PROVE  SemInv'
BY SMT DEF AcquirePermit, SemInv, SemTypeOK, QueueHoldsWaiters, NoIdlePermit, Status

LEMMA ReturnFromBlockInv ==
    ASSUME NEW t \in Task, SemInv, ReturnFromBlock(t)
    PROVE  SemInv'
BY SMT DEF ReturnFromBlock, SemInv, SemTypeOK, QueueHoldsWaiters, NoIdlePermit, Status

LEMMA BlockInv ==
    ASSUME NEW t \in Task, SemInv, Block(t)
    PROVE  SemInv'
<1>1. SemTypeOK'
  BY SMT DEF Block, SemInv, SemTypeOK, Status
<1>2. QueueHoldsWaiters'
  <2>1. /\ Len(taskQueue') = Len(taskQueue) + 1
        /\ \A i \in 1..Len(taskQueue) : taskQueue'[i] = taskQueue[i]
        /\ taskQueue'[Len(taskQueue) + 1] = t
    BY SMT DEF Block, SemInv, SemTypeOK
  <2>2. \A i \in 1..Len(taskQueue) : taskQueue[i] \in Task /\ taskQueue[i] # t
    BY SMT DEF Block, SemInv, SemTypeOK, QueueHoldsWaiters
  <2>3. Len(taskQueue) \in Nat
    BY SMT DEF SemInv, SemTypeOK
  <2>. QED
    BY SMT, <2>1, <2>2, <2>3 DEF Block, SemInv, SemTypeOK, QueueHoldsWaiters
<1>3. NoIdlePermit'
  BY DEF Block, NoIdlePermit
<1>. QED
  BY <1>1, <1>2, <1>3 DEF SemInv

LEMMA ReleaseInv ==
    ASSUME SemInv, Release
    PROVE  SemInv'
<1>1. CASE taskQueue = <<>>
  BY SMT, <1>1 DEF Release, SemInv, SemTypeOK, QueueHoldsWaiters, NoIdlePermit, Status
<1>2. CASE taskQueue # <<>>
  <2>. DEFINE h == Head(taskQueue)
  <2>1. /\ h \in Task
        /\ h = taskQueue[1]
        /\ Len(taskQueue) \in Nat \ {0}
        /\ taskQueue' \in Seq(Task)
        /\ Len(taskQueue') = Len(taskQueue) - 1
        /\ \A i \in 1..Len(taskQueue') : taskQueue'[i] = taskQueue[i + 1]
    <3>1. taskQueue \in Seq(Task) /\ taskQueue' = Tail(taskQueue)
      BY <1>2 DEF Release, SemInv, SemTypeOK
    <3>. QED BY <1>2, <3>1, TailFacts
  <2>2. SemTypeOK'
    BY <1>2, <2>1 DEF Release, SemInv, SemTypeOK, Status
  <2>3. \A i \in 1..Len(taskQueue') : taskQueue'[i] # h
    BY SMT, <2>1 DEF SemInv, QueueHoldsWaiters
  <2>4. \A i \in 1..Len(taskQueue') : status'[taskQueue'[i]] = "waiting"
    BY SMTT(20), <1>2, <2>1, <2>3 DEF Release, SemInv, SemTypeOK, QueueHoldsWaiters
  <2>5. ASSUME NEW t \in Task, status'[t] = "waiting"
        PROVE  \E i \in 1..Len(taskQueue') : taskQueue'[i] = t
    <3>1. t # h /\ status[t] = "waiting"
      BY <1>2, <2>1, <2>5 DEF Release, SemInv, SemTypeOK
    <3>2. PICK i \in 1..Len(taskQueue) : taskQueue[i] = t
      BY <3>1 DEF SemInv, QueueHoldsWaiters
    <3>3. i # 1
      BY <2>1, <3>1, <3>2
    <3>4. i - 1 \in 1..Len(taskQueue') /\ taskQueue'[i - 1] = t
      BY SMT, <2>1, <3>2, <3>3
    <3>. QED BY <3>4
  <2>6. \A i, j \in 1..Len(taskQueue') : taskQueue'[i] = taskQueue'[j] => i = j
    BY SMT, <2>1 DEF SemInv, QueueHoldsWaiters
  <2>7. NoIdlePermit'
    BY <1>2 DEF Release, SemInv, NoIdlePermit
  <2>. QED BY <2>2, <2>4, <2>5, <2>6, <2>7 DEF SemInv, QueueHoldsWaiters
<1>. QED BY <1>1, <1>2

LEMMA SemStutterInv ==
    ASSUME SemInv, UNCHANGED semVars
    PROVE  SemInv'
BY DEF SemInv, SemTypeOK, QueueHoldsWaiters, NoIdlePermit, semVars

\* The semaphore of exclusivelock.c queues each blocked task once, and never keeps
\* a permit in quota while a task is blocked on it.
THEOREM SemaphoreSafe == SemSpec => []SemInv
<1>1. SemInv /\ [SemNext]_semVars => SemInv'
  BY AcquirePermitInv, BlockInv, ReturnFromBlockInv, ReleaseInv, SemStutterInv DEF SemNext
<1>. QED BY SemInitInv, <1>1, PTL DEF SemSpec
=============================================================================
