-------------------------- MODULE TaskSwitchSafety ---------------------------
(***************************************************************************)
(* taskSwitch preserves the inductive invariant, and with it every step    *)
(* does: no two processors run on one stack, no task is lost, no switch is *)
(* interrupted, and the scheduler's assertions hold, for any number of     *)
(* processors, tasks and semaphores.                                       *)
(***************************************************************************)
EXTENDS TaskSwitchProofs

\* A leaf that cites no prover is first-order and goes to Zenon; arithmetic and sequences
\* go to SMT.
USE Zenon

----------------------------------------------------------------------------
\* taskSwitch

\* taskSwitch on the stack u gives up the current task, so that the ready queue is q for a
\* moment, and picks t.
Taken(c, u, t, q) ==
    /\ stack[c] = u /\ OthersSame(c, u) /\ UNCHANGED <<stack, sem, woken, terminateQueue>>
    /\ at[c] = "enter" /\ at'[c] = (IF t = u THEN "after" ELSE "switch")
    /\ irq[u] = "none" => irq'[u] = "none"
    /\ task[u] # "free" /\ task'[u] # "free"
    /\ \A d \in CPU : at[d] \notin {"switch", "after"}
    /\ tm[c].current = u /\ tm[c].after.old = u /\ tm'[c].current = t /\ tm'[c].after = tm[c].after
    /\ q = (IF tm[c].after.func = "NULL" THEN PushQueue(globalQueue, u) ELSE globalQueue)
    /\ NonEmpty(q) # {} /\ t = Head(q[First(q)])
    /\ globalQueue' = [q EXCEPT ![First(q)] = Tail(@)]
    /\ \A x \in Task : x # u => state'[x] = state[x]
    /\ tm[c].after.func # "NULL" => state'[u] = "SUSPENDED"

\* What moves: u from its processor to the ready queue or into transit, then t to the processor.
TwoMoves(c, u, t, kind, of, k, o) ==
    /\ kind[u] = "current" /\ of[u] = c
    /\ k[t] = "current" /\ o[t] = c
    /\ t # u => /\ kind[t] = "ready" /\ o[u] = c
                /\ k[u] = IF tm[c].after.func = "NULL" THEN "ready" ELSE "transit"
    /\ tm[c].after.func # "NULL" => t # u
    /\ \A x \in Task : x \notin {u, t} => k[x] = kind[x] /\ o[x] = of[x]

LEMMA TakeMoves ==
    ASSUME NEW kind, NEW of, Inv(kind, of), NEW c \in CPU, NEW u \in Task, NEW t, NEW q, Taken(c, u, t, q)
    PROVE  /\ t \in Task /\ globalQueue' \in [0..(NUMBER_OF_PRIORITIES - 1) -> Seq(Task)]
           /\ \E k \in [Task -> Kind], o \in [Task -> Owner] :
                 TwoMoves(c, u, t, kind, of, k, o) /\ ReadyOK(k)'
<1>1. /\ kind \in [Task -> Kind] /\ of \in [Task -> Owner] /\ ReadyAt(kind, globalQueue)
      /\ CurrentOK(kind, of) /\ globalQueue \in [0..(NUMBER_OF_PRIORITIES - 1) -> Seq(Task)]
  BY DEF Inv, PlacesOK, ReadyOK, CodeOK, TypeOK
<1>2. kind[u] = "current" /\ of[u] = c /\ c \in Owner
  BY SMT, <1>1 DEF Taken, CurrentOK, Owner
<1>3. PICK newKind \in Kind : newKind = IF tm[c].after.func = "NULL" THEN "ready" ELSE "transit"
  BY DEF Kind
<1>4. PICK k1 \in [Task -> Kind], o1 \in [Task -> Owner] : Moves(kind, of, u, newKind, c, k1, o1)
  BY <1>1, <1>2, MoveExists
<1>5. ReadyAt(k1, q) /\ q \in [0..(NUMBER_OF_PRIORITIES - 1) -> Seq(Task)]
  <2>1. CASE tm[c].after.func = "NULL"
    <3>1. q = PushQueue(globalQueue, u) /\ newKind = "ready" /\ kind[u] # "ready"
      BY <1>2, <1>3, <2>1 DEF Taken
    <3>2. Moves(kind, of, u, "ready", c, k1, o1)
      BY <1>4, <3>1
    <3>3. ReadyAt(k1, PushQueue(globalQueue, u))
      BY <1>1, <3>1, <3>2, ReadyPush
    <3>. QED BY <1>1, <3>1, <3>3, PushTyped
  <2>2. CASE tm[c].after.func # "NULL"
    <3>1. q = globalQueue /\ newKind = "transit"
      BY <1>3, <2>2 DEF Taken
    <3>2. \A p : Ready(k1, p) = Ready(kind, p)
      BY <1>2, <1>4, <3>1 DEF Moves, Ready
    <3>. QED BY <1>1, <3>1, <3>2 DEF ReadyAt
  <2>. QED BY <2>1, <2>2
<1>6. NonEmpty(q) # {} /\ t = Head(q[First(q)]) /\ globalQueue' = [q EXCEPT ![First(q)] = Tail(@)]
  BY DEF Taken
<1>7. /\ t \in Task /\ k1[t] = "ready"
      /\ globalQueue' \in [0..(NUMBER_OF_PRIORITIES - 1) -> Seq(Task)]
      /\ \A of0, newKind0, newOf, k, o :
            Moves(k1, of0, t, newKind0, newOf, k, o) /\ newKind0 # "ready" => ReadyAt(k, globalQueue')
  BY <1>5, <1>6, ReadyPop
<1>8. PICK k \in [Task -> Kind], o \in [Task -> Owner] : Moves(k1, o1, t, "current", c, k, o)
  <2>1. "current" \in Kind
    BY DEF Kind
  <2>. QED BY <1>2, <1>4, <1>7, <2>1, MoveExists
<1>9. ReadyOK(k)'
  <2>1. ReadyAt(k, globalQueue')
    BY <1>7, <1>8
  <2>. QED BY <2>1 DEF ReadyOK, ReadyAt
<1>10. TwoMoves(c, u, t, kind, of, k, o)
  BY <1>2, <1>3, <1>4, <1>7, <1>8 DEF TwoMoves, Moves
<1>. QED BY <1>7, <1>9, <1>10

LEMMA TakePlaces ==
    ASSUME NEW kind, NEW of, Inv(kind, of), NEW c \in CPU, NEW u \in Task, NEW t, NEW q, Taken(c, u, t, q)
    PROVE  \E k, o : PlacesOK(k, o)'
<1>1. PICK k \in [Task -> Kind], o \in [Task -> Owner] : TwoMoves(c, u, t, kind, of, k, o) /\ ReadyOK(k)'
  BY TakeMoves
<1>2. t \in Task
  BY TakeMoves
<1>3. CurrentOK(kind, of) /\ ReadyOK(kind) /\ InTransitOK(kind, of) /\ WaitingOK(kind, of)
      /\ WokenOK(kind, of) /\ TerminatedOK(kind) /\ FreeOK(kind) /\ AwayOK(kind) /\ TasksNamed /\ CpuOK(c)
  BY Named DEF Inv, PlacesOK, CodeOK, GoodCpus
<1>4. /\ kind[u] = "current" /\ of[u] = c /\ k[t] = "current" /\ o[t] = c
      /\ t # u => kind[t] = "ready" /\ k[u] \in {"ready", "transit"}
      /\ \A x \in Task : x \notin {u, t} => k[x] = kind[x] /\ o[x] = of[x]
  BY <1>1 DEF TwoMoves
<1>5. /\ UNCHANGED <<stack, sem, woken, terminateQueue>>
      /\ at[c] = "enter" /\ at'[c] = (IF t = u THEN "after" ELSE "switch")
      /\ \A d \in CPU : at[d] \notin {"switch", "after"}
      /\ \A d \in CPU : d # c => at'[d] = at[d] /\ tm'[d] = tm[d]
      /\ \A x \in Task : x # u => task'[x] = task[x] /\ irq'[x] = irq[x] /\ state'[x] = state[x]
  BY DEF Taken, OthersSame, FieldsSame, PlacesSame
<1>6. /\ tm[c].current = u /\ tm[c].after.old = u /\ tm'[c].current = t /\ tm'[c].after = tm[c].after
      /\ task[u] # "free" /\ task'[u] # "free" /\ stack[c] = u
  BY DEF Taken
<1>7. CurrentOK(k, o)'
  <2>1. ASSUME NEW x \in Task, k[x] = "current" PROVE o[x] \in CPU /\ tm'[o[x]].current = x
    <3>1. CASE x = t
      BY <1>4, <1>6, <3>1
    <3>2. CASE x # t
      <4>1. x # u /\ kind[x] = "current" /\ o[x] = of[x]
        BY <1>4, <2>1, <3>2
      <4>2. of[x] \in CPU /\ of[x] # c /\ tm[of[x]].current = x
        BY <1>3, <1>6, <4>1 DEF CurrentOK
      <4>. QED BY <1>5, <4>1, <4>2
    <3>. QED BY <3>1, <3>2
  <2>2. ASSUME NEW d \in CPU PROVE k[tm'[d].current] = "current" /\ o[tm'[d].current] = d
    <3>1. CASE d = c
      BY <1>4, <1>6, <3>1
    <3>2. CASE d # c
      <4>1. tm'[d].current = tm[d].current /\ tm[d].current \in Task
        BY <1>3, <1>5, <3>2 DEF TasksNamed
      <4>2. kind[tm[d].current] = "current" /\ of[tm[d].current] = d
        BY <1>3 DEF CurrentOK
      <4>3. tm[d].current \notin {u, t}
        BY <1>4, <3>2, <4>2
      <4>. QED BY <1>4, <4>1, <4>2, <4>3
    <3>. QED BY <3>1, <3>2
  <2>. QED BY <2>1, <2>2 DEF CurrentOK
<1>8. InTransitOK(k, o)'
  <2>1. ASSUME NEW x \in Task, k[x] = "transit"
        PROVE  /\ o[x] \in CPU /\ at'[o[x]] \in {"switch", "after", "func"}
               /\ tm'[o[x]].after.func # "NULL" /\ tm'[o[x]].after.old = x
    <3>1. CASE x = u
      <4>1. t # u /\ o[x] = c /\ tm[c].after.func # "NULL"
        BY <1>1, <1>4, <2>1, <3>1 DEF TwoMoves
      <4>. QED BY <1>5, <1>6, <3>1, <4>1
    <3>2. CASE x # u
      <4>1. kind[x] = "transit" /\ o[x] = of[x]
        BY <1>4, <2>1, <3>2
      <4>2. /\ of[x] \in CPU /\ at[of[x]] \in {"switch", "after", "func"}
            /\ tm[of[x]].after.func # "NULL" /\ tm[of[x]].after.old = x
        BY <1>3, <4>1 DEF InTransitOK
      <4>. QED BY SMT, <1>5, <4>1, <4>2
    <3>. QED BY <3>1, <3>2
  <2>2. ASSUME NEW d \in CPU, at'[d] \in {"switch", "after", "func"}, tm'[d].after.func # "NULL"
        PROVE  k[tm'[d].after.old] = "transit" /\ o[tm'[d].after.old] = d
    <3>1. CASE d = c
      BY <1>1, <1>6, <2>2, <3>1 DEF TwoMoves
    <3>2. CASE d # c
      <4>1. tm'[d] = tm[d] /\ at[d] \in {"switch", "after", "func"} /\ tm[d].after.func # "NULL"
        BY <1>5, <2>2, <3>2
      <4>2. tm[d].after.old \in Task /\ kind[tm[d].after.old] = "transit" /\ of[tm[d].after.old] = d
        BY <1>3, <4>1 DEF TasksNamed, Mine, InTransitOK
      <4>. QED BY <1>4, <4>1, <4>2
    <3>. QED BY <3>1, <3>2
  <2>. QED BY <2>1, <2>2 DEF InTransitOK
<1>9. WaitingOK(k, o)'
  <2>1. \A z : Waiting(k, o, z) = Waiting(kind, of, z)
    BY <1>4 DEF Waiting
  <2>2. \A x \in Task : k[x] = "waiting" => o[x] \in Sem
    BY <1>3, <1>4 DEF WaitingOK
  <2>. QED BY <1>3, <1>5, <2>1, <2>2 DEF WaitingOK
<1>10. WokenOK(k, o)'
  <2>1. \A x \in Task : k[x] = "woken" => kind[x] = "woken" /\ o[x] = of[x]
    BY <1>4
  <2>2. \A x \in Task : kind[x] = "woken" => k[x] = "woken" /\ o[x] = of[x]
    BY <1>4
  <2>. QED BY SMT, <1>3, <1>5, <2>1, <2>2 DEF WokenOK, TasksNamed
<1>11. TerminatedOK(k)'
  <2>1. Terminated(k) = Terminated(kind)
    BY <1>4 DEF Terminated
  <2>. QED BY <1>3, <1>5, <2>1 DEF TerminatedOK
<1>12. FreeOK(k)'
  BY SMT, <1>3, <1>4, <1>5, <1>6 DEF FreeOK
<1>13. AwayOK(k)'
  <2>1. ASSUME NEW x \in Task, k[x] \in {"transit", "waiting", "woken", "terminated"}
        PROVE  irq'[x] = "none" /\ state'[x] = "SUSPENDED"
    <3>1. CASE x = u
      <4>1. tm[c].after.func # "NULL"
        BY <1>1, <1>4, <2>1, <3>1 DEF TwoMoves
      <4>2. irq[u] = "none"
        BY <1>3, <1>5, <1>6, <4>1 DEF CpuOK, OldOK
      <4>. QED BY <3>1, <4>1, <4>2 DEF Taken
    <3>2. CASE x # u
      <4>1. x # t /\ kind[x] \in {"transit", "waiting", "woken", "terminated"}
        BY <1>4, <2>1, <3>2
      <4>. QED BY SMT, <1>3, <1>5, <3>2, <4>1 DEF AwayOK
    <3>. QED BY <3>1, <3>2
  <2>2. ASSUME NEW d \in CPU, at'[d] = "switch", tm'[d].after.func = "NULL" PROVE k[stack'[d]] = "ready"
    <3>1. d = c
      BY <1>5, <2>2
    <3>2. t # u
      BY <1>5, <2>2, <3>1
    <3>. QED BY SMTT(20), <1>1, <1>5, <1>6, <2>2, <3>1, <3>2 DEF TwoMoves
  <2>. QED BY <2>1, <2>2 DEF AwayOK
<1>14. PlacesOK(k, o)'
  BY <1>1, <1>7, <1>8, <1>9, <1>10, <1>11, <1>12, <1>13 DEF PlacesOK
<1>. QED BY <1>14

LEMMA TakeFacts ==
    ASSUME NEW kind, NEW of, Inv(kind, of), NEW c \in CPU, TakeNext(c)
    PROVE  \E u, t, q :
              /\ u \in Task /\ t \in Task
              /\ Taken(c, u, t, q) /\ StackOK(u) /\ CpuOK(c) /\ Moved(c, u, IF t = u THEN "after" ELSE "switch")
              /\ at[c] = IF irq[u] = "none" THEN task[u] ELSE irq[u]
<1>1. PICK u \in Task : /\ stack[c] = u /\ StackOK(u) /\ CpuOK(c)
                        /\ at[c] = IF irq[u] = "none" THEN task[u] ELSE irq[u]
  BY StepView
<1>2. /\ TypeOK /\ CodeOK /\ at[c] = At(c) /\ tm \in [CPU -> [current : Task, after : Switch]]
      /\ state \in [Task -> {"READY", "SUSPENDED"}]
      /\ globalQueue \in [0..(NUMBER_OF_PRIORITIES - 1) -> Seq(Task)]
  BY AtView DEF Inv, CodeOK, TypeOK
<1>3. at[c] = "enter" /\ globalLock.by = NoCPU /\ tm[c].current = u /\ tm[c].after.old = u
  <2>1. at[c] = "enter" /\ globalLock.by = NoCPU
    BY <1>2 DEF TakeNext
  <2>. QED BY <1>1, <2>1 DEF CpuOK, SwitchOK
<1>4. PICK q : q = IF tm[c].after.func = "NULL" THEN PushQueue(globalQueue, u) ELSE globalQueue
  OBVIOUS
<1>5. PICK t : t = Head(q[First(q)])
  OBVIOUS
<1>6. /\ NonEmpty(q) # {} /\ globalQueue' = [q EXCEPT ![First(q)] = Tail(@)]
      /\ tm' = [tm EXCEPT ![c].current = t]
      /\ Goto(c, IF t = u THEN "after" ELSE "switch")
      /\ state' = (IF tm[c].after.func = "NULL" THEN state ELSE [state EXCEPT ![u] = "SUSPENDED"])
      /\ intr' = [intr EXCEPT ![c] = FALSE]
      /\ UNCHANGED <<stack, sem, woken, ptr, want, terminateQueue>>
  <2>1. Pick(c, q, c)
    BY <1>3, <1>4 DEF TakeNext
  <2>2. /\ state' = (IF tm[c].after.func = "NULL" THEN state ELSE [state EXCEPT ![u] = "SUSPENDED"])
        /\ UNCHANGED <<stack, sem, woken, ptr, want, terminateQueue>>
    BY <1>3 DEF TakeNext
  <2>. QED BY <1>3, <1>5, <2>1, <2>2 DEF Pick
<1>7. FieldsSame(c, u) /\ tm'[c].current = t /\ tm'[c].after = tm[c].after
  BY SMT, <1>2, <1>6 DEF FieldsSame, TypeOK
<1>8. Moved(c, u, IF t = u THEN "after" ELSE "switch")
  <2>1. CASE t = u
    <3>1. "after" \in TaskStep \cup IrqStep /\ Goto(c, "after")
      BY <1>6, <2>1 DEF TaskStep, InSwitch
    <3>2. Moved(c, u, "after")
      BY <1>1, <1>7, <3>1, GotoMoved
    <3>. QED BY <2>1, <3>2
  <2>2. CASE t # u
    <3>1. "switch" \in TaskStep \cup IrqStep /\ Goto(c, "switch")
      BY <1>6, <2>2 DEF TaskStep, InSwitch
    <3>2. Moved(c, u, "switch")
      BY <1>1, <1>7, <3>1, GotoMoved
    <3>. QED BY <2>2, <3>2
  <2>. QED BY <2>1, <2>2
<1>9. /\ OthersSame(c, u) /\ at'[c] = (IF t = u THEN "after" ELSE "switch")
      /\ irq[u] = "none" => irq'[u] = "none"
      /\ task[u] # "free" /\ task'[u] # "free"
  BY <1>1, <1>3, <1>8 DEF Moved, StackOK
<1>10. \A d \in CPU : at[d] \notin {"switch", "after"}
  BY SMT, <1>2, <1>3, TaskSwitchAssumption DEF CodeOK, GlobalOK
<1>11. (\A x \in Task : x # u => state'[x] = state[x]) /\ (tm[c].after.func # "NULL" => state'[u] = "SUSPENDED")
  BY <1>2, <1>6
<1>12. Taken(c, u, t, q)
  BY <1>1, <1>3, <1>4, <1>5, <1>6, <1>7, <1>9, <1>10, <1>11 DEF Taken
<1>13. t \in Task
  BY <1>12, TakeMoves
<1>. QED BY <1>1, <1>8, <1>12, <1>13

LEMMA TakeNextInv ==
    ASSUME NEW kind, NEW of, Inv(kind, of), NEW c \in CPU, TakeNext(c)
    PROVE  IInv'
<1>0. PICK u \in Task, t \in Task : \E q :
          /\ Taken(c, u, t, q) /\ StackOK(u) /\ CpuOK(c) /\ Moved(c, u, IF t = u THEN "after" ELSE "switch")
          /\ at[c] = IF irq[u] = "none" THEN task[u] ELSE irq[u]
  BY TakeFacts
<1>1. PICK q :
          /\ Taken(c, u, t, q) /\ StackOK(u) /\ CpuOK(c) /\ Moved(c, u, IF t = u THEN "after" ELSE "switch")
          /\ at[c] = IF irq[u] = "none" THEN task[u] ELSE irq[u]
  BY <1>0
<1>2. TypeOK /\ CodeOK
  BY DEF Inv, CodeOK
<1>3. /\ intr' = [intr EXCEPT ![c] = FALSE] /\ globalLock' = [by |-> c, flag |-> intr[c]]
      /\ state' \in {state, [state EXCEPT ![u] = "SUSPENDED"]}
      /\ tm' = [tm EXCEPT ![c].current = t]
      /\ UNCHANGED <<stack, sem, woken, ptr, want, terminateQueue>>
  BY <1>1 DEF Taken, TakeNext, Pick
<1>4. /\ stack[c] = u /\ OthersSame(c, u) /\ at[c] = "enter" /\ at'[c] = (IF t = u THEN "after" ELSE "switch")
      /\ \A d \in CPU : at[d] \notin {"switch", "after"}
      /\ tm[c].current = u /\ tm[c].after.old = u /\ tm'[c].current = t /\ tm'[c].after = tm[c].after
  BY <1>1 DEF Taken
<1>5. /\ pc' \in [Task \X Level -> TaskStep \cup IrqStep]
      /\ irq[u] = "none" => task'[u] = at'[c] /\ irq'[u] = "none"
      /\ irq[u] # "none" => task'[u] = task[u] /\ irq'[u] = at'[c]
  BY <1>1, <1>4 DEF Moved
<1>6. TypeOK'
  <2>1. globalQueue' \in [0..(NUMBER_OF_PRIORITIES - 1) -> Seq(Task)]
    BY <1>1, TakeMoves
  <2>2. tm' \in [CPU -> [current : Task, after : Switch]]
    <3>1. tm \in [CPU -> [current : Task, after : Switch]]
      BY <1>2 DEF TypeOK
    <3>2. [tm[c] EXCEPT !.current = t] \in [current : Task, after : Switch]
      BY <3>1
    <3>3. tm' = [tm EXCEPT ![c] = [tm[c] EXCEPT !.current = t]]
      BY <1>3, <3>1
    <3>. QED BY <3>1, <3>2, <3>3
  <2>3. globalLock' \in [by : CPU \cup {NoCPU}, flag : BOOLEAN]
    BY <1>2, <1>3 DEF TypeOK
  <2>4. state' \in [Task -> {"READY", "SUSPENDED"}] /\ intr' \in [CPU -> BOOLEAN]
    BY <1>2, <1>3 DEF TypeOK
  <2>. QED BY <1>2, <1>3, <1>5, <2>1, <2>2, <2>3, <2>4 DEF TypeOK
<1>7. u \in GoodStacks'
  BY <1>1, <1>3, <1>4, <1>5 DEF GoodStacks, StackOK, TaskStep, IrqStep, InSwitch
<1>8. c \in GoodCpus'
  <2>1. intr'[c] = FALSE /\ stack'[c] = u
    BY <1>2, <1>3, <1>4 DEF TypeOK
  <2>2. RunOK(c)'
    BY <1>4, <2>1 DEF RunOK, InSwitch
  <2>3. SwitchOK(c)' /\ PtrOK(c)'
    BY <1>4, <2>1 DEF SwitchOK, PtrOK
  <2>4. OldOK(c)'
    BY <1>1, <1>4 DEF CpuOK, OldOK, Mine
  <2>. QED BY <2>2, <2>3, <2>4 DEF GoodCpus, CpuOK
<1>9. SavedOK' /\ GoodStacks' = Task /\ GoodCpus' = CPU
  BY SMTT(20), <1>2, <1>4, <1>7, <1>8, Exclusive, OthersKept
<1>10. GlobalOK'
  <2>1. intr[c] = FALSE
    BY <1>1, <1>2, <1>4 DEF CpuOK, RunOK, TypeOK
  <2>2. \A d \in CPU : d # c => at'[d] \notin {"switch", "after"}
    BY <1>4 DEF OthersSame, PlacesSame
  <2>3. at'[c] \in {"switch", "after"} /\ globalLock'.by = c /\ globalLock'.flag = FALSE
    BY <1>3, <1>4, <2>1
  <2>. QED BY <2>2, <2>3 DEF GlobalOK
<1>11. ExLockOK'
  <2>1. \A d \in CPU : (at'[d] \in Mine <=> at[d] \in Mine) /\ tm'[d].after = tm[d].after
    BY <1>4 DEF OthersSame, PlacesSame, FieldsSame, Mine
  <2>2. \A d \in CPU : \A z : Blocks(d, z)' <=> Blocks(d, z)
    BY <2>1 DEF Blocks
  <2>. QED BY <1>2, <1>3, <2>1, <2>2 DEF CodeOK, ExLockOK
<1>12. PICK k, o : PlacesOK(k, o)'
  BY <1>1, TakePlaces
<1>13. Inv(k, o)'
  BY <1>6, <1>9, <1>10, <1>11, <1>12 DEF Inv, CodeOK
<1>. QED BY <1>13 DEF IInv

\* contextSwitch goes on to a saved stack.
SwitchedTo(c, u, t) ==
    /\ stack[c] = u /\ tm[c].current = t /\ at[c] = "switch" /\ t # u
    /\ stack' = [stack EXCEPT ![c] = t] /\ at'[c] = "after" /\ \A d \in CPU : d # c => at'[d] = at[d]
    /\ \A x \in Task : x \notin {u, t} => task'[x] = task[x] /\ irq'[x] = irq[x]
    /\ irq[u] = "none" => task'[u] = "saved" /\ irq'[u] = "none"
    /\ irq[u] # "none" => task'[u] = task[u] /\ irq'[u] = "saved"
    /\ irq[t] = "none" => task'[t] = "after" /\ irq'[t] = "none"
    /\ irq[t] # "none" => task'[t] = task[t] /\ irq'[t] = "after"
    /\ UNCHANGED <<globalQueue, globalLock, state, tm, intr, sem, woken, ptr, want, terminateQueue>>

\* The task picked is not on a stack.
LEMMA PickedSaved ==
    ASSUME NEW kind, NEW of, Inv(kind, of), NEW c \in CPU, at[c] = "switch"
    PROVE  /\ tm[c].current \in Task /\ \A d \in CPU : stack[d] # tm[c].current
           /\ \/ irq[tm[c].current] = "none" /\ task[tm[c].current] = "saved"
              \/ irq[tm[c].current] = "saved"
           /\ kind[tm[c].current] = "current"
<1>1. \A d \in CPU : CpuOK(d)
  BY DEF Inv, CodeOK, GoodCpus
<1>2. tm[c].current \in Task /\ kind[tm[c].current] = "current" /\ of[tm[c].current] = c
  BY DEF Inv, CodeOK, TypeOK, PlacesOK, CurrentOK
<1>3. \A d \in CPU : stack[d] # tm[c].current
  <2>. TAKE d \in CPU
  <2>1. CASE d = c
    BY <1>1, <2>1 DEF CpuOK, SwitchOK
  <2>2. CASE d # c
    <3>1. at[d] # "switch"
      BY <2>2 DEF Inv, CodeOK, GlobalOK
    <3>2. stack[d] = tm[d].current
      BY <1>1, <3>1 DEF CpuOK, SwitchOK
    <3>3. of[tm[d].current] = d
      BY DEF Inv, PlacesOK, CurrentOK
    <3>. QED BY <1>2, <2>2, <3>2, <3>3
  <2>. QED BY <2>1, <2>2
<1>4. task[tm[c].current] # "free"
  BY <1>2 DEF Inv, PlacesOK, FreeOK
<1>. QED BY <1>2, <1>3, <1>4 DEF Inv, CodeOK, SavedOK

LEMMA SwitchFacts ==
    ASSUME NEW kind, NEW of, Inv(kind, of), NEW c \in CPU, ContextSwitch(c)
    PROVE  /\ pc' \in [Task \X Level -> TaskStep \cup IrqStep] /\ stack' \in [CPU -> Task]
           /\ \E u \in Task, t \in Task : SwitchedTo(c, u, t) /\ StackOK(u) /\ StackOK(t)
<1>1. PICK u \in Task : /\ stack[c] = u /\ StackOK(u) /\ CpuOK(c)
                        /\ at[c] = IF irq[u] = "none" THEN task[u] ELSE irq[u]
  BY StepView
<1>2. /\ TypeOK /\ CodeOK /\ at[c] = At(c) /\ stack \in [CPU -> Task]
      /\ pc \in [Task \X Level -> TaskStep \cup IrqStep]
      /\ \A x \in Task : <<x, "irq">> \in Task \X Level /\ <<x, "task">> \in Task \X Level
  BY AtView DEF Inv, CodeOK, TypeOK, Level
<1>3. at[c] = "switch"
  BY <1>2 DEF ContextSwitch
<1>4. PICK t \in Task : t = tm[c].current
  BY <1>3, PickedSaved
<1>5. t # u /\ StackOK(t) /\ \A d \in CPU : stack[d] # t
  BY <1>1, <1>2, <1>3, <1>4, PickedSaved DEF CodeOK, GoodStacks
<1>6. /\ pc' = [pc EXCEPT ![<<u, Top(u)>>] = "saved", ![<<t, Top(t)>>] = "after"]
      /\ stack' = [stack EXCEPT ![c] = t]
      /\ UNCHANGED <<globalQueue, globalLock, state, tm, intr, sem, woken, ptr, want, terminateQueue>>
  BY <1>1, <1>4 DEF ContextSwitch
<1>7. \A x \in Task : Top(x) = IF irq[x] = "none" THEN "task" ELSE "irq"
  BY DEF Top, irq
<1>8. /\ \A x \in Task : x \notin {u, t} => pc'[<<x, "task">>] = pc[<<x, "task">>] /\ pc'[<<x, "irq">>] = pc[<<x, "irq">>]
      /\ irq[u] = "none" => pc'[<<u, "task">>] = "saved" /\ pc'[<<u, "irq">>] = pc[<<u, "irq">>]
      /\ irq[u] # "none" => pc'[<<u, "task">>] = pc[<<u, "task">>] /\ pc'[<<u, "irq">>] = "saved"
      /\ irq[t] = "none" => pc'[<<t, "task">>] = "after" /\ pc'[<<t, "irq">>] = pc[<<t, "irq">>]
      /\ irq[t] # "none" => pc'[<<t, "task">>] = pc[<<t, "task">>] /\ pc'[<<t, "irq">>] = "after"
  BY <1>2, <1>5, <1>6, <1>7
<1>9. /\ \A x \in Task : x \notin {u, t} => task'[x] = task[x] /\ irq'[x] = irq[x]
      /\ irq[u] = "none" => task'[u] = "saved" /\ irq'[u] = "none"
      /\ irq[u] # "none" => task'[u] = task[u] /\ irq'[u] = "saved"
      /\ irq[t] = "none" => task'[t] = "after" /\ irq'[t] = "none"
      /\ irq[t] # "none" => task'[t] = task[t] /\ irq'[t] = "after"
  BY <1>8 DEF task, irq
<1>10. stack' \in [CPU -> Task] /\ stack'[c] = t /\ \A d \in CPU : d # c => stack'[d] = stack[d]
  BY <1>2, <1>6
<1>11. pc' \in [Task \X Level -> TaskStep \cup IrqStep]
  <2>1. "saved" \in TaskStep /\ "after" \in TaskStep
    BY DEF TaskStep, InSwitch
  <2>2. <<u, Top(u)>> \in Task \X Level /\ <<t, Top(t)>> \in Task \X Level
    BY <1>7 DEF Level
  <2>. QED BY <1>2, <1>6, <2>1, <2>2
<1>12. at'[c] = "after" /\ \A d \in CPU : d # c => at'[d] = at[d]
  <2>1. \A d \in CPU : at'[d] = IF irq'[stack'[d]] = "none" THEN task'[stack'[d]] ELSE irq'[stack'[d]]
    BY <1>10, NextAtView
  <2>2. \A d \in CPU : at[d] = IF irq[stack[d]] = "none" THEN task[stack[d]] ELSE irq[stack[d]]
    BY <1>2, AtView
  <2>3. \A d \in CPU : d # c => stack[d] \in Task /\ stack[d] # u /\ stack[d] # t
    BY <1>1, <1>2, <1>5, Exclusive
  <2>. QED BY SMTT(20), <1>9, <1>10, <2>1, <2>2, <2>3
<1>13. SwitchedTo(c, u, t)
  BY <1>1, <1>3, <1>4, <1>5, <1>6, <1>9, <1>12 DEF SwitchedTo
<1>. QED BY <1>1, <1>5, <1>10, <1>11, <1>13

LEMMA ContextSwitchCode ==
    ASSUME NEW kind, NEW of, Inv(kind, of), NEW c \in CPU, NEW u \in Task, NEW t \in Task,
           SwitchedTo(c, u, t), StackOK(u), StackOK(t),
           pc' \in [Task \X Level -> TaskStep \cup IrqStep], stack' \in [CPU -> Task]
    PROVE  CodeOK'
<1>1. /\ TypeOK /\ CodeOK /\ stack \in [CPU -> Task]
      /\ stack'[c] = t /\ stack[c] = u /\ \A d \in CPU : d # c => stack'[d] = stack[d]
  BY DEF Inv, CodeOK, TypeOK, SwitchedTo
<1>2. /\ at[c] = IF irq[u] = "none" THEN task[u] ELSE irq[u]
      /\ irq[t] = "none" => task[t] = "saved"
      /\ irq[t] \in {"none", "saved"} /\ at[c] = "switch" /\ tm[c].current = t
  <2>1. at[c] = "switch" /\ tm[c].current = t
    BY DEF SwitchedTo
  <2>2. at[c] = IF irq[u] = "none" THEN task[u] ELSE irq[u]
    BY <1>1, AtView
  <2>3. (irq[t] = "none" => task[t] = "saved") /\ irq[t] \in {"none", "saved"}
    BY <2>1, PickedSaved
  <2>. QED BY <2>1, <2>2, <2>3
<1>3. TypeOK'
  BY <1>1 DEF TypeOK, SwitchedTo
<1>4. SavedOK'
  <2>. SUFFICES ASSUME NEW x \in Task, \A d \in CPU : stack'[d] # x
                PROVE  \/ irq'[x] = "none" /\ task'[x] \in {"free", "saved"}
                       \/ irq'[x] = "saved"
    BY DEF SavedOK
  <2>1. CASE x = u
    BY <2>1 DEF SwitchedTo
  <2>2. CASE x # u
    <3>1. x # t /\ \A d \in CPU : stack[d] # x
      BY <1>1, <2>2
    <3>2. \/ irq[x] = "none" /\ task[x] \in {"free", "saved"}
          \/ irq[x] = "saved"
      BY <1>1, <3>1 DEF CodeOK, SavedOK
    <3>. QED BY <2>2, <3>1, <3>2 DEF SwitchedTo
  <2>. QED BY <2>1, <2>2
<1>5. \A x \in Task : StackOK(x)
  BY <1>1 DEF CodeOK, GoodStacks
<1>6. \A x \in Task : StackOK(x)'
  <2>. TAKE x \in Task
  <2>1. CASE x = u
    BY <1>2, <2>1 DEF StackOK, SwitchedTo, TaskStep, IrqStep, InSwitch
  <2>2. CASE x = t
    BY <1>2, <2>2 DEF StackOK, SwitchedTo, TaskStep, IrqStep, InSwitch
  <2>3. CASE x \notin {u, t}
    BY SMT, <1>5, <2>3 DEF StackOK, SwitchedTo
  <2>. QED BY <2>1, <2>2, <2>3
<1>7. \A d \in CPU : CpuOK(d)
  BY <1>1 DEF CodeOK, GoodCpus
<1>8. CpuOK(c)'
  <2>0. CpuOK(c) /\ intr' = intr
    BY <1>7 DEF SwitchedTo
  <2>1. intr'[c] = FALSE /\ at'[c] = "after"
    <3>1. intr[c] = FALSE
      BY <1>1, <1>2, <2>0 DEF CpuOK, RunOK, TypeOK
    <3>. QED BY <2>0, <3>1 DEF SwitchedTo
  <2>2. RunOK(c)' /\ PtrOK(c)'
    BY <2>1 DEF RunOK, PtrOK, InSwitch
  <2>3. SwitchOK(c)'
    BY <1>1, <1>2, <2>1 DEF SwitchOK, SwitchedTo
  <2>4. OldOK(c)'
    BY <1>2, <1>7, <2>1 DEF CpuOK, OldOK, SwitchedTo, Mine
  <2>. QED BY <2>2, <2>3, <2>4 DEF CpuOK
<1>9. ASSUME NEW d \in CPU, d # c PROVE CpuOK(d)'
  <2>1. stack[d] # u /\ stack[d] # t /\ stack[d] \in Task
    BY SMTT(20), <1>1, <1>2, <1>9, Exclusive, PickedSaved
  <2>2. stack'[d] = stack[d] /\ irq'[stack[d]] = irq[stack[d]] /\ at'[d] = at[d]
    BY <1>1, <1>9, <2>1 DEF SwitchedTo
  <2>3. RunOK(d) /\ SwitchOK(d) /\ PtrOK(d) /\ OldOK(d) /\ UNCHANGED <<tm, intr, ptr>>
    BY <1>7 DEF CpuOK, SwitchedTo
  <2>4. RunOK(d)'
    BY <2>2, <2>3 DEF RunOK
  <2>5. SwitchOK(d)'
    BY <2>2, <2>3 DEF SwitchOK
  <2>6. PtrOK(d)'
    BY <2>2, <2>3 DEF PtrOK
  <2>7. OldOK(d)'
    BY <2>2, <2>3 DEF OldOK
  <2>. QED BY <2>4, <2>5, <2>6, <2>7 DEF CpuOK
<1>10. GoodStacks' = Task /\ GoodCpus' = CPU
  BY <1>6, <1>8, <1>9 DEF GoodStacks, GoodCpus
<1>11. GlobalOK'
  BY <1>1 DEF CodeOK, GlobalOK, SwitchedTo
<1>12. ExLockOK'
  <2>1. \A d \in CPU : (at'[d] \in Mine <=> at[d] \in Mine)
    BY DEF SwitchedTo, Mine
  <2>2. \A d \in CPU : \A z : Blocks(d, z)' <=> Blocks(d, z)
    BY <2>1 DEF Blocks, SwitchedTo
  <2>3. tm' = tm /\ sem' = sem /\ ExLockOK
    BY <1>1 DEF SwitchedTo, CodeOK
  <2>. QED BY <2>1, <2>2, <2>3 DEF ExLockOK
<1>. QED BY <1>3, <1>4, <1>10, <1>11, <1>12 DEF CodeOK

LEMMA ContextSwitchInv ==
    ASSUME NEW kind, NEW of, Inv(kind, of), NEW c \in CPU, ContextSwitch(c)
    PROVE  Inv(kind, of)'
<1>1. PICK u \in Task, t \in Task : SwitchedTo(c, u, t) /\ StackOK(u) /\ StackOK(t)
  BY SwitchFacts
<1>2. CodeOK'
  BY <1>1, SwitchFacts, ContextSwitchCode
<1>3. TypeOK /\ PlacesOK(kind, of) /\ GlobalOK
  BY DEF Inv, CodeOK
<1>4. /\ at[c] = IF irq[u] = "none" THEN task[u] ELSE irq[u]
      /\ irq[t] = "none" => task[t] = "saved"
      /\ at[c] = "switch"
  BY <1>1, <1>3, AtView, PickedSaved DEF SwitchedTo
<1>5. UNCHANGED <<globalQueue, state, tm, sem, woken, terminateQueue>>
  BY <1>1 DEF SwitchedTo
<1>6. \A x \in Task : (irq[x] = "none" => irq'[x] = "none") /\ (task'[x] = "free" <=> task[x] = "free")
  BY SMT, <1>1, <1>4 DEF SwitchedTo
<1>7. \A d \in CPU : at'[d] \in {"switch", "after", "func"} <=> at[d] \in {"switch", "after", "func"}
  BY <1>1, <1>4 DEF SwitchedTo
<1>8. \A d \in CPU : at'[d] # "switch"
  BY SMTT(20), <1>1, <1>3, <1>4 DEF SwitchedTo, GlobalOK
<1>9. CurrentOK(kind, of)' /\ ReadyOK(kind)'
  BY <1>3, <1>5 DEF PlacesOK, CurrentOK, ReadyOK, ReadyAt
<1>10. InTransitOK(kind, of)'
  BY <1>3, <1>5, <1>7 DEF PlacesOK, InTransitOK
<1>11. WaitingOK(kind, of)' /\ WokenOK(kind, of)' /\ TerminatedOK(kind)'
  BY <1>3, <1>5 DEF PlacesOK, WaitingOK, WokenOK, TerminatedOK
<1>12. FreeOK(kind)' /\ AwayOK(kind)'
  BY <1>3, <1>5, <1>6, <1>8 DEF PlacesOK, FreeOK, AwayOK
<1>. QED BY <1>2, <1>3, <1>9, <1>10, <1>11, <1>12 DEF Inv, PlacesOK

LEMMA CallAfterInv ==
    ASSUME NEW kind, NEW of, Inv(kind, of), NEW c \in CPU, CallAfter(c)
    PROVE  IInv'
<1>1. \/ tm[c].after.func = "NULL"
      \/ tm[c].after.func = "afterExLock"
      \/ tm[c].after.func = "pushTerminateQueue"
  BY DEF CallAfter, afterExLock, pushTerminateQueue
<1>2. CASE tm[c].after.func = "NULL"
  BY <1>2, CallNothingInv DEF IInv
<1>3. CASE tm[c].after.func = "afterExLock"
  BY <1>3, CallExLockInv
<1>4. CASE tm[c].after.func = "pushTerminateQueue"
  BY <1>4, CallPushInv
<1>. QED BY <1>1, <1>2, <1>3, <1>4

LEMMA StutterInv ==
    ASSUME NEW kind, NEW of, Inv(kind, of), UNCHANGED vars
    PROVE  Inv(kind, of)'
<1>1. UNCHANGED <<globalQueue, globalLock, state, tm, stack, intr, sem, pc, woken, ptr, want, terminateQueue>>
  BY DEF vars
<1>2. task' = task /\ irq' = irq /\ at' = at
  BY <1>1 DEF task, irq, at, At, Top
<1>3. TypeOK' /\ SavedOK' /\ GlobalOK'
  BY <1>1, <1>2 DEF Inv, CodeOK, TypeOK, SavedOK, GlobalOK
<1>4. ExLockOK'
  BY <1>1, <1>2 DEF Inv, CodeOK, ExLockOK, Blocks
<1>5. GoodStacks' = Task
  <2>1. \A t \in Task : StackOK(t)' <=> StackOK(t)
    BY <1>1, <1>2 DEF StackOK
  <2>. QED BY <2>1 DEF Inv, CodeOK, GoodStacks
<1>6. GoodCpus' = CPU
  <2>1. \A c \in CPU : RunOK(c)' <=> RunOK(c)
    BY <1>1, <1>2 DEF RunOK
  <2>2. \A c \in CPU : SwitchOK(c)' <=> SwitchOK(c)
    BY <1>1, <1>2 DEF SwitchOK
  <2>3. \A c \in CPU : PtrOK(c)' <=> PtrOK(c)
    BY <1>1, <1>2 DEF PtrOK
  <2>4. \A c \in CPU : OldOK(c)' <=> OldOK(c)
    BY <1>1, <1>2 DEF OldOK
  <2>. QED BY <2>1, <2>2, <2>3, <2>4 DEF Inv, CodeOK, GoodCpus, CpuOK
<1>7. CurrentOK(kind, of)' /\ ReadyOK(kind)' /\ InTransitOK(kind, of)'
  BY <1>1, <1>2 DEF Inv, PlacesOK, CurrentOK, ReadyOK, ReadyAt, InTransitOK
<1>8. WaitingOK(kind, of)' /\ WokenOK(kind, of)' /\ TerminatedOK(kind)'
  BY <1>1 DEF Inv, PlacesOK, WaitingOK, WokenOK, TerminatedOK
<1>9. FreeOK(kind)' /\ AwayOK(kind)'
  BY <1>1, <1>2 DEF Inv, PlacesOK, FreeOK, AwayOK
<1>. QED BY <1>3, <1>4, <1>5, <1>6, <1>7, <1>8, <1>9 DEF Inv, CodeOK, PlacesOK

LEMMA SwitchStepInv ==
    ASSUME NEW kind, NEW of, Inv(kind, of), NEW c \in CPU, SwitchStep(c)
    PROVE  IInv'
<1>1. CASE TakeNext(c)
  BY <1>1, TakeNextInv
<1>2. CASE ContextSwitch(c)
  BY <1>2, ContextSwitchInv DEF IInv
<1>3. CASE ReleaseGlobal(c)
  BY <1>3, ReleaseGlobalInv DEF IInv
<1>4. CASE CallAfter(c)
  BY <1>4, CallAfterInv
<1>5. CASE FinishSwitch(c)
  BY <1>5, FinishSwitchInv DEF IInv
<1>. QED BY <1>1, <1>2, <1>3, <1>4, <1>5 DEF SwitchStep

LEMMA TaskNextInv ==
    ASSUME NEW kind, NEW of, Inv(kind, of), NEW c \in CPU, TaskNext(c)
    PROVE  IInv'
<1>1. ASSUME NEW s \in Sem, BeginAcquire(c, s) PROVE IInv'
  BY <1>1, BeginAcquireInv DEF IInv
<1>2. ASSUME NEW s \in Sem, releaseSemaphore(c, s) PROVE IInv'
  <2>1. CASE sem[s].queue = <<>>
    BY <1>2, <2>1, ReleaseQuotaInv DEF IInv
  <2>2. CASE sem[s].queue # <<>>
    BY <1>2, <2>2, ReleasePopInv
  <2>. QED BY <2>1, <2>2
<1>3. CASE AcquireStep(c)
  <2>1. CASE AcquireSucceeds(c)
    BY <2>1, AcquireSucceedsInv DEF IInv
  <2>2. CASE TryAcquireFails(c)
    BY <2>2, TryAcquireFailsInv DEF IInv
  <2>3. CASE AcquireBlocks(c)
    BY <2>3, AcquireBlocksInv DEF IInv
  <2>. QED BY <1>3, <2>1, <2>2, <2>3 DEF AcquireStep
<1>4. CASE resume(c)
  BY <1>4, ResumeInv
<1>5. ASSUME NEW t \in Worker, createKernelTask(c, t) PROVE IInv'
  BY <1>5, CreateInv
<1>6. CASE BeginTerminate(c)
  BY <1>6, BeginTerminateInv DEF IInv
<1>7. CASE ClearTerminateQueue(c)
  BY <1>7, ClearInv
<1>8. CASE EndOfTerminateQueue(c)
  BY <1>8, EndOfTerminateQueueInv DEF IInv
<1>9. CASE LastSwitch(c)
  BY <1>9, LastSwitchInv DEF IInv
<1>. QED BY <1>1, <1>2, <1>3, <1>4, <1>5, <1>6, <1>7, <1>8, <1>9 DEF TaskNext

LEMMA InterruptNextInv ==
    ASSUME NEW kind, NEW of, Inv(kind, of), NEW c \in CPU, InterruptNext(c)
    PROVE  IInv'
<1>1. CASE Interrupt(c)
  BY <1>1, InterruptInv DEF IInv
<1>2. CASE ReturnFromInterrupt(c)
  BY <1>2, ReturnFromInterruptInv DEF IInv
<1>3. CASE schedule(c)
  BY <1>3, ScheduleInv DEF IInv
<1>. QED BY <1>1, <1>2, <1>3 DEF InterruptNext

\* Every step of every processor preserves the inductive invariant.
LEMMA NextInv == IInv /\ [Next]_vars => IInv'
<1>. SUFFICES ASSUME IInv, [Next]_vars PROVE IInv'
  OBVIOUS
<1>1. PICK kind, of : Inv(kind, of)
  BY DEF IInv
<1>2. CASE Next
  <2>1. PICK c \in CPU : SwitchStep(c) \/ TaskNext(c) \/ InterruptNext(c)
    BY <1>2 DEF Next
  <2>. QED BY <1>1, <2>1, SwitchStepInv, TaskNextInv, InterruptNextInv
<1>3. CASE UNCHANGED vars
  BY <1>1, <1>3, StutterInv DEF IInv
<1>. QED BY <1>2, <1>3

\* initTaskManagement leaves each processor on the stack of its idle task, and the memory
\* for the other tasks free.
LEMMA InitCode ==
    ASSUME Init
    PROVE  /\ CodeOK /\ \A c \in CPU : at[c] = "run"
           /\ \A t \in Task : irq[t] = "none" /\ (task[t] = "free" <=> t \in Worker)
<1>1. \A t \in Task : <<t, "task">> \in Task \X Level /\ <<t, "irq">> \in Task \X Level
  BY DEF Level
<1>2. \A t \in Task : /\ pc[<<t, "irq">>] = "none"
                      /\ pc[<<t, "task">>] = IF t \in Idle THEN "run" ELSE "free"
  BY <1>1 DEF Init
<1>3. \A t \in Task : irq[t] = "none" /\ task[t] = IF t \in Idle THEN "run" ELSE "free"
  BY <1>2 DEF irq, task
<1>4. TypeOK
  <2>1. /\ globalQueue \in [0..(NUMBER_OF_PRIORITIES - 1) -> Seq(Task)]
        /\ globalLock \in [by : CPU \cup {NoCPU}, flag : BOOLEAN]
        /\ state \in [Task -> {"READY", "SUSPENDED"}]
        /\ intr \in [CPU -> BOOLEAN] /\ terminateQueue \in Seq(Worker)
    BY SMT DEF Init
  <2>2. NoSwitch \in Switch
    BY DEF NoSwitch, Switch
  <2>3. tm \in [CPU -> [current : Task, after : Switch]] /\ stack \in [CPU -> Task]
    BY <2>2, TaskSwitchAssumption DEF Init, Task
  <2>4. sem \in [Sem -> [quota : 0..MaxQuota, queue : Seq(Worker), locked : BOOLEAN,
                         flag : BOOLEAN, push : BOOLEAN]]
    <3>1. [quota |-> 0, queue |-> <<>>, locked |-> FALSE, flag |-> FALSE, push |-> FALSE] \in
             [quota : 0..MaxQuota, queue : Seq(Worker), locked : BOOLEAN,
              flag : BOOLEAN, push : BOOLEAN]
      BY SMT, TaskSwitchAssumption
    <3>. QED BY <3>1 DEF Init
  <2>5. pc \in [Task \X Level -> TaskStep \cup IrqStep]
    BY DEF Init, TaskStep, IrqStep
  <2>6. /\ woken \in [Task \X Level -> Worker \cup {NoTask}]
        /\ ptr \in [Task \X Level -> CPU \cup {NoCPU}] /\ want \in [Task -> Sem \cup {NoSem}]
    BY DEF Init
  <2>. QED BY <2>1, <2>3, <2>4, <2>5, <2>6 DEF TypeOK
<1>5. \A c \in CPU : stack[c] = IdleOf[c] /\ stack[c] \in Idle /\ stack[c] \in Task
  BY TaskSwitchAssumption DEF Init, Task
<1>6. \A c \in CPU : at[c] = "run"
  BY SMTT(20), <1>3, <1>4, <1>5, AtView
<1>7. \A t \in Task : task[t] = "free" <=> t \in Worker
  BY <1>3, TaskSwitchAssumption DEF Task
<1>8. SavedOK
  <2>. SUFFICES ASSUME NEW t \in Task, \A c \in CPU : stack[c] # t PROVE t \in Worker
    BY <1>3, <1>7 DEF SavedOK
  <2>. QED BY SMT, <1>5, TaskSwitchAssumption DEF Task
<1>9. GlobalOK
  BY <1>6, TaskSwitchAssumption DEF Init, GlobalOK
<1>10. ExLockOK
  BY <1>6 DEF ExLockOK, Blocks, Mine, Init
<1>11. \A t \in Task : StackOK(t)
  <2>. TAKE t \in Task
  <2>1. woken[<<t, "task">>] = NoTask /\ woken[<<t, "irq">>] = NoTask
    BY <1>1 DEF Init
  <2>. QED BY <1>3, <1>7, <2>1 DEF StackOK, TaskStep, IrqStep
<1>12. \A c \in CPU : CpuOK(c)
  <2>. TAKE c \in CPU
  <2>1. RunOK(c) /\ PtrOK(c)
    BY <1>3, <1>5, <1>6 DEF RunOK, PtrOK
  <2>2. SwitchOK(c) /\ OldOK(c)
    BY <1>5, <1>6 DEF SwitchOK, OldOK, Mine, Init
  <2>. QED BY <2>1, <2>2 DEF CpuOK
<1>. QED BY <1>3, <1>4, <1>6, <1>7, <1>8, <1>9, <1>10, <1>11, <1>12 DEF CodeOK, GoodStacks, GoodCpus

LEMMA InitInv == Init => IInv
<1>. SUFFICES ASSUME Init PROVE IInv
  OBVIOUS
<1>1. PICK kind : kind = [t \in Task |-> IF t \in Idle THEN "current" ELSE "free"]
  OBVIOUS
<1>2. PICK of : of = [t \in Task |-> IF t \in Idle THEN CHOOSE c \in CPU : t = IdleOf[c] ELSE BSP]
  OBVIOUS
<1>3. \A t \in Task : t \in Idle => of[t] \in CPU /\ t = IdleOf[of[t]]
  BY <1>2, TaskSwitchAssumption
<1>4. kind \in [Task -> Kind] /\ of \in [Task -> Owner]
  <2>1. kind \in [Task -> Kind]
    BY <1>1 DEF Kind
  <2>2. \A t \in Task : of[t] \in Owner
    BY <1>2, <1>3, TaskSwitchAssumption DEF Owner
  <2>. QED BY <1>2, <2>1, <2>2
<1>5. \A t \in Task : (t \in Idle => kind[t] = "current") /\ (t \in Worker => kind[t] = "free")
  BY <1>1, TaskSwitchAssumption
<1>6. \A t \in Task : t \in Idle \/ t \in Worker
  BY DEF Task
<1>7. CurrentOK(kind, of)
  <2>1. \A c \in CPU : tm[c].current = IdleOf[c] /\ IdleOf[c] \in Idle /\ IdleOf[c] \in Task
    BY TaskSwitchAssumption DEF Init, Task
  <2>2. \A t \in Task : kind[t] = "current" => t \in Idle
    BY <1>5, <1>6
  <2>3. \A c \in CPU : of[IdleOf[c]] = c
    BY SMT, <1>3, <2>1, TaskSwitchAssumption
  <2>. QED BY <1>3, <1>5, <2>1, <2>2, <2>3 DEF CurrentOK
<1>8. \A t \in Task : kind[t] \in {"current", "free"}
  BY <1>5, <1>6
<1>9. ReadyOK(kind) /\ WaitingOK(kind, of) /\ TerminatedOK(kind)
  <2>1. \A p \in 0..(NUMBER_OF_PRIORITIES - 1) : globalQueue[p] = <<>> /\ Ready(kind, p) = {}
    BY <1>8 DEF Init, Ready
  <2>2. \A s \in Sem : sem[s].queue = <<>> /\ Waiting(kind, of, s) = {}
    BY <1>8 DEF Init, Waiting
  <2>3. terminateQueue = <<>> /\ Terminated(kind) = {}
    BY <1>8 DEF Init, Terminated
  <2>. QED BY <1>8, <2>1, <2>2, <2>3, HoldsNone DEF ReadyOK, ReadyAt, WaitingOK, TerminatedOK
<1>10. InTransitOK(kind, of) /\ AwayOK(kind)
  BY <1>8, InitCode DEF InTransitOK, AwayOK
<1>11. WokenOK(kind, of)
  BY <1>8 DEF WokenOK, Init
<1>12. FreeOK(kind)
  BY <1>5, <1>6, InitCode DEF FreeOK
<1>13. Inv(kind, of)
  BY <1>4, <1>7, <1>9, <1>10, <1>11, <1>12, InitCode DEF Inv, PlacesOK
<1>. QED BY <1>13 DEF IInv

\* In every state of the scheduler each task can be given one place and each
\* place agrees with the step its task is at (IInv).
THEOREM Inductive == Spec => []IInv
BY InitInv, NextInv, PTL DEF Spec

----------------------------------------------------------------------------
\* The properties

\* contextSwitch never puts two processors on one kernel stack, and goes on only to a
\* stack that another contextSwitch has left, whatever the number of processors.
THEOREM StacksExclusive == Spec => []StackExclusive
<1>1. IInv => StackExclusive
  <2>. SUFFICES ASSUME NEW kind, NEW of, Inv(kind, of) PROVE StackExclusive
    BY DEF IInv
  <2>1. TypeOK
    BY DEF Inv, CodeOK
  <2>2. \A c \in CPU : at[c] = At(c)
    BY <2>1, AtView
  <2>3. ASSUME NEW c \in CPU, At(c) = "switch"
        PROVE  pc[<<tm[c].current, Top(tm[c].current)>>] = "saved"
    BY <2>2, <2>3, PickedSaved DEF Top, irq, task
  <2>. QED BY <2>3, Exclusive DEF StackExclusive
<1>. QED BY <1>1, Inductive, PTL

\* Interrupts stay off from taskSwitch to the end of callAfterTaskSwitchFunc, which
\* therefore clears the fields of its own processor's TaskManager.
THEOREM SwitchesUninterrupted == Spec => []SwitchUninterrupted
<1>1. IInv => SwitchUninterrupted
  <2>. SUFFICES ASSUME NEW kind, NEW of, Inv(kind, of) PROVE SwitchUninterrupted
    BY DEF IInv
  <2>. SUFFICES ASSUME NEW c \in CPU
                PROVE  /\ At(c) \in InSwitch => ~intr[c]
                       /\ At(c) \in {"func", "clear"} => ptr[<<stack[c], Top(stack[c])>>] = c
    BY DEF SwitchUninterrupted
  <2>1. TypeOK /\ CpuOK(c)
    BY DEF Inv, CodeOK, GoodCpus
  <2>2. at[c] = At(c) /\ Top(stack[c]) = IF irq[stack[c]] = "none" THEN "task" ELSE "irq"
    BY <2>1, AtView
  <2>3. At(c) \in InSwitch => ~(intr[c] = TRUE)
    BY <2>1, <2>2 DEF CpuOK, RunOK, InSwitch
  <2>4. intr[c] \in BOOLEAN
    BY <2>1 DEF TypeOK
  <2>5. At(c) \in {"func", "clear"} => ptr[<<stack[c], Top(stack[c])>>] = c
    BY <2>1, <2>2 DEF CpuOK, PtrOK
  <2>. QED BY <2>3, <2>4, <2>5
<1>. QED BY <1>1, Inductive, PTL

LEMMA HoldsPositions ==
    ASSUME NEW q, NEW S, Holds(q, S), NEW t
    PROVE  /\ t \in S => \E i : Positions(t, q) = {i}
           /\ t \notin S => Positions(t, q) = {}
<1>1. ASSUME t \in S PROVE \E i : Positions(t, q) = {i}
  <2>1. PICK i \in 1..Len(q) : q[i] = t
    BY <1>1 DEF Holds, Listed
  <2>2. Positions(t, q) = {i}
    BY <2>1 DEF Positions, Holds, Once
  <2>. QED BY <2>2
<1>2. ASSUME t \notin S PROVE Positions(t, q) = {}
  BY <1>2 DEF Positions, Holds, Listed
<1>. QED BY <1>1, <1>2

\* The places of a task, by kind.
PlacesIn(t, place) ==
    CASE place = "current"    -> {<<"current", c, 1>> : c \in {d \in CPU : tm[d].current = t}}
      [] place = "ready"      -> UNION {{<<"ready", p, i>> : i \in Positions(t, globalQueue[p])} :
                                           p \in 0..(NUMBER_OF_PRIORITIES - 1)}
      [] place = "transit"    -> {<<"transit", c, 1>> : c \in InTransit(t)}
      [] place = "waiting"    -> UNION {{<<"waiting", s, i>> : i \in Positions(t, sem[s].queue)} : s \in Sem}
      [] place = "woken"      -> {<<"woken", x, 1>> : x \in {y \in Task \X Level : woken[y] = t}}
      [] place = "terminated" -> {<<"terminated", 1, i>> : i \in Positions(t, terminateQueue)}

LEMMA PlacesUnion ==
    ASSUME NEW t
    PROVE  Places(t) = PlacesIn(t, "current") \cup PlacesIn(t, "ready") \cup PlacesIn(t, "transit")
                       \cup PlacesIn(t, "waiting") \cup PlacesIn(t, "woken")
                       \cup PlacesIn(t, "terminated")
BY SMT DEF Places, PlacesIn

LEMMA CurrentPlace ==
    ASSUME NEW kind, NEW of, Inv(kind, of), NEW t \in Task
    PROVE  /\ kind[t] = "current" => \E x : PlacesIn(t, "current") = {x}
           /\ kind[t] # "current" => PlacesIn(t, "current") = {}
<1>1. CurrentOK(kind, of)
  BY DEF Inv, PlacesOK
<1>2. ASSUME kind[t] = "current" PROVE {d \in CPU : tm[d].current = t} = {of[t]}
  BY <1>1, <1>2 DEF CurrentOK
<1>3. ASSUME kind[t] # "current" PROVE {d \in CPU : tm[d].current = t} = {}
  BY SMT, <1>1, <1>3 DEF CurrentOK
<1>4. ASSUME kind[t] = "current" PROVE PlacesIn(t, "current") = {<<"current", of[t], 1>>}
  BY <1>2, <1>4 DEF PlacesIn
<1>. QED BY <1>3, <1>4 DEF PlacesIn

LEMMA ReadyPlace ==
    ASSUME NEW kind, NEW of, Inv(kind, of), NEW t \in Task
    PROVE  /\ kind[t] = "ready" => \E x : PlacesIn(t, "ready") = {x}
           /\ kind[t] # "ready" => PlacesIn(t, "ready") = {}
<1>1. \A p \in 0..(NUMBER_OF_PRIORITIES - 1) : Holds(globalQueue[p], Ready(kind, p))
  BY DEF Inv, PlacesOK, ReadyOK, ReadyAt
<1>2. PlacesIn(t, "ready") = UNION {{<<"ready", p, i>> : i \in Positions(t, globalQueue[p])} :
                                       p \in 0..(NUMBER_OF_PRIORITIES - 1)}
  BY DEF PlacesIn
<1>3. ASSUME kind[t] = "ready" PROVE \E x : PlacesIn(t, "ready") = {x}
  <2>1. priority[t] \in 0..(NUMBER_OF_PRIORITIES - 1)
    BY TaskSwitchAssumption
  <2>2. t \in Ready(kind, priority[t]) /\ \A p : p # priority[t] => t \notin Ready(kind, p)
    BY <1>3 DEF Ready
  <2>3. PICK i : Positions(t, globalQueue[priority[t]]) = {i}
    BY <1>1, <2>1, <2>2, HoldsPositions
  <2>4. \A p \in 0..(NUMBER_OF_PRIORITIES - 1) : p # priority[t] => Positions(t, globalQueue[p]) = {}
    BY <1>1, <2>2, HoldsPositions
  <2>5. PlacesIn(t, "ready") = {<<"ready", priority[t], i>>}
    <3>1. PICK P : P = 0..(NUMBER_OF_PRIORITIES - 1)
      OBVIOUS
    <3>2. PlacesIn(t, "ready") = UNION {{<<"ready", p, j>> : j \in Positions(t, globalQueue[p])} : p \in P}
      BY <1>2, <3>1
    <3>3. priority[t] \in P /\ \A p \in P : p # priority[t] => Positions(t, globalQueue[p]) = {}
      BY <2>1, <2>4, <3>1
    <3>. QED BY SMT, <2>3, <3>2, <3>3
  <2>. QED BY <2>5
<1>4. ASSUME kind[t] # "ready" PROVE PlacesIn(t, "ready") = {}
  <2>1. \A p \in 0..(NUMBER_OF_PRIORITIES - 1) : t \notin Ready(kind, p)
    BY <1>4 DEF Ready
  <2>2. \A p \in 0..(NUMBER_OF_PRIORITIES - 1) : Positions(t, globalQueue[p]) = {}
    BY <1>1, <2>1, HoldsPositions
  <2>. QED BY <1>2, <2>2
<1>. QED BY <1>3, <1>4

LEMMA TransitPlace ==
    ASSUME NEW kind, NEW of, Inv(kind, of), NEW t \in Task
    PROVE  /\ kind[t] = "transit" => \E x : PlacesIn(t, "transit") = {x}
           /\ kind[t] # "transit" => PlacesIn(t, "transit") = {}
<1>1. InTransitOK(kind, of) /\ TypeOK
  BY DEF Inv, PlacesOK, CodeOK
<1>2. \A c \in CPU : at[c] = At(c)
  BY <1>1, AtView
<1>3. ASSUME kind[t] = "transit" PROVE InTransit(t) = {of[t]}
  BY SMTT(20), <1>1, <1>2, <1>3 DEF InTransitOK, InTransit
<1>4. ASSUME kind[t] # "transit" PROVE InTransit(t) = {}
  BY SMTT(20), <1>1, <1>2, <1>4 DEF InTransitOK, InTransit
<1>5. PlacesIn(t, "transit") = {<<"transit", c, 1>> : c \in InTransit(t)}
  BY DEF PlacesIn
<1>6. ASSUME kind[t] = "transit" PROVE PlacesIn(t, "transit") = {<<"transit", of[t], 1>>}
  BY <1>3, <1>5, <1>6
<1>. QED BY <1>4, <1>5, <1>6

LEMMA WaitingPlace ==
    ASSUME NEW kind, NEW of, Inv(kind, of), NEW t \in Task
    PROVE  /\ kind[t] = "waiting" => \E x : PlacesIn(t, "waiting") = {x}
           /\ kind[t] # "waiting" => PlacesIn(t, "waiting") = {}
<1>1. /\ kind[t] = "waiting" => of[t] \in Sem
      /\ \A s \in Sem : Holds(sem[s].queue, Waiting(kind, of, s))
  BY DEF Inv, PlacesOK, WaitingOK
<1>2. PlacesIn(t, "waiting") = UNION {{<<"waiting", s, i>> : i \in Positions(t, sem[s].queue)} : s \in Sem}
  BY DEF PlacesIn
<1>3. ASSUME kind[t] = "waiting" PROVE \E x : PlacesIn(t, "waiting") = {x}
  <2>1. of[t] \in Sem
    BY <1>1, <1>3
  <2>2. t \in Waiting(kind, of, of[t]) /\ \A s : s # of[t] => t \notin Waiting(kind, of, s)
    BY <1>3 DEF Waiting
  <2>3. PICK i : Positions(t, sem[of[t]].queue) = {i}
    BY <1>1, <2>1, <2>2, HoldsPositions
  <2>4. \A s \in Sem : s # of[t] => Positions(t, sem[s].queue) = {}
    BY <1>1, <2>2, HoldsPositions
  <2>5. PlacesIn(t, "waiting") = {<<"waiting", of[t], i>>}
    BY SMTT(20), <1>2, <2>1, <2>3, <2>4
  <2>. QED BY <2>5
<1>4. ASSUME kind[t] # "waiting" PROVE PlacesIn(t, "waiting") = {}
  <2>1. \A s \in Sem : t \notin Waiting(kind, of, s)
    BY <1>4 DEF Waiting
  <2>2. \A s \in Sem : Positions(t, sem[s].queue) = {}
    BY <1>1, <2>1, HoldsPositions
  <2>. QED BY <1>2, <2>2
<1>. QED BY <1>3, <1>4

LEMMA WokenPlace ==
    ASSUME NEW kind, NEW of, Inv(kind, of), NEW t \in Task
    PROVE  /\ kind[t] = "woken" => \E x : PlacesIn(t, "woken") = {x}
           /\ kind[t] # "woken" => PlacesIn(t, "woken") = {}
<1>1. WokenOK(kind, of) /\ t # NoTask
  BY TaskSwitchAssumption DEF Inv, PlacesOK
<1>2. ASSUME kind[t] = "woken" PROVE {y \in Task \X Level : woken[y] = t} = {of[t]}
  BY <1>1, <1>2 DEF WokenOK
<1>3. ASSUME kind[t] # "woken" PROVE {y \in Task \X Level : woken[y] = t} = {}
  BY SMT, <1>1, <1>3 DEF WokenOK
<1>4. PlacesIn(t, "woken") = {<<"woken", x, 1>> : x \in {y \in Task \X Level : woken[y] = t}}
  BY DEF PlacesIn
<1>5. ASSUME kind[t] = "woken" PROVE PlacesIn(t, "woken") = {<<"woken", of[t], 1>>}
  BY <1>2, <1>4, <1>5
<1>. QED BY <1>3, <1>4, <1>5

LEMMA TerminatedPlace ==
    ASSUME NEW kind, NEW of, Inv(kind, of), NEW t \in Task
    PROVE  /\ kind[t] = "terminated" => \E x : PlacesIn(t, "terminated") = {x}
           /\ kind[t] # "terminated" => PlacesIn(t, "terminated") = {}
<1>1. Holds(terminateQueue, Terminated(kind)) /\ (t \in Terminated(kind) <=> kind[t] = "terminated")
  BY DEF Inv, PlacesOK, TerminatedOK, Terminated
<1>2. PlacesIn(t, "terminated") = {<<"terminated", 1, i>> : i \in Positions(t, terminateQueue)}
  BY DEF PlacesIn
<1>3. ASSUME kind[t] = "terminated" PROVE \E x : PlacesIn(t, "terminated") = {x}
  <2>1. PICK i : Positions(t, terminateQueue) = {i}
    BY <1>1, <1>3, HoldsPositions
  <2>2. PlacesIn(t, "terminated") = {<<"terminated", 1, i>>}
    BY <1>2, <2>1
  <2>. QED BY <2>2
<1>4. ASSUME kind[t] # "terminated" PROVE PlacesIn(t, "terminated") = {}
  BY SMTT(20), <1>1, <1>2, <1>4, HoldsPositions
<1>. QED BY <1>3, <1>4

\* No task is lost and none is in two queues: while it is not freed, a task is current on
\* one processor, or once in one queue, or with the one processor that moves it.
THEOREM TasksInOnePlace == Spec => []EveryTaskInOnePlace
<1>1. IInv => EveryTaskInOnePlace
  <2>. SUFFICES ASSUME NEW kind, NEW of, Inv(kind, of) PROVE EveryTaskInOnePlace
    BY DEF IInv
  <2>1. TypeOK
    BY DEF Inv, CodeOK
  <2>2. ASSUME NEW t \in Task
        PROVE  IF pc[<<t, "task">>] = "free" THEN Places(t) = {}
                                             ELSE \E x \in Places(t) : Places(t) = {x}
    <3>1. kind[t] \in Kind /\ (kind[t] = "free" <=> pc[<<t, "task">>] = "free")
      BY DEF Inv, PlacesOK, FreeOK, task
    <3>2. Places(t) = PlacesIn(t, "current") \cup PlacesIn(t, "ready") \cup PlacesIn(t, "transit")
                      \cup PlacesIn(t, "waiting") \cup PlacesIn(t, "woken")
                      \cup PlacesIn(t, "terminated")
      BY PlacesUnion
    <3>3. ASSUME NEW k \in Kind \ {"free"}, kind[t] = k PROVE \E x : Places(t) = {x}
      <4>0. \A l \in Kind \ {"free"} : /\ kind[t] = l => \E x : PlacesIn(t, l) = {x}
                                       /\ kind[t] # l => PlacesIn(t, l) = {}
        <5>. SUFFICES ASSUME NEW l \in Kind \ {"free"}
                      PROVE  /\ kind[t] = l => \E x : PlacesIn(t, l) = {x}
                             /\ kind[t] # l => PlacesIn(t, l) = {}
          OBVIOUS
        <5>1. l \in {"current", "ready", "transit", "waiting", "woken", "terminated"}
          BY DEF Kind
        <5>2. CASE l = "current"
          BY <5>2, CurrentPlace
        <5>3. CASE l = "ready"
          BY <5>3, ReadyPlace
        <5>4. CASE l = "transit"
          BY <5>4, TransitPlace
        <5>5. CASE l = "waiting"
          BY <5>5, WaitingPlace
        <5>6. CASE l = "woken"
          BY <5>6, WokenPlace
        <5>7. CASE l = "terminated"
          BY <5>7, TerminatedPlace
        <5>. QED BY <5>1, <5>2, <5>3, <5>4, <5>5, <5>6, <5>7
      <4>1. \E x : PlacesIn(t, k) = {x}
        BY <3>3, <4>0
      <4>2. \A l \in Kind \ {"free", k} : PlacesIn(t, l) = {}
        BY <3>3, <4>0
      <4>3. Places(t) = PlacesIn(t, k)
        BY <3>2, <3>3, <4>2 DEF Kind
      <4>. QED BY <4>1, <4>3
    <3>4. ASSUME kind[t] = "free" PROVE Places(t) = {}
      BY <3>2, <3>4, CurrentPlace, ReadyPlace, TransitPlace, WaitingPlace, WokenPlace, TerminatedPlace
    <3>. QED BY <3>1, <3>3, <3>4
  <2>. QED BY <2>1, <2>2 DEF EveryTaskInOnePlace
<1>. QED BY <1>1, Inductive, PTL

\* The idle tasks are current or ready: they neither block nor terminate.
LEMMA IdleReady ==
    ASSUME NEW kind, NEW of, Inv(kind, of), NEW i \in Idle
    PROVE  kind[i] \in {"current", "ready"}
<1>1. i \in Task /\ i \notin Worker /\ i # NoTask
  BY TaskSwitchAssumption DEF Task
<1>2. TypeOK /\ PlacesOK(kind, of) /\ kind[i] \in Kind
  BY <1>1 DEF Inv, CodeOK, PlacesOK
<1>3. kind[i] # "transit"
  <2>. SUFFICES ASSUME kind[i] = "transit" PROVE FALSE
    OBVIOUS
  <2>1. /\ of[i] \in CPU /\ at[of[i]] \in {"switch", "after", "func"}
        /\ tm[of[i]].after.func # "NULL" /\ tm[of[i]].after.old = i
    BY <1>1, <1>2 DEF PlacesOK, InTransitOK
  <2>2. OldOK(of[i])
    BY <2>1 DEF Inv, CodeOK, GoodCpus, CpuOK
  <2>. QED BY <1>1, <2>1, <2>2 DEF OldOK, Mine
<1>4. kind[i] # "waiting"
  <2>. SUFFICES ASSUME kind[i] = "waiting" PROVE FALSE
    OBVIOUS
  <2>1. of[i] \in Sem /\ Listed(sem[of[i]].queue) = Waiting(kind, of, of[i])
    BY <1>1, <1>2 DEF PlacesOK, WaitingOK, Holds
  <2>2. sem[of[i]].queue \in Seq(Worker)
    BY <1>2, <2>1 DEF TypeOK
  <2>3. i \in Listed(sem[of[i]].queue)
    BY <1>1, <2>1 DEF Waiting
  <2>4. PICK n \in 1..Len(sem[of[i]].queue) : sem[of[i]].queue[n] = i
    BY <2>3 DEF Listed
  <2>5. \A q \in Seq(Worker) : \A m \in 1..Len(q) : q[m] \in Worker
    BY SMT
  <2>. QED BY <1>1, <2>2, <2>4, <2>5
<1>5. kind[i] # "terminated"
  <2>. SUFFICES ASSUME kind[i] = "terminated" PROVE FALSE
    OBVIOUS
  <2>1. terminateQueue \in Seq(Worker) /\ Listed(terminateQueue) = Terminated(kind)
    BY <1>2 DEF TypeOK, PlacesOK, TerminatedOK, Holds
  <2>2. i \in Listed(terminateQueue)
    BY <1>1, <2>1 DEF Terminated
  <2>3. PICK n \in 1..Len(terminateQueue) : terminateQueue[n] = i
    BY <2>2 DEF Listed
  <2>4. \A q \in Seq(Worker) : \A m \in 1..Len(q) : q[m] \in Worker
    BY SMT
  <2>. QED BY <1>1, <2>1, <2>3, <2>4
<1>6. kind[i] # "woken"
  BY SMTT(20), <1>1, <1>2 DEF PlacesOK, WokenOK, TypeOK
<1>7. kind[i] # "free"
  BY <1>1, <1>2 DEF PlacesOK, FreeOK, Inv, CodeOK, GoodStacks, StackOK
<1>. QED BY <1>2, <1>3, <1>4, <1>5, <1>6, <1>7 DEF Kind

FST == INSTANCE FiniteSetTheorems

\* A finite set is mapped onto itself when no two members share an image.
LEMMA Pigeonhole ==
    ASSUME NEW S, IsFiniteSet(S), NEW f \in [S -> S], \A x, y \in S : f[x] = f[y] => x = y,
           NEW z \in S
    PROVE  \E x \in S : f[x] = z
<1>1. FST!IsFiniteSet(S)
  BY DEF IsFiniteSet, FST!IsFiniteSet
<1>2. f \in FST!Injection(S, S)
  BY DEF FST!Injection, FST!IsInjective
<1>3. f \in FST!Surjection(S, S)
  BY <1>1, <1>2, FST!FS_Injection
<1>. QED BY <1>3 DEF FST!Surjection

\* A processor that gives up its task finds another one: there is one idle task for each
\* processor, and this one does not run its own or anybody else's.
LEMMA SomeTaskReady ==
    ASSUME NEW kind, NEW of, Inv(kind, of), NEW c \in CPU, at[c] = "enter", tm[c].after.func # "NULL"
    PROVE  NonEmpty(globalQueue) # {}
<1>. SUFFICES ASSUME NonEmpty(globalQueue) = {} PROVE FALSE
  OBVIOUS
<1>1. \A t \in Task : kind[t] # "ready"
  <2>. SUFFICES ASSUME NEW t \in Task, kind[t] = "ready" PROVE FALSE
    OBVIOUS
  <2>1. priority[t] \in 0..(NUMBER_OF_PRIORITIES - 1)
    BY TaskSwitchAssumption
  <2>2. globalQueue[priority[t]] = <<>> /\ Listed(globalQueue[priority[t]]) = Ready(kind, priority[t])
    BY <2>1 DEF NonEmpty, Inv, PlacesOK, ReadyOK, ReadyAt, Holds
  <2>3. Listed(<<>>) = {}
    BY HoldsNone DEF Holds
  <2>. QED BY <2>2, <2>3 DEF Ready
<1>2. \A d \in CPU : /\ IdleOf[d] \in Idle /\ IdleOf[d] \in Task
                     /\ of[IdleOf[d]] \in CPU /\ tm[of[IdleOf[d]]].current = IdleOf[d]
  <2>. TAKE d \in CPU
  <2>1. IdleOf[d] \in Idle /\ IdleOf[d] \in Task
    BY TaskSwitchAssumption DEF Task
  <2>2. kind[IdleOf[d]] = "current"
    BY <1>1, <2>1, IdleReady
  <2>. QED BY <2>1, <2>2 DEF Inv, PlacesOK, CurrentOK
<1>3. PICK f : f = [d \in CPU |-> of[IdleOf[d]]]
  OBVIOUS
<1>4. f \in [CPU -> CPU] /\ \A d, e \in CPU : f[d] = f[e] => d = e
  <2>1. f \in [CPU -> CPU] /\ \A d \in CPU : f[d] = of[IdleOf[d]]
    BY <1>2, <1>3
  <2>2. ASSUME NEW d \in CPU, NEW e \in CPU, f[d] = f[e] PROVE d = e
    <3>1. IdleOf[d] = IdleOf[e]
      BY SMTT(20), <1>2, <2>1, <2>2
    <3>. QED BY <3>1, TaskSwitchAssumption
  <2>. QED BY <2>1, <2>2
<1>5. PICK d \in CPU : f[d] = c
  <2>1. IsFiniteSet(CPU)
    BY TaskSwitchAssumption
  <2>2. \E d \in CPU : f[d] = c
    BY SMTT(20), <1>4, <2>1, Pigeonhole
  <2>. QED BY <2>2
<1>6. tm[c].current \in Idle
  BY <1>2, <1>3, <1>5
<1>7. tm[c].current \in Worker
  BY DEF Inv, CodeOK, GoodCpus, CpuOK, SwitchOK, OldOK, Mine
<1>. QED BY <1>6, <1>7, TaskSwitchAssumption

\* The assertions of popPriorityQueue, resume, clearTerminateQueue, acquireExLock and
\* afterExLock hold: a processor whose task blocks or terminates finds a task to run, only
\* suspended tasks are resumed or freed, and one task at a time pushes itself.
THEOREM AssertionsAlwaysHold == Spec => []AssertionsHold
<1>1. IInv => AssertionsHold
  <2>. SUFFICES ASSUME NEW kind, NEW of, Inv(kind, of) PROVE AssertionsHold
    BY DEF IInv
  <2>1. TypeOK /\ PlacesOK(kind, of) /\ ExLockOK
    BY DEF Inv, CodeOK
  <2>2. ASSUME NEW c \in CPU, At(c) = "enter", tm[c].after.func # "NULL"
        PROVE  NonEmpty(globalQueue) # {}
    BY <2>1, <2>2, AtView, SomeTaskReady
  <2>3. ASSUME NEW x \in Task \X Level, woken[x] # NoTask PROVE state[woken[x]] = "SUSPENDED"
    <3>1. woken[x] \in Task /\ kind[woken[x]] = "woken"
      BY SMTT(20), <2>1, <2>3 DEF TypeOK, PlacesOK, WokenOK, Task
    <3>. QED BY <2>1, <3>1 DEF PlacesOK, AwayOK
  <2>4. ASSUME NEW i \in 1..Len(terminateQueue) PROVE state[terminateQueue[i]] = "SUSPENDED"
    <3>1. terminateQueue[i] \in Listed(terminateQueue)
      BY DEF Listed
    <3>2. terminateQueue[i] \in Task /\ kind[terminateQueue[i]] = "terminated"
      BY <2>1, <3>1 DEF PlacesOK, TerminatedOK, Terminated, Holds
    <3>. QED BY <2>1, <3>2 DEF PlacesOK, AwayOK
  <2>5. \A s \in Sem : sem[s].push <=> sem[s].locked
    BY <2>1 DEF ExLockOK
  <2>. QED BY <2>2, <2>3, <2>4, <2>5 DEF AssertionsHold
<1>. QED BY <1>1, Inductive, PTL
=============================================================================
