-------------------------- MODULE TaskSwitchProofs ---------------------------
(***************************************************************************)
(* The inductive invariant of the scheduler, what a step leaves alone, and *)
(* the steps that move no task between the queues.                         *)
(***************************************************************************)
EXTENDS TaskSwitch, TLAPS

\* A leaf that cites no prover is first-order and goes to Zenon; arithmetic and sequences
\* go to SMT.
USE Zenon

----------------------------------------------------------------------------
\* Queues

\* The queue q holds the members of S, each once.
Listed(q) == {q[i] : i \in 1..Len(q)}
Once(q) == \A i, j \in 1..Len(q) : q[i] = q[j] => i = j
Holds(q, S) == q \in Seq(Task) /\ Once(q) /\ Listed(q) = S

LEMMA HoldsNone == Holds(<<>>, {})
BY SMT DEF Holds, Once, Listed

LEMMA HoldsAppend ==
    ASSUME NEW q, NEW S, Holds(q, S), NEW t \in Task, t \notin S
    PROVE  Holds(Append(q, t), S \cup {t})
<1>1. q \in Seq(Task) /\ Len(q) \in Nat
  BY SMT DEF Holds
<1>2. /\ Append(q, t) \in Seq(Task) /\ Len(Append(q, t)) = Len(q) + 1
      /\ \A i \in 1..Len(q) : Append(q, t)[i] = q[i]
      /\ Append(q, t)[Len(q) + 1] = t
  BY SMT, <1>1
<1>3. \A i \in 1..(Len(q) + 1) : i \in 1..Len(q) \/ i = Len(q) + 1
  BY SMT, <1>1
<1>4. \A i \in 1..Len(q) : q[i] # t
  BY DEF Holds, Listed
<1>5. Once(Append(q, t))
  BY <1>2, <1>3, <1>4 DEF Once, Holds
<1>6. Listed(Append(q, t)) = S \cup {t}
  <2>1. ASSUME NEW x \in Listed(Append(q, t)) PROVE x \in S \cup {t}
    BY <1>2, <1>3, <2>1 DEF Listed, Holds
  <2>2. ASSUME NEW x \in S \cup {t} PROVE x \in Listed(Append(q, t))
    <3>1. CASE x = t
      <4>1. Len(q) + 1 \in 1..Len(Append(q, t))
        BY SMT, <1>1, <1>2
      <4>. QED BY <1>2, <3>1, <4>1 DEF Listed
    <3>2. CASE x \in S
      <4>1. PICK i \in 1..Len(q) : q[i] = x
        BY <3>2 DEF Holds, Listed
      <4>2. i \in 1..Len(Append(q, t)) /\ Append(q, t)[i] = x
        BY SMT, <1>1, <1>2, <4>1
      <4>. QED BY <4>2 DEF Listed
    <3>. QED BY <2>2, <3>1, <3>2
  <2>. QED BY <2>1, <2>2
<1>. QED BY <1>2, <1>5, <1>6 DEF Holds

LEMMA HoldsTail ==
    ASSUME NEW q, NEW S, Holds(q, S), q # <<>>
    PROVE  Head(q) \in S /\ Head(q) \in Task /\ Holds(Tail(q), S \ {Head(q)})
<1>1. /\ q \in Seq(Task) /\ Len(q) \in Nat \ {0} /\ Head(q) = q[1] /\ Head(q) \in Task
      /\ Tail(q) \in Seq(Task) /\ Len(Tail(q)) = Len(q) - 1
      /\ \A i \in 1..(Len(q) - 1) : Tail(q)[i] = q[i + 1]
  BY SMT DEF Holds
<1>2. 1 \in 1..Len(q) /\ \A i \in 1..(Len(q) - 1) : i + 1 \in 1..Len(q) /\ i + 1 # 1
  BY SMT, <1>1
<1>3. Once(Tail(q))
  <2>. SUFFICES ASSUME NEW i \in 1..(Len(q) - 1), NEW j \in 1..(Len(q) - 1), Tail(q)[i] = Tail(q)[j]
                PROVE  i = j
    BY <1>1 DEF Once
  <2>1. i + 1 = j + 1
    BY SMT, <1>1, <1>2 DEF Holds, Once
  <2>. QED BY SMT, <2>1, <1>1
<1>4. \A i \in 1..(Len(q) - 1) : Tail(q)[i] # Head(q) /\ Tail(q)[i] \in S
  <2>. TAKE i \in 1..(Len(q) - 1)
  <2>1. i + 1 \in 1..Len(q) /\ i + 1 # 1 /\ Tail(q)[i] = q[i + 1]
    BY <1>1, <1>2
  <2>. QED BY <1>1, <1>2, <2>1 DEF Holds, Once, Listed
<1>5. Head(q) \in S
  BY <1>1, <1>2 DEF Holds, Listed
<1>6. \A x \in S : x # Head(q) => \E i \in 1..(Len(q) - 1) : Tail(q)[i] = x
  <2>. TAKE x \in S
  <2>. HAVE x # Head(q)
  <2>1. PICK k \in 1..Len(q) : q[k] = x
    BY DEF Holds, Listed
  <2>2. k # 1 /\ k - 1 \in 1..(Len(q) - 1) /\ k - 1 + 1 = k
    BY SMT, <1>1, <2>1
  <2>. QED BY <1>1, <2>1, <2>2
<1>7. Listed(Tail(q)) = S \ {Head(q)}
  BY SMT, <1>1, <1>4, <1>6 DEF Listed
<1>. QED BY <1>1, <1>3, <1>5, <1>7 DEF Holds

----------------------------------------------------------------------------
\* The inductive invariant

\* pc by level, and where each processor is.
task == [t \in Task |-> pc[<<t, "task">>]]
irq == [t \in Task |-> pc[<<t, "irq">>]]
at == [c \in CPU |-> At(c)]

\* A stack is made by the code: an interrupt comes on top of code that runs with
\* interrupts on, and a task that resumes another has it in hand.
StackOK(t) ==
    /\ task[t] \in TaskStep /\ irq[t] \in IrqStep
    /\ irq[t] # "none" => task[t] \in {"run", "resume", "reap", "leave"}
    /\ task[t] = "lock" => want[t] \in Sem
    /\ task[t] \in {"lock", "reap", "leave", "free"} => t \in Worker
    /\ task[t] = "resume" <=> woken[<<t, "task">>] # NoTask
    /\ irq[t] = "resume" <=> woken[<<t, "irq">>] # NoTask

\* A stack that no processor runs on is saved, or free.
SavedOK ==
    \A t \in Task :
        (\A c \in CPU : stack[c] # t) =>
            \/ irq[t] = "none" /\ task[t] \in {"free", "saved"}
            \/ irq[t] = "saved"

Mine == {"enter", "switch", "after", "func"}

\* A processor runs code, and interrupts are on only outside of handlers, of taskSwitch
\* and of the way into it.
RunOK(c) ==
    /\ at[c] \in {"run", "lock", "resume", "reap", "leave", "handler"} \cup InSwitch
    /\ intr[c] = TRUE => irq[stack[c]] = "none" /\ at[c] \in {"run", "resume", "reap", "leave"}

\* The current task is the one on whose stack the processor is, but just before
\* contextSwitch.
SwitchOK(c) ==
    /\ at[c] # "switch" => tm[c].current = stack[c]
    /\ at[c] \in {"enter", "switch"} => tm[c].after.old = stack[c]
    /\ at[c] = "switch" => tm[c].current # stack[c]

\* callAfterTaskSwitchFunc uses the TaskManager of its processor.
PtrOK(c) ==
    at[c] \in {"func", "clear"} =>
        ptr[<<stack[c], IF irq[stack[c]] = "none" THEN "task" ELSE "irq">>] = c

\* Only workers block or terminate, outside of interrupts.
OldOK(c) ==
    /\ at[c] \in Mine /\ tm[c].after.func # "NULL" => tm[c].after.old \in Worker
    /\ at[c] = "enter" /\ tm[c].after.func # "NULL" => irq[stack[c]] = "none"

CpuOK(c) == RunOK(c) /\ SwitchOK(c) /\ PtrOK(c) /\ OldOK(c)

\* The global lock is held across contextSwitch, and its saved interrupt flag is off.
GlobalOK ==
    /\ \A c \in CPU : at[c] \in {"switch", "after"} <=> globalLock.by = c
    /\ globalLock.by # NoCPU => globalLock.flag = FALSE

Blocks(c, s) == at[c] \in Mine /\ tm[c].after.func = "afterExLock" /\ tm[c].after.arg = s

\* One processor has an exLock.lock that is held across a switch, whose saved interrupt
\* flag is off.
ExLockOK ==
    /\ \A c \in CPU : at[c] \in Mine /\ tm[c].after.func = "afterExLock" =>
          /\ tm[c].after.arg \in Sem
          /\ sem[tm[c].after.arg].locked = TRUE /\ sem[tm[c].after.arg].flag = FALSE
    /\ \A c, d \in CPU : \A s \in Sem : Blocks(c, s) /\ Blocks(d, s) => c = d
    /\ \A s \in Sem : sem[s].push = sem[s].locked

Kind == {"current", "ready", "transit", "waiting", "woken", "terminated", "free"}

\* Each task t is in the place that kind[t] and of[t] name, and in no other.
CurrentOK(kind, of) ==
    /\ \A t \in Task : kind[t] = "current" => of[t] \in CPU /\ tm[of[t]].current = t
    /\ \A c \in CPU : kind[tm[c].current] = "current" /\ of[tm[c].current] = c
Ready(kind, p) == {t \in Task : kind[t] = "ready" /\ priority[t] = p}
ReadyAt(kind, q) == \A p \in 0..(NUMBER_OF_PRIORITIES - 1) : Holds(q[p], Ready(kind, p))
ReadyOK(kind) == ReadyAt(kind, globalQueue)
InTransitOK(kind, of) ==
    /\ \A t \in Task : kind[t] = "transit" =>
          /\ of[t] \in CPU /\ at[of[t]] \in {"switch", "after", "func"}
          /\ tm[of[t]].after.func # "NULL" /\ tm[of[t]].after.old = t
    /\ \A c \in CPU : at[c] \in {"switch", "after", "func"} /\ tm[c].after.func # "NULL" =>
          kind[tm[c].after.old] = "transit" /\ of[tm[c].after.old] = c
Waiting(kind, of, s) == {t \in Task : kind[t] = "waiting" /\ of[t] = s}
WaitingOK(kind, of) ==
    /\ \A t \in Task : kind[t] = "waiting" => of[t] \in Sem
    /\ \A s \in Sem : Holds(sem[s].queue, Waiting(kind, of, s))
WokenOK(kind, of) ==
    /\ \A t \in Task : kind[t] = "woken" => of[t] \in Task \X Level /\ woken[of[t]] = t
    /\ \A x \in Task \X Level : woken[x] # NoTask =>
          kind[woken[x]] = "woken" /\ of[woken[x]] = x
Terminated(kind) == {t \in Task : kind[t] = "terminated"}
TerminatedOK(kind) == Holds(terminateQueue, Terminated(kind))
FreeOK(kind) == \A t \in Task : kind[t] = "free" <=> task[t] = "free"

\* A task that is neither current nor ready is suspended outside of an interrupt, and the
\* task that a processor preempts is ready before its stack is saved.
AwayOK(kind) ==
    /\ \A t \in Task : kind[t] \in {"transit", "waiting", "woken", "terminated"} =>
          irq[t] = "none" /\ state[t] = "SUSPENDED"
    /\ \A c \in CPU : at[c] = "switch" /\ tm[c].after.func = "NULL" => kind[stack[c]] = "ready"

Owner == CPU \cup Sem \cup (Task \X Level)
PlacesOK(kind, of) ==
    /\ kind \in [Task -> Kind]
    /\ of \in [Task -> Owner]
    /\ CurrentOK(kind, of) /\ ReadyOK(kind) /\ InTransitOK(kind, of) /\ WaitingOK(kind, of)
    /\ WokenOK(kind, of) /\ TerminatedOK(kind) /\ FreeOK(kind) /\ AwayOK(kind)

GoodStacks == {t \in Task : StackOK(t)}
GoodCpus == {c \in CPU : CpuOK(c)}
CodeOK ==
    /\ TypeOK /\ SavedOK /\ GlobalOK /\ ExLockOK
    /\ GoodStacks = Task /\ GoodCpus = CPU
Inv(kind, of) == CodeOK /\ PlacesOK(kind, of)
IInv == \E kind, of : Inv(kind, of)

----------------------------------------------------------------------------
\* What the definitions above say

LEMMA AtView ==
    ASSUME TypeOK
    PROVE  \A c \in CPU :
              /\ stack[c] \in Task /\ at[c] = At(c)
              /\ Top(stack[c]) = IF irq[stack[c]] = "none" THEN "task" ELSE "irq"
              /\ at[c] = IF irq[stack[c]] = "none" THEN task[stack[c]] ELSE irq[stack[c]]
BY DEF TypeOK, at, At, Top, task, irq

LEMMA SameView ==
    ASSUME UNCHANGED <<pc, stack>>
    PROVE  task' = task /\ irq' = irq /\ at' = at
BY DEF task, irq, at, At, Top

LEMMA Exclusive ==
    ASSUME NEW kind, NEW of, Inv(kind, of)
    PROVE  \A c, d \in CPU : stack[c] = stack[d] => c = d
<1>. SUFFICES ASSUME NEW c \in CPU, NEW d \in CPU, stack[c] = stack[d] PROVE c = d
  OBVIOUS
<1>1. \A e \in CPU : at[e] # "switch" => kind[stack[e]] = "current" /\ of[stack[e]] = e
  BY SMT DEF Inv, CodeOK, GoodCpus, CpuOK, SwitchOK, PlacesOK, CurrentOK
<1>2. \A e \in CPU : at[e] = "switch" => kind[stack[e]] \in {"ready", "transit"} /\ globalLock.by = e
  BY SMT DEF Inv, CodeOK, GoodCpus, CpuOK, SwitchOK, GlobalOK, PlacesOK, InTransitOK, AwayOK
<1>. QED BY SMT, <1>1, <1>2

\* A step that moves processor c on within its stack, in the task or in an interrupt.
LEMMA GotoTask ==
    ASSUME TypeOK, NEW c \in CPU, NEW step \in TaskStep \cup IrqStep, Goto(c, step), UNCHANGED stack,
           \A d, e \in CPU : stack[d] = stack[e] => d = e, irq[stack[c]] = "none"
    PROVE  /\ \A t \in Task : irq'[t] = irq[t] /\ task'[t] = IF t = stack[c] THEN step ELSE task[t]
           /\ \A d \in CPU : at'[d] = IF d = c THEN step ELSE at[d]
           /\ pc' \in [Task \X Level -> TaskStep \cup IrqStep]
<1>1. /\ pc \in [Task \X Level -> TaskStep \cup IrqStep] /\ stack \in [CPU -> Task]
      /\ \A t \in Task : <<t, "task">> \in Task \X Level /\ <<t, "irq">> \in Task \X Level
  BY DEF TypeOK, Level
<1>2. Top(stack[c]) = "task"
  BY <1>1, AtView
<1>3. pc' = [pc EXCEPT ![<<stack[c], "task">>] = step]
  BY <1>2 DEF Goto
<1>4. \A t \in Task : /\ pc'[<<t, "task">>] = IF t = stack[c] THEN step ELSE pc[<<t, "task">>]
                      /\ pc'[<<t, "irq">>] = pc[<<t, "irq">>]
  BY <1>1, <1>3
<1>5. \A d \in CPU : At(d)' = IF d = c THEN step ELSE At(d)
  BY <1>1, <1>4 DEF At, Top, irq
<1>. QED BY <1>1, <1>3, <1>4, <1>5 DEF at, task, irq

LEMMA GotoIrq ==
    ASSUME TypeOK, NEW c \in CPU, NEW step \in TaskStep \cup IrqStep, Goto(c, step), UNCHANGED stack,
           \A d, e \in CPU : stack[d] = stack[e] => d = e, irq[stack[c]] # "none"
    PROVE  /\ \A t \in Task : task'[t] = task[t] /\ irq'[t] = IF t = stack[c] THEN step ELSE irq[t]
           /\ \A d \in CPU : d # c => at'[d] = at[d]
           /\ at'[c] = IF step = "none" THEN task[stack[c]] ELSE step
           /\ pc' \in [Task \X Level -> TaskStep \cup IrqStep]
<1>1. /\ pc \in [Task \X Level -> TaskStep \cup IrqStep] /\ stack \in [CPU -> Task]
      /\ \A t \in Task : <<t, "task">> \in Task \X Level /\ <<t, "irq">> \in Task \X Level
  BY DEF TypeOK, Level
<1>2. Top(stack[c]) = "irq"
  BY <1>1, AtView
<1>3. pc' = [pc EXCEPT ![<<stack[c], "irq">>] = step]
  BY <1>2 DEF Goto
<1>4. \A t \in Task : /\ pc'[<<t, "irq">>] = IF t = stack[c] THEN step ELSE pc[<<t, "irq">>]
                      /\ pc'[<<t, "task">>] = pc[<<t, "task">>]
  BY <1>1, <1>3
<1>5. \A d \in CPU : At(d)' = IF d = c THEN IF step = "none" THEN pc[<<stack[c], "task">>] ELSE step
                                       ELSE At(d)
  BY <1>1, <1>4 DEF At, Top, irq
<1>. QED BY <1>1, <1>3, <1>4, <1>5 DEF at, task, irq

\* Interrupts start on the stack of the running task.
LEMMA GotoHandler ==
    ASSUME TypeOK, NEW c \in CPU, Interrupt(c), \A d, e \in CPU : stack[d] = stack[e] => d = e
    PROVE  /\ \A t \in Task : task'[t] = task[t] /\ irq'[t] = IF t = stack[c] THEN "handler" ELSE irq[t]
           /\ \A d \in CPU : at'[d] = IF d = c THEN "handler" ELSE at[d]
           /\ pc' \in [Task \X Level -> TaskStep \cup IrqStep]
           /\ irq[stack[c]] = "none" /\ intr[c] = TRUE
<1>1. /\ pc \in [Task \X Level -> TaskStep \cup IrqStep] /\ stack \in [CPU -> Task] /\ intr \in [CPU -> BOOLEAN]
      /\ \A t \in Task : <<t, "task">> \in Task \X Level /\ <<t, "irq">> \in Task \X Level
  BY DEF TypeOK, Level
<1>2. pc' = [pc EXCEPT ![<<stack[c], "irq">>] = "handler"] /\ stack' = stack
  BY DEF Interrupt
<1>3. irq[stack[c]] = "none" /\ intr[c] = TRUE
  BY <1>1 DEF Interrupt, Top, irq
<1>4. \A t \in Task : /\ pc'[<<t, "irq">>] = IF t = stack[c] THEN "handler" ELSE pc[<<t, "irq">>]
                      /\ pc'[<<t, "task">>] = pc[<<t, "task">>]
  BY <1>1, <1>2
<1>5. \A d \in CPU : At(d)' = IF d = c THEN "handler" ELSE At(d)
  BY SMT, <1>1, <1>2, <1>4 DEF At, Top
<1>6. pc' \in [Task \X Level -> TaskStep \cup IrqStep]
  BY <1>1, <1>2 DEF IrqStep
<1>. QED BY <1>1, <1>2, <1>3, <1>4, <1>5, <1>6 DEF at, task, irq

\* A step of c, on the stack u, leaves alone what concerns the other stacks and processors.
FieldsSame(c, u) ==
    /\ UNCHANGED stack
    /\ \A t \in Task : t # u => want'[t] = want[t]
    /\ \A t \in Task, l \in Level : t # u => woken'[<<t, l>>] = woken[<<t, l>>]
                                             /\ ptr'[<<t, l>>] = ptr[<<t, l>>]
    /\ \A d \in CPU : d # c => tm'[d] = tm[d] /\ intr'[d] = intr[d]
PlacesSame(c, u) ==
    /\ \A t \in Task : t # u => task'[t] = task[t] /\ irq'[t] = irq[t]
    /\ \A d \in CPU : d # c => at'[d] = at[d]
OthersSame(c, u) == FieldsSame(c, u) /\ PlacesSame(c, u)

LEMMA OthersKept ==
    ASSUME CodeOK, NEW c \in CPU, NEW u \in Task, stack[c] = u, OthersSame(c, u),
           \A d \in CPU : d # c => stack[d] # u,
           u \in GoodStacks', c \in GoodCpus'
    PROVE  SavedOK' /\ GoodStacks' = Task /\ GoodCpus' = CPU
<1>1. SavedOK'
  BY DEF CodeOK, SavedOK, OthersSame, FieldsSame, PlacesSame
<1>2. ASSUME NEW t \in Task PROVE StackOK(t)'
  <2>1. CASE t = u
    BY <2>1 DEF GoodStacks
  <2>2. CASE t # u
    <3>1. StackOK(t) /\ "task" \in Level /\ "irq" \in Level
      BY DEF CodeOK, GoodStacks, Level
    <3>2. /\ task'[t] = task[t] /\ irq'[t] = irq[t] /\ want'[t] = want[t]
          /\ woken'[<<t, "task">>] = woken[<<t, "task">>] /\ woken'[<<t, "irq">>] = woken[<<t, "irq">>]
      BY <2>2, <3>1 DEF OthersSame, FieldsSame, PlacesSame
    <3>. QED BY <3>1, <3>2 DEF StackOK
  <2>. QED BY <2>1, <2>2
<1>3. ASSUME NEW d \in CPU PROVE CpuOK(d)'
  <2>1. CASE d = c
    BY <2>1 DEF GoodCpus
  <2>2. CASE d # c
    <3>1. CpuOK(d) /\ stack[d] \in Task /\ stack[d] # u
      BY <2>2 DEF CodeOK, GoodCpus, TypeOK
    <3>2. /\ at'[d] = at[d] /\ tm'[d] = tm[d] /\ intr'[d] = intr[d] /\ stack'[d] = stack[d]
          /\ irq'[stack[d]] = irq[stack[d]]
          /\ ptr'[<<stack[d], "task">>] = ptr[<<stack[d], "task">>]
          /\ ptr'[<<stack[d], "irq">>] = ptr[<<stack[d], "irq">>]
      BY <2>2, <3>1 DEF OthersSame, FieldsSame, PlacesSame, Level
    <3>3. RunOK(d)' /\ SwitchOK(d)' /\ OldOK(d)'
      BY <3>1, <3>2 DEF CpuOK, RunOK, SwitchOK, OldOK
    <3>4. PtrOK(d)'
      BY <3>1, <3>2 DEF CpuOK, PtrOK
    <3>. QED BY <3>3, <3>4 DEF CpuOK
  <2>. QED BY <2>1, <2>2
<1>. QED BY <1>1, <1>2, <1>3 DEF GoodStacks, GoodCpus

\* A step of c that moves no task from its place.
LEMMA PlacesKept ==
    ASSUME NEW kind, NEW of, Inv(kind, of), NEW c \in CPU, at[c] # "switch", at'[c] # "switch",
           \A d \in CPU : tm'[d].current = tm[d].current,
           \A d \in CPU : d # c => at'[d] = at[d] /\ tm'[d] = tm[d],
           (at[c] \in {"after", "func"} /\ tm[c].after.func # "NULL") <=>
               (at'[c] \in {"after", "func"} /\ tm'[c].after.func # "NULL"),
           at'[c] \in {"after", "func"} => tm'[c].after = tm[c].after,
           UNCHANGED <<globalQueue, woken, terminateQueue, state, stack>>,
           \A s \in Sem : sem'[s].queue = sem[s].queue,
           \A t \in Task : task'[t] = "free" <=> task[t] = "free",
           \A t \in Task : t # stack[c] => irq'[t] = irq[t]
    PROVE  PlacesOK(kind, of)'
<1>1. kind[stack[c]] = "current"
  BY SMT DEF Inv, CodeOK, GoodCpus, CpuOK, SwitchOK, PlacesOK, CurrentOK
<1>2. CurrentOK(kind, of)'
  BY SMT DEF Inv, PlacesOK, CurrentOK
<1>3. ReadyOK(kind)'
  BY DEF Inv, PlacesOK, ReadyOK
<1>4. InTransitOK(kind, of)'
  BY SMT DEF Inv, PlacesOK, InTransitOK
<1>5. WaitingOK(kind, of)'
  BY DEF Inv, PlacesOK, WaitingOK
<1>6. WokenOK(kind, of)'
  BY DEF Inv, PlacesOK, WokenOK
<1>7. TerminatedOK(kind)' /\ FreeOK(kind)'
  BY DEF Inv, PlacesOK, TerminatedOK, FreeOK
<1>8. AwayOK(kind)'
  BY SMT, <1>1 DEF Inv, PlacesOK, AwayOK
<1>. QED BY <1>2, <1>3, <1>4, <1>5, <1>6, <1>7, <1>8 DEF Inv, PlacesOK

LEMMA AfterTyped ==
    ASSUME TypeOK, NEW c \in CPU, NEW f \in {"NULL", "afterExLock", "pushTerminateQueue"},
           NEW a \in Sem \cup {NoSem},
           tm' = [tm EXCEPT ![c].after = [func |-> f, arg |-> a, old |-> tm[c].current]]
    PROVE  tm' \in [CPU -> [current : Task, after : Switch]]
<1>1. tm \in [CPU -> [current : Task, after : Switch]] /\ tm[c].current \in Task
  BY DEF TypeOK
<1>2. [func |-> f, arg |-> a, old |-> tm[c].current] \in Switch
  BY <1>1 DEF Switch
<1>. QED BY <1>1, <1>2

SemState == [quota : 0..MaxQuota, queue : Seq(Worker), locked : BOOLEAN, flag : BOOLEAN,
             push : BOOLEAN]
LEMMA SemTyped == TypeOK => sem \in [Sem -> SemState] /\ \A s \in Sem : sem[s] \in SemState
BY DEF TypeOK, SemState

\* What the lemmas above say together of a step of c on its stack u.
LEMMA StepView ==
    ASSUME NEW kind, NEW of, Inv(kind, of), NEW c \in CPU
    PROVE  \E u \in Task :
              /\ stack[c] = u /\ StackOK(u) /\ CpuOK(c)
              /\ at[c] = IF irq[u] = "none" THEN task[u] ELSE irq[u]
<1>1. TypeOK /\ stack[c] \in Task /\ GoodStacks = Task /\ GoodCpus = CPU
  BY DEF Inv, CodeOK, TypeOK
<1>2. at[c] = IF irq[stack[c]] = "none" THEN task[stack[c]] ELSE irq[stack[c]]
  BY <1>1, AtView
<1>. QED BY <1>1, <1>2 DEF GoodStacks, GoodCpus

Moved(c, u, step) ==
    /\ OthersSame(c, u) /\ pc' \in [Task \X Level -> TaskStep \cup IrqStep]
    /\ irq[u] = "none" => task'[u] = step /\ irq'[u] = "none" /\ at'[c] = step
    /\ irq[u] # "none" => /\ task'[u] = task[u] /\ irq'[u] = step
                          /\ at'[c] = IF step = "none" THEN task[u] ELSE step
LEMMA GotoMoved ==
    ASSUME NEW kind, NEW of, Inv(kind, of), NEW c \in CPU, NEW u \in Task, stack[c] = u,
           NEW step \in TaskStep \cup IrqStep, Goto(c, step), FieldsSame(c, u)
    PROVE  Moved(c, u, step)
<1>1. TypeOK /\ UNCHANGED stack /\ \A d, e \in CPU : stack[d] = stack[e] => d = e
  BY Exclusive DEF Inv, CodeOK, FieldsSame
<1>2. CASE irq[stack[c]] = "none"
  <2>1. /\ \A t \in Task : irq'[t] = irq[t] /\ task'[t] = IF t = stack[c] THEN step ELSE task[t]
        /\ \A d \in CPU : at'[d] = IF d = c THEN step ELSE at[d]
        /\ pc' \in [Task \X Level -> TaskStep \cup IrqStep]
    BY <1>1, <1>2, GotoTask
  <2>. QED BY <1>2, <2>1 DEF OthersSame, PlacesSame, Moved
<1>3. CASE irq[stack[c]] # "none"
  <2>1. /\ \A t \in Task : task'[t] = task[t] /\ irq'[t] = IF t = stack[c] THEN step ELSE irq[t]
        /\ \A d \in CPU : d # c => at'[d] = at[d]
        /\ at'[c] = IF step = "none" THEN task[stack[c]] ELSE step
        /\ pc' \in [Task \X Level -> TaskStep \cup IrqStep]
    BY <1>1, <1>3, GotoIrq
  <2>. QED BY <1>3, <2>1 DEF OthersSame, PlacesSame, Moved
<1>. QED BY <1>2, <1>3

LEMMA GotoFrame ==
    ASSUME NEW kind, NEW of, Inv(kind, of), NEW c \in CPU, NEW u \in Task, stack[c] = u,
           NEW step \in TaskStep \cup IrqStep, Goto(c, step), FieldsSame(c, u)
    PROVE  /\ OthersSame(c, u) /\ pc' \in [Task \X Level -> TaskStep \cup IrqStep]
           /\ irq[u] = "none" => task'[u] = step /\ irq'[u] = "none" /\ at'[c] = step
           /\ irq[u] # "none" => /\ task'[u] = task[u] /\ irq'[u] = step
                                 /\ at'[c] = IF step = "none" THEN task[u] ELSE step
<1>1. Moved(c, u, step)
  BY GotoMoved
<1>. QED BY <1>1 DEF Moved

\* A step of c that moves no task, outside of the part of taskSwitch that holds locks.
LEMMA QuietStep ==
    ASSUME NEW kind, NEW of, Inv(kind, of), NEW c \in CPU, NEW u \in Task, stack[c] = u,
           OthersSame(c, u), TypeOK', u \in GoodStacks', c \in GoodCpus', ExLockOK',
           at[c] \notin {"switch", "after", "func"}, at'[c] \notin {"switch", "after", "func"},
           tm'[c].current = tm[c].current, task'[u] = "free" <=> task[u] = "free",
           UNCHANGED <<globalQueue, globalLock, state, woken, terminateQueue>>,
           \A s \in Sem : sem'[s].queue = sem[s].queue
    PROVE  Inv(kind, of)'
<1>1. CodeOK /\ \A d \in CPU : d # c => stack[d] # u
  BY Exclusive DEF Inv
<1>2. SavedOK' /\ GoodStacks' = Task /\ GoodCpus' = CPU
  BY <1>1, OthersKept
<1>3. GlobalOK'
  BY <1>1 DEF CodeOK, GlobalOK, OthersSame, PlacesSame
<1>4. PlacesOK(kind, of)'
  <2>1. /\ at[c] # "switch" /\ at'[c] # "switch" /\ stack' = stack
        /\ \A d \in CPU : tm'[d].current = tm[d].current
        /\ \A d \in CPU : d # c => at'[d] = at[d] /\ tm'[d] = tm[d]
        /\ \A t \in Task : task'[t] = "free" <=> task[t] = "free"
        /\ \A t \in Task : t # stack[c] => irq'[t] = irq[t]
    BY DEF OthersSame, FieldsSame, PlacesSame
  <2>2. at[c] \notin {"after", "func"} /\ at'[c] \notin {"after", "func"}
    OBVIOUS
  <2>. QED BY <2>1, <2>2, PlacesKept
<1>. QED BY <1>1, <1>2, <1>3, <1>4 DEF Inv, CodeOK

\* One that does not become the holder of an exLock.lock either.
LEMMA ExLockKept ==
    ASSUME CodeOK, NEW c \in CPU, NEW u, OthersSame(c, u),
           at'[c] \in Mine => tm'[c].after.func # "afterExLock",
           \A s \in Sem : /\ sem'[s].locked = sem[s].locked /\ sem'[s].flag = sem[s].flag
                          /\ sem'[s].push = sem[s].push
    PROVE  ExLockOK'
<1>1. \A d \in CPU : d # c => (at'[d] \in Mine <=> at[d] \in Mine) /\ tm'[d] = tm[d]
  BY DEF OthersSame, FieldsSame, PlacesSame
<1>2. \A d \in CPU : \A s : Blocks(d, s)' => d # c /\ Blocks(d, s)
  BY <1>1 DEF Blocks
<1>. QED BY SMT, <1>1, <1>2 DEF CodeOK, ExLockOK

\* Only t moves.
Moves(kind, of, t, newKind, newOf, k, o) ==
    /\ k[t] = newKind /\ o[t] = newOf
    /\ \A x \in Task : x # t => k[x] = kind[x] /\ o[x] = of[x]
LEMMA MoveExists ==
    ASSUME NEW kind \in [Task -> Kind], NEW of \in [Task -> Owner], NEW t \in Task,
           NEW newKind \in Kind, NEW newOf \in Owner
    PROVE  \E k \in [Task -> Kind], o \in [Task -> Owner] : Moves(kind, of, t, newKind, newOf, k, o)
<1>. DEFINE k == [kind EXCEPT ![t] = newKind]
            o == [of EXCEPT ![t] = newOf]
<1>1. k \in [Task -> Kind] /\ o \in [Task -> Owner] /\ Moves(kind, of, t, newKind, newOf, k, o)
  BY DEF Moves
<1>. QED BY <1>1

\* What the places name are tasks.
TasksNamed ==
    /\ \A c \in CPU : tm[c].current \in Task /\ stack[c] \in Task
    /\ \A c \in CPU : at[c] \in Mine /\ tm[c].after.func # "NULL" => tm[c].after.old \in Task
    /\ \A x \in Task \X Level : woken[x] # NoTask => woken[x] \in Task
LEMMA Named == ASSUME NEW kind, NEW of, Inv(kind, of) PROVE TasksNamed
<1>1. TypeOK /\ GoodCpus = CPU
  BY DEF Inv, CodeOK
<1>2. \A c \in CPU : tm[c].current \in Task /\ stack[c] \in Task
  BY <1>1 DEF TypeOK
<1>3. \A c \in CPU : at[c] \in Mine /\ tm[c].after.func # "NULL" => tm[c].after.old \in Task
  BY <1>1 DEF GoodCpus, CpuOK, OldOK, Task
<1>4. \A x \in Task \X Level : woken[x] # NoTask => woken[x] \in Task
  BY <1>1 DEF TypeOK, Task
<1>. QED BY <1>2, <1>3, <1>4 DEF TasksNamed

\* A move leaves the places alone that it neither takes the task from nor puts it in.
LEMMA CurrentFrame ==
    ASSUME NEW kind, NEW of, NEW t \in Task, NEW newKind, NEW newOf, NEW k, NEW o,
           Moves(kind, of, t, newKind, newOf, k, o), kind[t] # "current", newKind # "current",
           TasksNamed, CurrentOK(kind, of), UNCHANGED tm
    PROVE  CurrentOK(k, o)'
BY DEF Moves, TasksNamed, CurrentOK

LEMMA ReadyFrame ==
    ASSUME NEW kind, NEW of, NEW t \in Task, NEW newKind, NEW newOf, NEW k, NEW o,
           Moves(kind, of, t, newKind, newOf, k, o), kind[t] # "ready", newKind # "ready",
           ReadyOK(kind), UNCHANGED globalQueue
    PROVE  ReadyOK(k)'
<1>1. \A p : Ready(k, p) = Ready(kind, p)
  BY DEF Moves, Ready
<1>. QED BY <1>1 DEF ReadyOK, ReadyAt

LEMMA InTransitFrame ==
    ASSUME NEW kind, NEW of, NEW t \in Task, NEW newKind, NEW newOf, NEW k, NEW o,
           Moves(kind, of, t, newKind, newOf, k, o), kind[t] # "transit", newKind # "transit",
           TasksNamed, InTransitOK(kind, of), UNCHANGED tm,
           \A d \in CPU : at'[d] \in {"switch", "after", "func"} <=> at[d] \in {"switch", "after", "func"}
    PROVE  InTransitOK(k, o)'
<1>1. \A d \in CPU : at[d] \in {"switch", "after", "func"} /\ tm[d].after.func # "NULL" =>
          tm[d].after.old \in Task
  BY DEF TasksNamed, Mine
<1>. QED BY SMT, <1>1 DEF Moves, InTransitOK

LEMMA WaitingFrame ==
    ASSUME NEW kind, NEW of, NEW t \in Task, NEW newKind, NEW newOf, NEW k, NEW o,
           Moves(kind, of, t, newKind, newOf, k, o), kind[t] # "waiting", newKind # "waiting",
           WaitingOK(kind, of), \A s \in Sem : sem'[s].queue = sem[s].queue
    PROVE  WaitingOK(k, o)'
<1>1. \A s : Waiting(k, o, s) = Waiting(kind, of, s)
  BY DEF Moves, Waiting
<1>2. \A x \in Task : k[x] = "waiting" => o[x] \in Sem
  BY DEF Moves, WaitingOK
<1>. QED BY <1>1, <1>2 DEF WaitingOK

LEMMA WokenFrame ==
    ASSUME NEW kind, NEW of, NEW t \in Task, NEW newKind, NEW newOf, NEW k, NEW o,
           Moves(kind, of, t, newKind, newOf, k, o), kind[t] # "woken", newKind # "woken",
           TasksNamed, WokenOK(kind, of), UNCHANGED woken
    PROVE  WokenOK(k, o)'
BY SMT DEF Moves, TasksNamed, WokenOK

LEMMA TerminatedFrame ==
    ASSUME NEW kind, NEW of, NEW t \in Task, NEW newKind, NEW newOf, NEW k, NEW o,
           Moves(kind, of, t, newKind, newOf, k, o), kind[t] # "terminated", newKind # "terminated",
           TerminatedOK(kind), UNCHANGED terminateQueue
    PROVE  TerminatedOK(k)'
<1>1. Terminated(k) = Terminated(kind)
  BY DEF Moves, Terminated
<1>. QED BY <1>1 DEF TerminatedOK

Away == {"transit", "waiting", "woken", "terminated"}
LEMMA AwayFrame ==
    ASSUME NEW kind, NEW of, NEW t \in Task, NEW newKind, NEW newOf, NEW k, NEW o,
           Moves(kind, of, t, newKind, newOf, k, o), TasksNamed, AwayOK(kind), FreeOK(kind),
           kind[t] # "ready", UNCHANGED <<tm, stack>>,
           newKind \in Away => irq'[t] = "none" /\ state'[t] = "SUSPENDED",
           (newKind = "free") <=> task'[t] = "free",
           \A x \in Task : x # t => task'[x] = "free" <=> task[x] = "free",
           \A x \in Task : x # t /\ kind[x] \in Away => irq'[x] = irq[x] /\ state'[x] = state[x],
           \A d \in CPU : at'[d] = "switch" => at[d] = "switch"
    PROVE  FreeOK(k)' /\ AwayOK(k)'
<1>1. FreeOK(k)'
  BY ZenonT(30) DEF Moves, FreeOK
<1>2. \A x \in Task : k[x] \in Away => irq'[x] = "none" /\ state'[x] = "SUSPENDED"
  BY SMT DEF Moves, AwayOK, Away
<1>3. \A d \in CPU : at'[d] = "switch" /\ tm'[d].after.func = "NULL" => k[stack'[d]] = "ready"
  BY SMT DEF Moves, AwayOK, TasksNamed
<1>. QED BY <1>1, <1>2, <1>3 DEF AwayOK, Away

\* It takes the task out of one place ...
LEMMA InTransitLeaves ==
    ASSUME NEW kind, NEW of, NEW t \in Task, NEW newKind, NEW newOf, NEW k, NEW o, NEW c \in CPU,
           Moves(kind, of, t, newKind, newOf, k, o), newKind # "transit", tm[c].after.old = t,
           TasksNamed, InTransitOK(kind, of), UNCHANGED tm,
           at[c] = "func", at'[c] = "clear", \A d \in CPU : d # c => at'[d] = at[d],
           tm[c].after.func # "NULL"
    PROVE  InTransitOK(k, o)'
<1>1. kind[t] = "transit" /\ of[t] = c
  BY DEF InTransitOK
<1>2. ASSUME NEW x \in Task, k[x] = "transit"
      PROVE  /\ o[x] \in CPU /\ at'[o[x]] \in {"switch", "after", "func"}
             /\ tm[o[x]].after.func # "NULL" /\ tm[o[x]].after.old = x
  <2>1. x # t /\ kind[x] = "transit" /\ o[x] = of[x]
    BY <1>2 DEF Moves
  <2>. QED BY SMT, <2>1 DEF InTransitOK
<1>3. ASSUME NEW d \in CPU, at'[d] \in {"switch", "after", "func"}, tm[d].after.func # "NULL"
      PROVE  k[tm[d].after.old] = "transit" /\ o[tm[d].after.old] = d
  <2>1. d # c /\ at[d] = at'[d]
    BY <1>3
  <2>2. kind[tm[d].after.old] = "transit" /\ of[tm[d].after.old] = d
    BY <1>3, <2>1 DEF InTransitOK
  <2>3. tm[d].after.old \in Task
    BY <1>3, <2>1 DEF TasksNamed, Mine
  <2>. QED BY <1>1, <2>1, <2>2, <2>3 DEF Moves
<1>. QED BY <1>2, <1>3 DEF InTransitOK

LEMMA WaitingLeaves ==
    ASSUME NEW kind, NEW of, NEW t \in Task, NEW newKind, NEW newOf, NEW k, NEW o, NEW s \in Sem,
           Moves(kind, of, t, newKind, newOf, k, o), newKind # "waiting",
           WaitingOK(kind, of), sem[s].queue # <<>>, t = Head(sem[s].queue),
           sem'[s].queue = Tail(sem[s].queue), \A z \in Sem : z # s => sem'[z].queue = sem[z].queue
    PROVE  kind[t] = "waiting" /\ WaitingOK(k, o)'
<1>1. \A z \in Sem : Holds(sem[z].queue, Waiting(kind, of, z))
  BY DEF WaitingOK
<1>2. t \in Waiting(kind, of, s) /\ Holds(sem'[s].queue, Waiting(kind, of, s) \ {t})
  BY <1>1, HoldsTail
<1>3. /\ Waiting(k, o, s) = Waiting(kind, of, s) \ {t}
      /\ \A z \in Sem : z # s => Waiting(k, o, z) = Waiting(kind, of, z)
  BY <1>2 DEF Moves, Waiting
<1>4. \A x \in Task : k[x] = "waiting" => o[x] \in Sem
  BY DEF Moves, WaitingOK
<1>5. \A z \in Sem : Holds(sem'[z].queue, Waiting(k, o, z))
  BY <1>1, <1>2, <1>3
<1>. QED BY <1>2, <1>4, <1>5 DEF WaitingOK, Waiting

LEMMA WokenLeaves ==
    ASSUME NEW kind, NEW of, NEW t \in Task, NEW newKind, NEW newOf, NEW k, NEW o, NEW x \in Task \X Level,
           Moves(kind, of, t, newKind, newOf, k, o), newKind # "woken", woken \in [Task \X Level -> Worker \cup {NoTask}],
           TasksNamed, WokenOK(kind, of), woken[x] = t, woken' = [woken EXCEPT ![x] = NoTask]
    PROVE  kind[t] = "woken" /\ WokenOK(k, o)'
<1>1. kind[t] = "woken" /\ of[t] = x
  BY TaskSwitchAssumption DEF WokenOK
<1>2. woken'[x] = NoTask /\ \A y \in Task \X Level : y # x => woken'[y] = woken[y]
  OBVIOUS
<1>. HIDE DEF Level
<1>. QED BY SMT, <1>1, <1>2 DEF Moves, TasksNamed, WokenOK

LEMMA TerminatedLeaves ==
    ASSUME NEW kind, NEW of, NEW t \in Task, NEW newKind, NEW newOf, NEW k, NEW o,
           Moves(kind, of, t, newKind, newOf, k, o), newKind # "terminated",
           TerminatedOK(kind), terminateQueue # <<>>, t = Head(terminateQueue),
           terminateQueue' = Tail(terminateQueue)
    PROVE  kind[t] = "terminated" /\ TerminatedOK(k)'
<1>1. t \in Terminated(kind) /\ Holds(terminateQueue', Terminated(kind) \ {t})
  BY HoldsTail DEF TerminatedOK
<1>2. Terminated(k) = Terminated(kind) \ {t}
  BY DEF Moves, Terminated
<1>. QED BY <1>1, <1>2 DEF TerminatedOK, Terminated

\* ... and puts it into another.
LEMMA PushTyped ==
    ASSUME NEW q \in [0..(NUMBER_OF_PRIORITIES - 1) -> Seq(Task)], NEW t \in Task
    PROVE  PushQueue(q, t) \in [0..(NUMBER_OF_PRIORITIES - 1) -> Seq(Task)]
<1>. DEFINE P == 0..(NUMBER_OF_PRIORITIES - 1)
<1>1. priority[t] \in P /\ q \in [P -> Seq(Task)]
  BY TaskSwitchAssumption
<1>. HIDE DEF P
<1>2. Append(q[priority[t]], t) \in Seq(Task)
  <2>1. \A s \in Seq(Task) : Append(s, t) \in Seq(Task)
    BY SMT
  <2>2. q[priority[t]] \in Seq(Task)
    BY <1>1
  <2>. QED BY <2>1, <2>2
<1>3. PushQueue(q, t) \in [P -> Seq(Task)]
  BY <1>1, <1>2 DEF PushQueue
<1>. QED BY <1>3 DEF P

LEMMA ReadyPush ==
    ASSUME NEW kind, NEW of, NEW t \in Task, NEW newOf, NEW k, NEW o,
           Moves(kind, of, t, "ready", newOf, k, o), kind[t] # "ready",
           NEW q \in [0..(NUMBER_OF_PRIORITIES - 1) -> Seq(Task)], ReadyAt(kind, q)
    PROVE  ReadyAt(k, PushQueue(q, t))
<1>. DEFINE P == 0..(NUMBER_OF_PRIORITIES - 1)
            r == priority[t]
            push == PushQueue(q, t)
<1>1. r \in P /\ q \in [P -> Seq(Task)]
  BY TaskSwitchAssumption
<1>. HIDE DEF P, r
<1>2. push[r] = Append(q[r], t) /\ \A p \in P : p # r => push[p] = q[p]
  BY <1>1 DEF PushQueue, r
<1>3. \A p \in P : Holds(q[p], Ready(kind, p))
  BY DEF ReadyAt, P
<1>. HIDE DEF push
<1>4. Holds(push[r], Ready(kind, r) \cup {t})
  <2>1. t \notin Ready(kind, r)
    BY DEF Ready
  <2>. QED BY SMT, <1>1, <1>2, <1>3, <2>1, HoldsAppend
<1>5. Ready(k, r) = Ready(kind, r) \cup {t} /\ \A p \in P : p # r => Ready(k, p) = Ready(kind, p)
  BY DEF Moves, Ready, r
<1>6. \A p \in P : Holds(push[p], Ready(k, p))
  BY <1>1, <1>2, <1>3, <1>4, <1>5
<1>. QED BY <1>6 DEF ReadyAt, P, push

LEMMA ReadyJoins ==
    ASSUME NEW kind, NEW of, NEW t \in Task, NEW newOf, NEW k, NEW o,
           Moves(kind, of, t, "ready", newOf, k, o), kind[t] # "ready",
           TypeOK, ReadyOK(kind), globalQueue' = PushQueue(globalQueue, t)
    PROVE  ReadyOK(k)'
<1>1. globalQueue \in [0..(NUMBER_OF_PRIORITIES - 1) -> Seq(Task)]
  BY DEF TypeOK
<1>. QED BY <1>1, ReadyPush DEF ReadyOK

\* popPriorityQueue takes a ready task.
LEMMA FirstIn ==
    ASSUME NEW q, NonEmpty(q) # {}
    PROVE  First(q) \in 0..(NUMBER_OF_PRIORITIES - 1) /\ q[First(q)] # <<>>
<1>1. NonEmpty(q) \subseteq {0, 1, 2, 3}
  BY SMT DEF NonEmpty, NUMBER_OF_PRIORITIES
<1>2. \E p \in NonEmpty(q) : \A r \in NonEmpty(q) : p <= r
  <2>1. CASE 0 \in NonEmpty(q)
    BY SMT, <1>1, <2>1
  <2>2. CASE 0 \notin NonEmpty(q) /\ 1 \in NonEmpty(q)
    BY SMT, <1>1, <2>2
  <2>3. CASE 0 \notin NonEmpty(q) /\ 1 \notin NonEmpty(q) /\ 2 \in NonEmpty(q)
    BY SMT, <1>1, <2>3
  <2>4. CASE 0 \notin NonEmpty(q) /\ 1 \notin NonEmpty(q) /\ 2 \notin NonEmpty(q)
    BY SMT, <1>1, <2>4
  <2>. QED BY <2>1, <2>2, <2>3, <2>4
<1>3. First(q) \in NonEmpty(q)
  BY <1>2 DEF First
<1>. QED BY <1>3 DEF NonEmpty

LEMMA ReadyPop ==
    ASSUME NEW kind, NEW q \in [0..(NUMBER_OF_PRIORITIES - 1) -> Seq(Task)], ReadyAt(kind, q),
           NonEmpty(q) # {}, NEW t, t = Head(q[First(q)])
    PROVE  /\ t \in Task /\ kind[t] = "ready"
           /\ [q EXCEPT ![First(q)] = Tail(@)] \in [0..(NUMBER_OF_PRIORITIES - 1) -> Seq(Task)]
           /\ \A of, newKind, newOf, k, o :
                 Moves(kind, of, t, newKind, newOf, k, o) /\ newKind # "ready" =>
                     ReadyAt(k, [q EXCEPT ![First(q)] = Tail(@)])
<1>. DEFINE P == 0..(NUMBER_OF_PRIORITIES - 1)
            r == First(q)
            pop == [q EXCEPT ![r] = Tail(@)]
<1>1. r \in P /\ q \in [P -> Seq(Task)] /\ q[r] # <<>>
  BY FirstIn
<1>. HIDE DEF P, r
<1>2. \A p \in P : Holds(q[p], Ready(kind, p))
  BY DEF ReadyAt, P
<1>3. t \in Task /\ t \in Ready(kind, r) /\ Holds(Tail(q[r]), Ready(kind, r) \ {t})
  BY <1>1, <1>2, HoldsTail DEF r
<1>4. pop[r] = Tail(q[r]) /\ \A p \in P : p # r => pop[p] = q[p]
  BY <1>1
<1>5. pop \in [P -> Seq(Task)]
  <2>1. Tail(q[r]) \in Seq(Task)
    BY <1>3 DEF Holds
  <2>. QED BY <1>1, <2>1
<1>. HIDE DEF pop
<1>6. ASSUME NEW of, NEW newKind, NEW newOf, NEW k, NEW o,
             Moves(kind, of, t, newKind, newOf, k, o), newKind # "ready"
      PROVE  ReadyAt(k, pop)
  <2>1. Ready(k, r) = Ready(kind, r) \ {t} /\ \A p \in P : p # r => Ready(k, p) = Ready(kind, p)
    BY <1>3, <1>6 DEF Moves, Ready
  <2>2. \A p \in P : Holds(pop[p], Ready(k, p))
    BY <1>1, <1>2, <1>3, <1>4, <2>1
  <2>. QED BY <2>2 DEF ReadyAt, P
<1>. QED BY <1>3, <1>5, <1>6 DEF Ready, P, r, pop

LEMMA WaitingJoins ==
    ASSUME NEW kind, NEW of, NEW t \in Task, NEW k, NEW o, NEW s \in Sem,
           Moves(kind, of, t, "waiting", s, k, o), kind[t] # "waiting",
           WaitingOK(kind, of), sem'[s].queue = Append(sem[s].queue, t),
           \A z \in Sem : z # s => sem'[z].queue = sem[z].queue
    PROVE  WaitingOK(k, o)'
<1>1. \A z \in Sem : Holds(sem[z].queue, Waiting(kind, of, z))
  BY DEF WaitingOK
<1>2. Holds(sem'[s].queue, Waiting(kind, of, s) \cup {t})
  <2>1. t \notin Waiting(kind, of, s)
    BY DEF Waiting
  <2>. QED BY SMT, <1>1, <2>1, HoldsAppend
<1>3. /\ Waiting(k, o, s) = Waiting(kind, of, s) \cup {t}
      /\ \A z \in Sem : z # s => Waiting(k, o, z) = Waiting(kind, of, z)
  BY DEF Moves, Waiting
<1>4. \A x \in Task : k[x] = "waiting" => o[x] \in Sem
  BY DEF Moves, WaitingOK
<1>5. \A z \in Sem : Holds(sem'[z].queue, Waiting(k, o, z))
  BY <1>1, <1>2, <1>3
<1>. QED BY <1>4, <1>5 DEF WaitingOK

LEMMA WokenJoins ==
    ASSUME NEW kind, NEW of, NEW t \in Task, NEW k, NEW o, NEW x \in Task \X Level,
           Moves(kind, of, t, "woken", x, k, o), kind[t] # "woken", woken \in [Task \X Level -> Worker \cup {NoTask}],
           TasksNamed, WokenOK(kind, of), woken[x] = NoTask, woken' = [woken EXCEPT ![x] = t]
    PROVE  WokenOK(k, o)'
<1>1. woken'[x] = t /\ \A y \in Task \X Level : y # x => woken'[y] = woken[y]
  OBVIOUS
<1>2. ASSUME NEW u \in Task, k[u] = "woken"
      PROVE  o[u] \in Task \X Level /\ woken'[o[u]] = u
  <2>1. CASE u = t
    BY <1>1, <2>1 DEF Moves
  <2>2. CASE u # t
    <3>1. kind[u] = "woken" /\ o[u] = of[u]
      BY <1>2, <2>2 DEF Moves
    <3>2. of[u] \in Task \X Level /\ woken[of[u]] = u
      BY <3>1 DEF WokenOK
    <3>3. of[u] # x
      BY <3>2, TaskSwitchAssumption
    <3>. QED BY <1>1, <3>1, <3>2, <3>3
  <2>. QED BY <2>1, <2>2
<1>3. ASSUME NEW y \in Task \X Level, woken'[y] # NoTask
      PROVE  k[woken'[y]] = "woken" /\ o[woken'[y]] = y
  <2>1. CASE y = x
    BY <1>1, <2>1 DEF Moves
  <2>2. CASE y # x
    <3>1. woken'[y] = woken[y]
      BY <1>1, <2>2
    <3>2. woken[y] \in Task /\ kind[woken[y]] = "woken" /\ of[woken[y]] = y
      BY <1>3, <3>1 DEF TasksNamed, WokenOK
    <3>3. woken[y] # t
      BY <3>2
    <3>. QED BY <3>1, <3>2, <3>3 DEF Moves
  <2>. QED BY <2>1, <2>2
<1>. QED BY <1>2, <1>3 DEF WokenOK

LEMMA TerminatedJoins ==
    ASSUME NEW kind, NEW of, NEW t \in Task, NEW newOf, NEW k, NEW o,
           Moves(kind, of, t, "terminated", newOf, k, o), kind[t] # "terminated",
           TerminatedOK(kind), terminateQueue' = Append(terminateQueue, t)
    PROVE  TerminatedOK(k)'
<1>1. Holds(terminateQueue', Terminated(kind) \cup {t})
  <2>1. t \notin Terminated(kind)
    BY DEF Terminated
  <2>. QED BY <2>1, HoldsAppend DEF TerminatedOK
<1>2. Terminated(k) = Terminated(kind) \cup {t}
  BY DEF Moves, Terminated
<1>. QED BY <1>1, <1>2 DEF TerminatedOK

----------------------------------------------------------------------------
\* Interrupts

LEMMA InterruptInv ==
    ASSUME NEW kind, NEW of, Inv(kind, of), NEW c \in CPU, Interrupt(c)
    PROVE  Inv(kind, of)'
<1>1. PICK u \in Task : /\ stack[c] = u /\ StackOK(u) /\ CpuOK(c)
                        /\ at[c] = IF irq[u] = "none" THEN task[u] ELSE irq[u]
  BY StepView
<1>2. /\ intr' = [intr EXCEPT ![c] = FALSE]
      /\ UNCHANGED <<globalQueue, globalLock, state, tm, stack, sem, woken, ptr, want, terminateQueue>>
  BY DEF Interrupt
<1>3. TypeOK /\ CodeOK /\ \A d, e \in CPU : stack[d] = stack[e] => d = e
  BY Exclusive DEF Inv, CodeOK
<1>4. /\ \A t \in Task : task'[t] = task[t] /\ irq'[t] = IF t = stack[c] THEN "handler" ELSE irq[t]
      /\ \A d \in CPU : at'[d] = IF d = c THEN "handler" ELSE at[d]
      /\ pc' \in [Task \X Level -> TaskStep \cup IrqStep]
      /\ irq[stack[c]] = "none" /\ intr[c] = TRUE
  BY <1>3, GotoHandler
<1>5. TypeOK' /\ \A d \in CPU : intr'[d] = IF d = c THEN FALSE ELSE intr[d]
  BY <1>2, <1>3, <1>4 DEF TypeOK
<1>6. OthersSame(c, u)
  BY <1>1, <1>2, <1>4, <1>5 DEF OthersSame, FieldsSame, PlacesSame
<1>7. at[c] \in {"run", "resume", "reap", "leave"} /\ task[u] = at[c]
  BY <1>1, <1>4 DEF CpuOK, RunOK
<1>8. u \in GoodStacks'
  BY <1>1, <1>2, <1>4, <1>7 DEF GoodStacks, StackOK, IrqStep
<1>9. c \in GoodCpus'
  BY <1>1, <1>2, <1>4, <1>5, <1>7 DEF GoodCpus, CpuOK, RunOK, SwitchOK, PtrOK, OldOK, Mine
<1>10. ExLockOK'
  BY <1>2, <1>3, <1>4, <1>6, ExLockKept DEF Mine
<1>. QED BY <1>1, <1>2, <1>4, <1>5, <1>6, <1>7, <1>8, <1>9, <1>10, QuietStep

LEMMA ReturnFromInterruptInv ==
    ASSUME NEW kind, NEW of, Inv(kind, of), NEW c \in CPU, ReturnFromInterrupt(c)
    PROVE  Inv(kind, of)'
<1>1. PICK u \in Task : /\ stack[c] = u /\ StackOK(u) /\ CpuOK(c)
                        /\ at[c] = IF irq[u] = "none" THEN task[u] ELSE irq[u]
  BY StepView
<1>2. TypeOK /\ CodeOK /\ at[c] = At(c)
  BY AtView DEF Inv, CodeOK
<1>3. /\ at[c] = "handler" /\ Goto(c, "none")
      /\ intr' = [intr EXCEPT ![c] = TRUE]
      /\ UNCHANGED <<globalQueue, globalLock, state, tm, stack, sem, woken, ptr, want, terminateQueue>>
  BY <1>1, <1>2 DEF ReturnFromInterrupt
<1>4. irq[u] # "none" /\ irq[u] = "handler" /\ "none" \in TaskStep \cup IrqStep
  BY <1>1, <1>3 DEF StackOK, TaskStep, IrqStep, InSwitch
<1>5. /\ FieldsSame(c, u) /\ tm'[c].current = tm[c].current
      /\ intr'[c] = TRUE
  BY <1>1, <1>2, <1>3, <1>4 DEF TypeOK, StackOK, FieldsSame
<1>6. /\ OthersSame(c, u) /\ pc' \in [Task \X Level -> TaskStep \cup IrqStep]
      /\ task'[u] = task[u] /\ irq'[u] = "none" /\ at'[c] = task[u]
  BY <1>1, <1>3, <1>4, <1>5, GotoFrame
<1>7. TypeOK'
  BY <1>2, <1>3, <1>6 DEF TypeOK
<1>8. u \in GoodStacks'
  BY <1>1, <1>3, <1>4, <1>5, <1>6 DEF GoodStacks, StackOK, TaskStep, IrqStep, InSwitch
<1>9. c \in GoodCpus'
  BY <1>1, <1>3, <1>4, <1>5, <1>6
     DEF GoodCpus, CpuOK, StackOK, RunOK, SwitchOK, PtrOK, OldOK, Mine, InSwitch
<1>10. ExLockOK'
  BY <1>1, <1>2, <1>3, <1>4, <1>5, <1>6, ExLockKept DEF StackOK, Mine
<1>. QED BY <1>1, <1>3, <1>4, <1>5, <1>6, <1>7, <1>8, <1>9, <1>10, QuietStep DEF StackOK

LEMMA ScheduleInv ==
    ASSUME NEW kind, NEW of, Inv(kind, of), NEW c \in CPU, schedule(c)
    PROVE  Inv(kind, of)'
<1>1. PICK u \in Task : /\ stack[c] = u /\ StackOK(u) /\ CpuOK(c)
                        /\ at[c] = IF irq[u] = "none" THEN task[u] ELSE irq[u]
  BY StepView
<1>2. TypeOK /\ CodeOK /\ at[c] = At(c)
  BY AtView DEF Inv, CodeOK
<1>3. /\ at[c] = "handler" /\ Goto(c, "enter")
      /\ tm' = [tm EXCEPT ![c].after = [func |-> "NULL", arg |-> NoSem, old |-> tm[c].current]]
      /\ UNCHANGED <<globalQueue, globalLock, state, stack, intr, sem, woken, ptr, want, terminateQueue>>
  BY <1>1, <1>2 DEF schedule, EnterSwitch
<1>4. irq[u] # "none" /\ irq[u] = "handler" /\ "enter" \in TaskStep \cup IrqStep
  BY <1>1, <1>3 DEF StackOK, TaskStep, IrqStep, InSwitch
<1>5. /\ FieldsSame(c, u) /\ tm'[c].current = tm[c].current
      /\ tm'[c].after.func = "NULL" /\ tm'[c].after.old = tm[c].current /\ tm'[c].after.arg = NoSem
  BY SMT, <1>1, <1>2, <1>3, <1>4 DEF TypeOK, StackOK, FieldsSame
<1>6. /\ OthersSame(c, u) /\ pc' \in [Task \X Level -> TaskStep \cup IrqStep]
      /\ task'[u] = task[u] /\ irq'[u] = "enter" /\ at'[c] = "enter"
  BY <1>1, <1>3, <1>4, <1>5, GotoFrame
<1>7. TypeOK'
  BY <1>2, <1>3, <1>6, AfterTyped DEF TypeOK
<1>8. u \in GoodStacks'
  BY <1>1, <1>3, <1>4, <1>5, <1>6 DEF GoodStacks, StackOK, TaskStep, IrqStep, InSwitch
<1>9. c \in GoodCpus'
  BY <1>1, <1>3, <1>4, <1>5, <1>6
     DEF GoodCpus, CpuOK, StackOK, RunOK, SwitchOK, PtrOK, OldOK, Mine, InSwitch
<1>10. ExLockOK'
  BY <1>1, <1>2, <1>3, <1>4, <1>5, <1>6, ExLockKept DEF StackOK, Mine
<1>. QED BY <1>1, <1>3, <1>4, <1>5, <1>6, <1>7, <1>8, <1>9, <1>10, QuietStep DEF StackOK

----------------------------------------------------------------------------
\* Semaphores: the way in

LEMMA BeginAcquireInv ==
    ASSUME NEW kind, NEW of, Inv(kind, of), NEW c \in CPU, NEW s \in Sem, BeginAcquire(c, s)
    PROVE  Inv(kind, of)'
<1>1. PICK u \in Task : /\ stack[c] = u /\ StackOK(u) /\ CpuOK(c)
                        /\ at[c] = IF irq[u] = "none" THEN task[u] ELSE irq[u]
  BY StepView
<1>2. TypeOK /\ CodeOK /\ at[c] = At(c)
  BY AtView DEF Inv, CodeOK
<1>3. /\ at[c] = "run" /\ Goto(c, "lock") /\ u \in Worker
      /\ want' = [want EXCEPT ![u] = s] /\ intr' = [intr EXCEPT ![c] = FALSE]
      /\ UNCHANGED <<globalQueue, globalLock, state, tm, stack, sem, woken, ptr, terminateQueue>>
  BY <1>1, <1>2 DEF BeginAcquire
<1>4. irq[u] = "none" /\ task[u] = "run" /\ "lock" \in TaskStep \cup IrqStep
  BY <1>1, <1>3 DEF StackOK, TaskStep, IrqStep, InSwitch
<1>5. /\ FieldsSame(c, u) /\ tm'[c].current = tm[c].current
      /\ want'[u] = s /\ intr'[c] = FALSE
  BY <1>1, <1>2, <1>3, <1>4 DEF TypeOK, StackOK, FieldsSame
<1>6. /\ OthersSame(c, u) /\ pc' \in [Task \X Level -> TaskStep \cup IrqStep]
      /\ task'[u] = "lock" /\ irq'[u] = "none" /\ at'[c] = "lock"
  BY <1>1, <1>3, <1>4, <1>5, GotoFrame
<1>7. TypeOK'
  BY <1>2, <1>3, <1>6 DEF TypeOK
<1>8. u \in GoodStacks'
  BY <1>1, <1>3, <1>4, <1>5, <1>6 DEF GoodStacks, StackOK, TaskStep, IrqStep, InSwitch
<1>9. c \in GoodCpus'
  BY <1>1, <1>3, <1>4, <1>5, <1>6
     DEF GoodCpus, CpuOK, StackOK, RunOK, SwitchOK, PtrOK, OldOK, Mine, InSwitch
<1>10. ExLockOK'
  BY <1>1, <1>2, <1>3, <1>4, <1>5, <1>6, ExLockKept DEF StackOK, Mine
<1>. QED BY <1>1, <1>3, <1>4, <1>5, <1>6, <1>7, <1>8, <1>9, <1>10, QuietStep DEF StackOK

LEMMA AcquireSucceedsInv ==
    ASSUME NEW kind, NEW of, Inv(kind, of), NEW c \in CPU, AcquireSucceeds(c)
    PROVE  Inv(kind, of)'
<1>1. PICK u \in Task : /\ stack[c] = u /\ StackOK(u) /\ CpuOK(c)
                        /\ at[c] = IF irq[u] = "none" THEN task[u] ELSE irq[u]
  BY StepView
<1>2. TypeOK /\ CodeOK /\ at[c] = At(c)
  BY AtView DEF Inv, CodeOK
<1>3. /\ at[c] = "lock" /\ Goto(c, "run")
      /\ want' = [want EXCEPT ![u] = NoSem] /\ intr' = [intr EXCEPT ![c] = TRUE]
      /\ sem[want[u]].quota >= 1 /\ sem' = [sem EXCEPT ![want[u]].quota = @ - 1]
      /\ UNCHANGED <<globalQueue, globalLock, state, tm, stack, woken, ptr, terminateQueue>>
  BY <1>1, <1>2 DEF AcquireSucceeds
<1>4. irq[u] = "none" /\ task[u] = "lock" /\ "run" \in TaskStep \cup IrqStep
  BY <1>1, <1>3 DEF StackOK, TaskStep, IrqStep, InSwitch
<1>5. /\ FieldsSame(c, u) /\ tm'[c].current = tm[c].current
      /\ want'[u] = NoSem /\ intr'[c] = TRUE
      /\ \A s \in Sem : /\ sem'[s].locked = sem[s].locked /\ sem'[s].flag = sem[s].flag
                      /\ sem'[s].push = sem[s].push /\ sem'[s].queue = sem[s].queue
  BY SMT, <1>1, <1>2, <1>3, <1>4 DEF TypeOK, StackOK, FieldsSame
<1>6. /\ OthersSame(c, u) /\ pc' \in [Task \X Level -> TaskStep \cup IrqStep]
      /\ task'[u] = "run" /\ irq'[u] = "none" /\ at'[c] = "run"
  BY <1>1, <1>3, <1>4, <1>5, GotoFrame
<1>7. TypeOK'
  <2>1. PICK s \in Sem : s = want[u]
    BY <1>1, <1>4 DEF StackOK
  <2>2. sem[s].quota \in 0..MaxQuota /\ sem[s].quota >= 1
    BY <1>2, <1>3, <2>1 DEF TypeOK
  <2>3. sem[s].quota - 1 \in 0..MaxQuota
    BY SMT, <2>2, TaskSwitchAssumption
  <2>4. sem' = [sem EXCEPT ![s] = [sem[s] EXCEPT !.quota = sem[s].quota - 1]]
    BY <1>2, <1>3, <2>1 DEF TypeOK
  <2>5. sem' \in [Sem -> SemState]
    BY <1>2, <2>3, <2>4, SemTyped DEF SemState
  <2>. QED BY <1>2, <1>3, <1>6, <2>5 DEF TypeOK, SemState
<1>8. u \in GoodStacks'
  BY <1>1, <1>3, <1>4, <1>5, <1>6 DEF GoodStacks, StackOK, TaskStep, IrqStep, InSwitch
<1>9. c \in GoodCpus'
  BY <1>1, <1>3, <1>4, <1>5, <1>6
     DEF GoodCpus, CpuOK, StackOK, RunOK, SwitchOK, PtrOK, OldOK, Mine, InSwitch
<1>10. ExLockOK'
  BY <1>1, <1>2, <1>3, <1>4, <1>5, <1>6, ExLockKept DEF StackOK, Mine
<1>. QED BY <1>1, <1>3, <1>4, <1>5, <1>6, <1>7, <1>8, <1>9, <1>10, QuietStep DEF StackOK

LEMMA TryAcquireFailsInv ==
    ASSUME NEW kind, NEW of, Inv(kind, of), NEW c \in CPU, TryAcquireFails(c)
    PROVE  Inv(kind, of)'
<1>1. PICK u \in Task : /\ stack[c] = u /\ StackOK(u) /\ CpuOK(c)
                        /\ at[c] = IF irq[u] = "none" THEN task[u] ELSE irq[u]
  BY StepView
<1>2. TypeOK /\ CodeOK /\ at[c] = At(c)
  BY AtView DEF Inv, CodeOK
<1>3. /\ at[c] = "lock" /\ Goto(c, "run")
      /\ want' = [want EXCEPT ![u] = NoSem] /\ intr' = [intr EXCEPT ![c] = TRUE]
      /\ UNCHANGED <<globalQueue, globalLock, state, tm, stack, sem, woken, ptr, terminateQueue>>
  BY <1>1, <1>2 DEF TryAcquireFails
<1>4. irq[u] = "none" /\ task[u] = "lock" /\ "run" \in TaskStep \cup IrqStep
  BY <1>1, <1>3 DEF StackOK, TaskStep, IrqStep, InSwitch
<1>5. /\ FieldsSame(c, u) /\ tm'[c].current = tm[c].current
      /\ want'[u] = NoSem /\ intr'[c] = TRUE
  BY <1>1, <1>2, <1>3, <1>4 DEF TypeOK, StackOK, FieldsSame
<1>6. /\ OthersSame(c, u) /\ pc' \in [Task \X Level -> TaskStep \cup IrqStep]
      /\ task'[u] = "run" /\ irq'[u] = "none" /\ at'[c] = "run"
  BY <1>1, <1>3, <1>4, <1>5, GotoFrame
<1>7. TypeOK'
  BY <1>2, <1>3, <1>6 DEF TypeOK
<1>8. u \in GoodStacks'
  BY <1>1, <1>3, <1>4, <1>5, <1>6 DEF GoodStacks, StackOK, TaskStep, IrqStep, InSwitch
<1>9. c \in GoodCpus'
  BY <1>1, <1>3, <1>4, <1>5, <1>6
     DEF GoodCpus, CpuOK, StackOK, RunOK, SwitchOK, PtrOK, OldOK, Mine, InSwitch
<1>10. ExLockOK'
  BY <1>1, <1>2, <1>3, <1>4, <1>5, <1>6, ExLockKept DEF StackOK, Mine
<1>. QED BY <1>1, <1>3, <1>4, <1>5, <1>6, <1>7, <1>8, <1>9, <1>10, QuietStep DEF StackOK

LEMMA AcquireBlocksInv ==
    ASSUME NEW kind, NEW of, Inv(kind, of), NEW c \in CPU, AcquireBlocks(c)
    PROVE  Inv(kind, of)'
<1>1. PICK u \in Task : /\ stack[c] = u /\ StackOK(u) /\ CpuOK(c)
                        /\ at[c] = IF irq[u] = "none" THEN task[u] ELSE irq[u]
  BY StepView
<1>2. TypeOK /\ CodeOK /\ at[c] = At(c)
  BY AtView DEF Inv, CodeOK
<1>3. /\ at[c] = "lock" /\ Goto(c, "enter")
      /\ ~sem[want[u]].locked /\ intr' = [intr EXCEPT ![c] = FALSE]
      /\ sem' = [sem EXCEPT ![want[u]].locked = TRUE, ![want[u]].flag = intr[c], ![want[u]].push = TRUE]
      /\ tm' = [tm EXCEPT ![c].after = [func |-> "afterExLock", arg |-> want[u], old |-> tm[c].current]]
      /\ UNCHANGED <<globalQueue, globalLock, state, stack, woken, ptr, want, terminateQueue>>
  BY <1>1, <1>2 DEF AcquireBlocks, EnterSwitch
<1>4. irq[u] = "none" /\ task[u] = "lock" /\ "enter" \in TaskStep \cup IrqStep
  BY <1>1, <1>3 DEF StackOK, TaskStep, IrqStep, InSwitch
<1>5. /\ FieldsSame(c, u) /\ tm'[c].current = tm[c].current
      /\ intr'[c] = FALSE /\ want[u] \in Sem
      /\ tm'[c].after.func = "afterExLock" /\ tm'[c].after.old = tm[c].current /\ tm'[c].after.arg = want[u]
      /\ \A s \in Sem : sem'[s].queue = sem[s].queue
  BY SMT, <1>1, <1>2, <1>3, <1>4 DEF TypeOK, StackOK, FieldsSame
<1>6. /\ OthersSame(c, u) /\ pc' \in [Task \X Level -> TaskStep \cup IrqStep]
      /\ task'[u] = "enter" /\ irq'[u] = "none" /\ at'[c] = "enter"
  BY <1>1, <1>3, <1>4, <1>5, GotoFrame
<1>7. TypeOK'
  <2>1. tm' \in [CPU -> [current : Task, after : Switch]]
    BY <1>2, <1>3, <1>5, AfterTyped
  <2>2. PICK s \in Sem : s = want[u]
    BY <1>5
  <2>3. sem' = [sem EXCEPT ![s] = [sem[s] EXCEPT !.locked = TRUE, !.flag = intr[c], !.push = TRUE]]
    BY <1>2, <1>3, <2>2 DEF TypeOK
  <2>4. sem \in [Sem -> SemState] /\ intr[c] \in BOOLEAN
    BY <1>2, SemTyped DEF TypeOK
  <2>5. [sem[s] EXCEPT !.locked = TRUE, !.flag = intr[c], !.push = TRUE] \in SemState
    BY <2>4 DEF SemState
  <2>6. sem' \in [Sem -> SemState]
    BY <2>3, <2>4, <2>5
  <2>. QED BY <1>2, <1>3, <1>6, <2>1, <2>6 DEF TypeOK, SemState
<1>8. u \in GoodStacks'
  BY <1>1, <1>3, <1>4, <1>5, <1>6 DEF GoodStacks, StackOK, TaskStep, IrqStep, InSwitch
<1>9. c \in GoodCpus'
  BY SMT, <1>1, <1>3, <1>4, <1>5, <1>6
     DEF GoodCpus, CpuOK, StackOK, RunOK, SwitchOK, PtrOK, OldOK, Mine, InSwitch
<1>10. ExLockOK'
  <2>1. /\ intr[c] = FALSE /\ sem[want[u]].locked = FALSE /\ want[u] \in Sem
        /\ sem'[want[u]].locked = TRUE /\ sem'[want[u]].flag = FALSE /\ sem'[want[u]].push = TRUE
        /\ \A s \in Sem : s # want[u] => sem'[s] = sem[s]
    BY SMT, <1>1, <1>2, <1>3, <1>4 DEF TypeOK, StackOK, CpuOK, RunOK
  <2>2. \A d \in CPU : d # c => (at'[d] \in Mine <=> at[d] \in Mine) /\ tm'[d] = tm[d]
    BY <1>6 DEF OthersSame, FieldsSame, PlacesSame
  <2>3. \A d \in CPU : d # c => ~Blocks(d, want[u]) /\ \A s : Blocks(d, s)' => Blocks(d, s)
    BY <1>2, <2>1, <2>2 DEF CodeOK, ExLockOK, Blocks
  <2>4. \A s : Blocks(c, s)' => s = want[u]
    BY <1>3, <1>5 DEF Blocks
  <2>5. \A d \in CPU : at'[d] \in Mine /\ tm'[d].after.func = "afterExLock" =>
           /\ tm'[d].after.arg \in Sem
           /\ sem'[tm'[d].after.arg].locked = TRUE /\ sem'[tm'[d].after.arg].flag = FALSE
    <3>. SUFFICES ASSUME NEW d \in CPU, at'[d] \in Mine, tm'[d].after.func = "afterExLock"
                  PROVE  /\ tm'[d].after.arg \in Sem
                         /\ sem'[tm'[d].after.arg].locked = TRUE /\ sem'[tm'[d].after.arg].flag = FALSE
      OBVIOUS
    <3>1. CASE d = c
      BY <1>5, <2>1, <3>1
    <3>2. CASE d # c
      <4>1. PICK a : a = tm[d].after.arg /\ a = tm'[d].after.arg
        BY <2>2, <3>2
      <4>2. a \in Sem /\ sem[a].locked = TRUE /\ sem[a].flag = FALSE
        BY <1>2, <2>2, <3>2, <4>1 DEF CodeOK, ExLockOK
      <4>3. sem'[a] = sem[a]
        BY <2>1, <4>2
      <4>. QED BY <4>1, <4>2, <4>3
    <3>. QED BY <3>1, <3>2
  <2>6. ASSUME NEW d \in CPU, NEW e \in CPU, NEW s \in Sem, Blocks(d, s)', Blocks(e, s)' PROVE d = e
    <3>1. CASE s = want[u]
      BY <2>3, <2>6, <3>1
    <3>2. CASE s # want[u]
      <4>1. d # c /\ e # c
        BY <2>4, <2>6, <3>2
      <4>2. Blocks(d, s) /\ Blocks(e, s)
        BY <2>3, <2>6, <4>1
      <4>. QED BY <1>2, <4>2 DEF CodeOK, ExLockOK
    <3>. QED BY <3>1, <3>2
  <2>7. \A s \in Sem : sem'[s].push = sem'[s].locked
    BY <1>2, <2>1 DEF CodeOK, ExLockOK
  <2>. QED BY <2>5, <2>6, <2>7 DEF ExLockOK
<1>. QED BY <1>1, <1>3, <1>4, <1>5, <1>6, <1>7, <1>8, <1>9, <1>10, QuietStep DEF StackOK

----------------------------------------------------------------------------
\* Termination

LEMMA BeginTerminateInv ==
    ASSUME NEW kind, NEW of, Inv(kind, of), NEW c \in CPU, BeginTerminate(c)
    PROVE  Inv(kind, of)'
<1>1. PICK u \in Task : /\ stack[c] = u /\ StackOK(u) /\ CpuOK(c)
                        /\ at[c] = IF irq[u] = "none" THEN task[u] ELSE irq[u]
  BY StepView
<1>2. TypeOK /\ CodeOK /\ at[c] = At(c)
  BY AtView DEF Inv, CodeOK
<1>3. /\ at[c] = "run" /\ Goto(c, "reap") /\ u \in Worker
      /\ UNCHANGED <<globalQueue, globalLock, state, tm, stack, intr, sem, woken, ptr, want, terminateQueue>>
  BY <1>1, <1>2 DEF BeginTerminate
<1>4. irq[u] = "none" /\ task[u] = "run" /\ "reap" \in TaskStep \cup IrqStep
  BY <1>1, <1>3 DEF StackOK, TaskStep, IrqStep, InSwitch
<1>5. /\ FieldsSame(c, u) /\ tm'[c].current = tm[c].current
  BY <1>1, <1>2, <1>3, <1>4 DEF TypeOK, StackOK, FieldsSame
<1>6. /\ OthersSame(c, u) /\ pc' \in [Task \X Level -> TaskStep \cup IrqStep]
      /\ task'[u] = "reap" /\ irq'[u] = "none" /\ at'[c] = "reap"
  BY <1>1, <1>3, <1>4, <1>5, GotoFrame
<1>7. TypeOK'
  BY <1>2, <1>3, <1>6 DEF TypeOK
<1>8. u \in GoodStacks'
  BY <1>1, <1>3, <1>4, <1>5, <1>6 DEF GoodStacks, StackOK, TaskStep, IrqStep, InSwitch
<1>9. c \in GoodCpus'
  BY <1>1, <1>3, <1>4, <1>5, <1>6
     DEF GoodCpus, CpuOK, StackOK, RunOK, SwitchOK, PtrOK, OldOK, Mine, InSwitch
<1>10. ExLockOK'
  BY <1>1, <1>2, <1>3, <1>4, <1>5, <1>6, ExLockKept DEF StackOK, Mine
<1>. QED BY <1>1, <1>3, <1>4, <1>5, <1>6, <1>7, <1>8, <1>9, <1>10, QuietStep DEF StackOK

LEMMA EndOfTerminateQueueInv ==
    ASSUME NEW kind, NEW of, Inv(kind, of), NEW c \in CPU, EndOfTerminateQueue(c)
    PROVE  Inv(kind, of)'
<1>1. PICK u \in Task : /\ stack[c] = u /\ StackOK(u) /\ CpuOK(c)
                        /\ at[c] = IF irq[u] = "none" THEN task[u] ELSE irq[u]
  BY StepView
<1>2. TypeOK /\ CodeOK /\ at[c] = At(c)
  BY AtView DEF Inv, CodeOK
<1>3. /\ at[c] = "reap" /\ Goto(c, "leave")
      /\ UNCHANGED <<globalQueue, globalLock, state, tm, stack, intr, sem, woken, ptr, want, terminateQueue>>
  BY <1>1, <1>2 DEF EndOfTerminateQueue
<1>4. irq[u] = "none" /\ task[u] = "reap" /\ "leave" \in TaskStep \cup IrqStep
  BY <1>1, <1>3 DEF StackOK, TaskStep, IrqStep, InSwitch
<1>5. /\ FieldsSame(c, u) /\ tm'[c].current = tm[c].current
  BY <1>1, <1>2, <1>3, <1>4 DEF TypeOK, StackOK, FieldsSame
<1>6. /\ OthersSame(c, u) /\ pc' \in [Task \X Level -> TaskStep \cup IrqStep]
      /\ task'[u] = "leave" /\ irq'[u] = "none" /\ at'[c] = "leave"
  BY <1>1, <1>3, <1>4, <1>5, GotoFrame
<1>7. TypeOK'
  BY <1>2, <1>3, <1>6 DEF TypeOK
<1>8. u \in GoodStacks'
  BY <1>1, <1>3, <1>4, <1>5, <1>6 DEF GoodStacks, StackOK, TaskStep, IrqStep, InSwitch
<1>9. c \in GoodCpus'
  BY <1>1, <1>3, <1>4, <1>5, <1>6
     DEF GoodCpus, CpuOK, StackOK, RunOK, SwitchOK, PtrOK, OldOK, Mine, InSwitch
<1>10. ExLockOK'
  BY <1>1, <1>2, <1>3, <1>4, <1>5, <1>6, ExLockKept DEF StackOK, Mine
<1>. QED BY <1>1, <1>3, <1>4, <1>5, <1>6, <1>7, <1>8, <1>9, <1>10, QuietStep DEF StackOK

LEMMA LastSwitchInv ==
    ASSUME NEW kind, NEW of, Inv(kind, of), NEW c \in CPU, LastSwitch(c)
    PROVE  Inv(kind, of)'
<1>1. PICK u \in Task : /\ stack[c] = u /\ StackOK(u) /\ CpuOK(c)
                        /\ at[c] = IF irq[u] = "none" THEN task[u] ELSE irq[u]
  BY StepView
<1>2. TypeOK /\ CodeOK /\ at[c] = At(c)
  BY AtView DEF Inv, CodeOK
<1>3. /\ at[c] = "leave" /\ Goto(c, "enter")
      /\ intr' = [intr EXCEPT ![c] = FALSE]
      /\ tm' = [tm EXCEPT ![c].after = [func |-> "pushTerminateQueue", arg |-> NoSem, old |-> tm[c].current]]
      /\ UNCHANGED <<globalQueue, globalLock, state, stack, sem, woken, ptr, want, terminateQueue>>
  BY <1>1, <1>2 DEF LastSwitch, EnterSwitch
<1>4. irq[u] = "none" /\ task[u] = "leave" /\ "enter" \in TaskStep \cup IrqStep
  BY <1>1, <1>3 DEF StackOK, TaskStep, IrqStep, InSwitch
<1>5. /\ FieldsSame(c, u) /\ tm'[c].current = tm[c].current
      /\ intr'[c] = FALSE
      /\ tm'[c].after.func = "pushTerminateQueue" /\ tm'[c].after.old = tm[c].current /\ tm'[c].after.arg = NoSem
  BY SMT, <1>1, <1>2, <1>3, <1>4 DEF TypeOK, StackOK, FieldsSame
<1>6. /\ OthersSame(c, u) /\ pc' \in [Task \X Level -> TaskStep \cup IrqStep]
      /\ task'[u] = "enter" /\ irq'[u] = "none" /\ at'[c] = "enter"
  BY <1>1, <1>3, <1>4, <1>5, GotoFrame
<1>7. TypeOK'
  BY <1>2, <1>3, <1>6, AfterTyped DEF TypeOK
<1>8. u \in GoodStacks'
  BY <1>1, <1>3, <1>4, <1>5, <1>6 DEF GoodStacks, StackOK, TaskStep, IrqStep, InSwitch
<1>9. c \in GoodCpus'
  BY SMT, <1>1, <1>3, <1>4, <1>5, <1>6
     DEF GoodCpus, CpuOK, StackOK, RunOK, SwitchOK, PtrOK, OldOK, Mine, InSwitch
<1>10. ExLockOK'
  BY <1>1, <1>2, <1>3, <1>4, <1>5, <1>6, ExLockKept DEF StackOK, Mine
<1>. QED BY <1>1, <1>3, <1>4, <1>5, <1>6, <1>7, <1>8, <1>9, <1>10, QuietStep DEF StackOK

----------------------------------------------------------------------------
\* callAfterTaskSwitchFunc

LEMMA ReleaseGlobalInv ==
    ASSUME NEW kind, NEW of, Inv(kind, of), NEW c \in CPU, ReleaseGlobal(c)
    PROVE  Inv(kind, of)'
<1>1. PICK u \in Task : /\ stack[c] = u /\ StackOK(u) /\ CpuOK(c)
                        /\ at[c] = IF irq[u] = "none" THEN task[u] ELSE irq[u]
  BY StepView
<1>2. TypeOK /\ CodeOK /\ at[c] = At(c) /\ Top(stack[c]) = IF irq[stack[c]] = "none" THEN "task" ELSE "irq"
  BY AtView DEF Inv, CodeOK
<1>. DEFINE l == IF irq[u] = "none" THEN "task" ELSE "irq"
<1>3. /\ at[c] = "after" /\ Goto(c, "func")
      /\ intr' = [intr EXCEPT ![c] = globalLock.flag]
      /\ globalLock' = [globalLock EXCEPT !.by = NoCPU]
      /\ ptr' = [ptr EXCEPT ![<<u, l>>] = c]
      /\ UNCHANGED <<globalQueue, state, tm, stack, sem, woken, want, terminateQueue>>
  BY <1>1, <1>2 DEF ReleaseGlobal
<1>4. /\ globalLock.by = c /\ globalLock.flag = FALSE /\ "func" \in TaskStep \cup IrqStep
      /\ \A d \in CPU : at[d] \in {"switch", "after"} => d = c
  BY SMT, <1>2, <1>3, TaskSwitchAssumption DEF CodeOK, GlobalOK, TaskStep, InSwitch
<1>5. FieldsSame(c, u) /\ intr'[c] = FALSE /\ ptr'[<<u, l>>] = c /\ globalLock'.by = NoCPU
  BY <1>1, <1>2, <1>3, <1>4 DEF TypeOK, FieldsSame, Level
<1>. HIDE DEF l
<1>6. /\ OthersSame(c, u) /\ pc' \in [Task \X Level -> TaskStep \cup IrqStep]
      /\ irq[u] = "none" => task'[u] = "func" /\ irq'[u] = "none" /\ at'[c] = "func"
      /\ irq[u] # "none" => task'[u] = task[u] /\ irq'[u] = "func" /\ at'[c] = "func"
  <2>1. Inv(kind, of) /\ stack[c] = u /\ "func" \in TaskStep \cup IrqStep /\ Goto(c, "func") /\ FieldsSame(c, u)
    BY <1>1, <1>3, <1>4, <1>5
  <2>2. Moved(c, u, "func")
    BY <2>1, GotoMoved
  <2>. QED BY <2>2 DEF Moved
<1>7. TypeOK'
  BY <1>2, <1>3, <1>6 DEF TypeOK
<1>8. u \in GoodStacks'
  BY <1>1, <1>3, <1>6 DEF GoodStacks, StackOK, TaskStep, IrqStep, InSwitch
<1>9. c \in GoodCpus'
  BY <1>1, <1>3, <1>5, <1>6 DEF GoodCpus, CpuOK, RunOK, SwitchOK, PtrOK, OldOK, Mine, InSwitch, l
<1>10. SavedOK' /\ GoodStacks' = Task /\ GoodCpus' = CPU /\ \A d \in CPU : d # c => stack[d] # u
  BY <1>1, <1>2, <1>6, <1>8, <1>9, Exclusive, OthersKept
<1>11. GlobalOK'
  BY <1>4, <1>5, <1>6, TaskSwitchAssumption DEF GlobalOK, OthersSame, PlacesSame
<1>12. ExLockOK'
  <2>1. \A d \in CPU : at'[d] \in Mine <=> at[d] \in Mine
    BY <1>3, <1>6 DEF OthersSame, PlacesSame, Mine
  <2>. QED BY <1>2, <1>3, <2>1 DEF CodeOK, ExLockOK, Blocks
<1>13. PlacesOK(kind, of)'
  <2>1. /\ \A d \in CPU : d # c => at'[d] = at[d] /\ tm'[d] = tm[d]
        /\ \A t \in Task : task'[t] = "free" <=> task[t] = "free"
        /\ \A t \in Task : t # stack[c] => irq'[t] = irq[t]
    BY <1>1, <1>3, <1>6 DEF OthersSame, FieldsSame, PlacesSame
  <2>2. at[c] = "after" /\ at'[c] = "func"
    BY <1>3, <1>6
  <2>. QED BY <1>3, <2>1, <2>2, PlacesKept
<1>. QED BY <1>7, <1>10, <1>11, <1>12, <1>13, <1>2 DEF Inv, CodeOK

LEMMA FinishSwitchInv ==
    ASSUME NEW kind, NEW of, Inv(kind, of), NEW c \in CPU, FinishSwitch(c)
    PROVE  Inv(kind, of)'
<1>1. PICK u \in Task : /\ stack[c] = u /\ StackOK(u) /\ CpuOK(c)
                        /\ at[c] = IF irq[u] = "none" THEN task[u] ELSE irq[u]
  BY StepView
<1>2. TypeOK /\ CodeOK /\ at[c] = At(c) /\ Top(stack[c]) = IF irq[stack[c]] = "none" THEN "task" ELSE "irq"
  BY AtView DEF Inv, CodeOK
<1>. DEFINE l == IF irq[u] = "none" THEN "task" ELSE "irq"
            step == IF irq[u] = "none" THEN "run" ELSE "none"
<1>3. /\ at[c] = "clear" /\ ptr[<<u, l>>] = c
      /\ Goto(c, step)
      /\ want' = (IF irq[u] = "none" THEN [want EXCEPT ![u] = NoSem] ELSE want)
      /\ tm' = [tm EXCEPT ![c].after = NoSwitch]
      /\ ptr' = [ptr EXCEPT ![<<u, l>>] = NoCPU]
      /\ intr' = [intr EXCEPT ![c] = TRUE]
      /\ UNCHANGED <<globalQueue, globalLock, state, stack, sem, woken, terminateQueue>>
  <2>1. at[c] = "clear" /\ ptr[<<u, l>>] = c
    BY <1>1, <1>2 DEF FinishSwitch, CpuOK, PtrOK
  <2>. QED BY <1>1, <1>2, <2>1 DEF FinishSwitch
<1>4. step \in TaskStep \cup IrqStep
  BY DEF TaskStep, IrqStep
<1>5. FieldsSame(c, u) /\ intr'[c] = TRUE /\ tm'[c].current = tm[c].current
  BY SMT, <1>1, <1>2, <1>3 DEF TypeOK, FieldsSame
<1>6. /\ OthersSame(c, u) /\ pc' \in [Task \X Level -> TaskStep \cup IrqStep]
      /\ irq[u] = "none" => task'[u] = "run" /\ irq'[u] = "none" /\ at'[c] = "run"
      /\ irq[u] # "none" => task'[u] = task[u] /\ irq'[u] = "none" /\ at'[c] = task[u]
  <2>1. CASE irq[u] = "none"
    <3>1. Inv(kind, of) /\ stack[c] = u /\ "run" \in TaskStep \cup IrqStep /\ Goto(c, "run") /\ FieldsSame(c, u)
      BY <1>1, <1>3, <1>4, <1>5, <2>1
    <3>2. Moved(c, u, "run")
      BY <3>1, GotoMoved
    <3>. QED BY <2>1, <3>2 DEF Moved
  <2>2. CASE irq[u] # "none"
    <3>1. Inv(kind, of) /\ stack[c] = u /\ "none" \in TaskStep \cup IrqStep /\ Goto(c, "none") /\ FieldsSame(c, u)
      BY <1>1, <1>3, <1>4, <1>5, <2>2
    <3>2. Moved(c, u, "none")
      BY <3>1, GotoMoved
    <3>. QED BY <2>2, <3>2 DEF Moved
  <2>. QED BY <2>1, <2>2
<1>. HIDE DEF l, step
<1>7. TypeOK'
  <2>1. tm' \in [CPU -> [current : Task, after : Switch]]
    <3>1. tm \in [CPU -> [current : Task, after : Switch]]
      BY <1>2 DEF TypeOK
    <3>2. NoSwitch \in Switch
      BY DEF NoSwitch, Switch
    <3>. HIDE DEF Switch
    <3>. QED BY <1>3, <3>1, <3>2
  <2>2. ptr' \in [Task \X Level -> CPU \cup {NoCPU}] /\ want' \in [Task -> Sem \cup {NoSem}]
    BY <1>2, <1>3 DEF TypeOK
  <2>. QED BY <1>2, <1>3, <1>6, <2>1, <2>2 DEF TypeOK
<1>8. u \in GoodStacks' /\ task[u] # "free"
  <2>1. CASE irq[u] = "none"
    <3>1. task[u] = "clear" /\ task'[u] = "run" /\ irq'[u] = "none"
      BY <1>1, <1>3, <1>6, <2>1
    <3>. QED BY <1>1, <1>3, <2>1, <3>1 DEF GoodStacks, StackOK, TaskStep, IrqStep
  <2>2. CASE irq[u] # "none"
    <3>1. irq[u] = "clear" /\ task'[u] = task[u] /\ irq'[u] = "none" /\ want' = want
      BY <1>1, <1>3, <1>6, <2>2
    <3>. QED BY <1>1, <1>3, <2>2, <3>1 DEF GoodStacks, StackOK, TaskStep, IrqStep
  <2>. QED BY <2>1, <2>2
<1>9. at'[c] \in {"run", "resume", "reap", "leave"} /\ irq'[u] = "none"
  BY <1>1, <1>6 DEF StackOK
<1>10. c \in GoodCpus'
  BY <1>1, <1>3, <1>5, <1>9 DEF GoodCpus, CpuOK, RunOK, SwitchOK, PtrOK, OldOK, Mine
<1>11. ExLockOK'
  BY <1>2, <1>3, <1>6, <1>9, ExLockKept DEF Mine
<1>. QED BY <1>1, <1>3, <1>5, <1>6, <1>7, <1>8, <1>9, <1>10, <1>11, QuietStep

----------------------------------------------------------------------------
\* callAfterTaskSwitchFunc on behalf of the old task

\* The call of afterTaskSwitchFunc: what it does but for the place of the old task.
CalledAfter(c, u) ==
    /\ stack[c] = u /\ CpuOK(c) /\ at[c] = "func" /\ at'[c] = "clear" /\ OthersSame(c, u)
    /\ task[u] # "free" /\ task'[u] # "free"
    /\ TypeOK' /\ SavedOK' /\ GoodStacks' = Task /\ GoodCpus' = CPU /\ GlobalOK'
    /\ UNCHANGED <<globalQueue, globalLock, state, tm, stack, woken, want>>

LEMMA CallAfterFrame ==
    ASSUME NEW kind, NEW of, Inv(kind, of), NEW c \in CPU, CallAfter(c),
           intr' = [intr EXCEPT ![c] = FALSE], sem' \in [Sem -> SemState], terminateQueue' \in Seq(Worker)
    PROVE  \E u \in Task : CalledAfter(c, u)
<1>1. PICK u \in Task : /\ stack[c] = u /\ StackOK(u) /\ CpuOK(c)
                        /\ at[c] = IF irq[u] = "none" THEN task[u] ELSE irq[u]
  BY StepView
<1>2. TypeOK /\ CodeOK /\ at[c] = At(c)
  BY AtView DEF Inv, CodeOK
<1>3. /\ at[c] = "func" /\ Goto(c, "clear")
      /\ UNCHANGED <<globalQueue, globalLock, state, tm, stack, woken, ptr, want>>
  BY <1>2 DEF CallAfter
<1>4. "clear" \in TaskStep \cup IrqStep
  BY DEF TaskStep, InSwitch
<1>5. FieldsSame(c, u) /\ intr'[c] = FALSE
  BY <1>1, <1>2, <1>3 DEF TypeOK, FieldsSame
<1>6. Moved(c, u, "clear")
  BY <1>1, <1>3, <1>4, <1>5, GotoMoved
<1>7. /\ OthersSame(c, u) /\ pc' \in [Task \X Level -> TaskStep \cup IrqStep] /\ at'[c] = "clear"
      /\ irq[u] = "none" => task'[u] = "clear" /\ irq'[u] = "none"
      /\ irq[u] # "none" => task'[u] = task[u] /\ irq'[u] = "clear"
  BY <1>6 DEF Moved
<1>8. TypeOK'
  BY <1>2, <1>3, <1>7 DEF TypeOK, SemState
<1>9. u \in GoodStacks' /\ task[u] # "free" /\ task'[u] # "free"
  BY <1>1, <1>3, <1>7 DEF GoodStacks, StackOK, TaskStep, IrqStep, InSwitch
<1>10. c \in GoodCpus'
  BY <1>1, <1>3, <1>5, <1>7 DEF GoodCpus, CpuOK, RunOK, SwitchOK, PtrOK, OldOK, Mine, InSwitch
<1>11. SavedOK' /\ GoodStacks' = Task /\ GoodCpus' = CPU
  BY <1>1, <1>2, <1>7, <1>9, <1>10, Exclusive, OthersKept
<1>12. GlobalOK'
  BY <1>2, <1>3, <1>7 DEF CodeOK, GlobalOK, OthersSame, PlacesSame
<1>. QED BY <1>1, <1>3, <1>7, <1>8, <1>9, <1>11, <1>12 DEF CalledAfter

LEMMA CallNothingInv ==
    ASSUME NEW kind, NEW of, Inv(kind, of), NEW c \in CPU, CallAfter(c), tm[c].after.func = "NULL"
    PROVE  Inv(kind, of)'
<1>1. TypeOK /\ CodeOK /\ CpuOK(c) /\ at[c] = At(c)
  BY AtView DEF Inv, CodeOK, GoodCpus
<1>2. at[c] = "func" /\ UNCHANGED <<sem, intr, terminateQueue>>
  BY <1>1 DEF CallAfter, afterExLock, pushTerminateQueue
<1>3. intr' = [intr EXCEPT ![c] = FALSE] /\ sem' \in [Sem -> SemState] /\ terminateQueue' \in Seq(Worker)
  <2>1. intr[c] = FALSE
    BY <1>1, <1>2 DEF CpuOK, RunOK, TypeOK
  <2>. QED BY <1>1, <1>2, <2>1 DEF TypeOK, SemState
<1>4. PICK u \in Task : CalledAfter(c, u)
  BY <1>3, CallAfterFrame
<1>5. ExLockOK'
  BY <1>1, <1>2, <1>4, ExLockKept DEF CalledAfter, Mine
<1>6. PlacesOK(kind, of)'
  <2>1. /\ at[c] = "func" /\ at'[c] = "clear" /\ tm' = tm
        /\ UNCHANGED <<globalQueue, woken, terminateQueue, state, stack>>
        /\ \A d \in CPU : d # c => at'[d] = at[d]
        /\ \A t \in Task : task'[t] = "free" <=> task[t] = "free"
        /\ \A t \in Task : t # stack[c] => irq'[t] = irq[t]
    BY <1>2, <1>4 DEF CalledAfter, OthersSame, FieldsSame, PlacesSame
  <2>. QED BY <1>2, <2>1, PlacesKept
<1>. QED BY <1>4, <1>5, <1>6 DEF Inv, CodeOK, CalledAfter

\* The old task leaves its processor for the terminate queue or for a semaphore's queue.
LEMMA TransitMove ==
    ASSUME NEW kind, NEW of, Inv(kind, of), NEW c \in CPU, NEW u \in Task, CalledAfter(c, u),
           NEW t \in Task, tm[c].after.old = t, tm[c].after.func # "NULL",
           NEW newKind \in {"waiting", "terminated"}, NEW newOf, NEW k, NEW o,
           Moves(kind, of, t, newKind, newOf, k, o)
    PROVE  /\ kind[t] = "transit" /\ CurrentOK(k, o)' /\ ReadyOK(k)' /\ InTransitOK(k, o)'
           /\ WokenOK(k, o)' /\ FreeOK(k)' /\ AwayOK(k)'
<1>1. /\ UNCHANGED <<globalQueue, state, tm, stack, woken>> /\ stack[c] = u
      /\ at[c] = "func" /\ at'[c] = "clear" /\ \A d \in CPU : d # c => at'[d] = at[d]
      /\ \A x \in Task : x # u => task'[x] = task[x] /\ irq'[x] = irq[x]
      /\ task[u] # "free" /\ task'[u] # "free"
  BY DEF CalledAfter, OthersSame, PlacesSame
<1>2. CurrentOK(kind, of) /\ ReadyOK(kind) /\ InTransitOK(kind, of) /\ WokenOK(kind, of)
      /\ FreeOK(kind) /\ AwayOK(kind) /\ TasksNamed
  BY Named DEF Inv, PlacesOK
<1>3. kind[t] = "transit" /\ kind[u] = "current"
  <2>1. tm[c].current = u
    BY <1>1 DEF CalledAfter, CpuOK, SwitchOK
  <2>. QED BY SMT, <1>1, <1>2, <2>1 DEF InTransitOK, CurrentOK
<1>4. CurrentOK(k, o)'
  BY <1>1, <1>2, <1>3, CurrentFrame
<1>5. ReadyOK(k)'
  BY <1>1, <1>2, <1>3, ReadyFrame
<1>6. InTransitOK(k, o)'
  BY <1>1, <1>2, InTransitLeaves
<1>7. WokenOK(k, o)'
  BY <1>1, <1>2, <1>3, WokenFrame
<1>8. FreeOK(k)' /\ AwayOK(k)'
  <2>1. irq'[t] = "none" /\ state'[t] = "SUSPENDED" /\ task'[t] # "free" /\ newKind # "free" /\ kind[t] # "ready"
    BY SMT, <1>1, <1>2, <1>3 DEF AwayOK, FreeOK
  <2>2. /\ \A x \in Task : x # t => task'[x] = "free" <=> task[x] = "free"
        /\ \A x \in Task : x # t /\ kind[x] \in Away => irq'[x] = irq[x] /\ state'[x] = state[x]
    BY <1>1, <1>3 DEF Away
  <2>3. \A d \in CPU : at'[d] = "switch" => at[d] = "switch"
    BY <1>1
  <2>. QED BY <1>1, <1>2, <2>1, <2>2, <2>3, AwayFrame
<1>. QED BY <1>3, <1>4, <1>5, <1>6, <1>7, <1>8

LEMMA CallPushInv ==
    ASSUME NEW kind, NEW of, Inv(kind, of), NEW c \in CPU, CallAfter(c),
           tm[c].after.func = "pushTerminateQueue"
    PROVE  IInv'
<1>1. TypeOK /\ CodeOK /\ CpuOK(c) /\ at[c] = At(c)
  BY AtView DEF Inv, CodeOK, GoodCpus
<1>2. PICK t \in Worker : /\ t = tm[c].after.old /\ at[c] = "func" /\ UNCHANGED <<sem, intr>>
                          /\ terminateQueue' = Append(terminateQueue, t)
  BY <1>1 DEF CallAfter, afterExLock, pushTerminateQueue, CpuOK, OldOK, Mine
<1>3. t \in Task
  BY DEF Task
<1>4. intr' = [intr EXCEPT ![c] = FALSE] /\ sem' \in [Sem -> SemState] /\ terminateQueue' \in Seq(Worker)
  <2>1. intr[c] = FALSE /\ intr \in [CPU -> BOOLEAN]
    BY <1>1, <1>2 DEF CpuOK, RunOK, TypeOK
  <2>2. sem' \in [Sem -> SemState]
    BY <1>1, <1>2, SemTyped
  <2>3. terminateQueue' \in Seq(Worker)
    BY SMT, <1>1, <1>2 DEF TypeOK
  <2>. QED BY <1>2, <2>1, <2>2, <2>3
<1>5. PICK u \in Task : CalledAfter(c, u)
  BY <1>4, CallAfterFrame
<1>6. ExLockOK'
  BY <1>1, <1>2, <1>5, ExLockKept DEF CalledAfter, Mine
<1>7. PICK k \in [Task -> Kind], o \in [Task -> Owner] : Moves(kind, of, t, "terminated", of[t], k, o)
  BY <1>3, MoveExists DEF Inv, PlacesOK, Kind
<1>8. /\ kind[t] = "transit" /\ CurrentOK(k, o)' /\ ReadyOK(k)' /\ InTransitOK(k, o)'
      /\ WokenOK(k, o)' /\ FreeOK(k)' /\ AwayOK(k)'
  BY <1>2, <1>3, <1>5, <1>7, TransitMove
<1>9. WaitingOK(kind, of) /\ TerminatedOK(kind)
  BY DEF Inv, PlacesOK
<1>10. WaitingOK(k, o)'
  BY <1>2, <1>3, <1>7, <1>8, <1>9, WaitingFrame
<1>11. TerminatedOK(k)'
  BY <1>2, <1>3, <1>7, <1>8, <1>9, TerminatedJoins
<1>12. Inv(k, o)'
  BY <1>5, <1>6, <1>8, <1>10, <1>11 DEF Inv, CodeOK, PlacesOK, CalledAfter
<1>. QED BY <1>12 DEF IInv

LEMMA CallExLockInv ==
    ASSUME NEW kind, NEW of, Inv(kind, of), NEW c \in CPU, CallAfter(c),
           tm[c].after.func = "afterExLock"
    PROVE  IInv'
<1>1. TypeOK /\ CodeOK /\ CpuOK(c) /\ at[c] = At(c)
  BY AtView DEF Inv, CodeOK, GoodCpus
<1>2. PICK t \in Worker, s \in Sem :
          /\ t = tm[c].after.old /\ s = tm[c].after.arg /\ sem[s].flag = FALSE
          /\ at[c] = "func" /\ UNCHANGED terminateQueue
          /\ sem' = [sem EXCEPT ![s].queue = Append(@, t), ![s].push = FALSE, ![s].locked = FALSE]
          /\ intr' = [intr EXCEPT ![c] = FALSE]
  <2>1. /\ at[c] = "func" /\ UNCHANGED terminateQueue
        /\ sem' = [sem EXCEPT ![tm[c].after.arg].queue = Append(@, tm[c].after.old),
                              ![tm[c].after.arg].push = FALSE, ![tm[c].after.arg].locked = FALSE]
        /\ intr' = [intr EXCEPT ![c] = sem[tm[c].after.arg].flag]
    BY <1>1 DEF CallAfter, afterExLock, pushTerminateQueue
  <2>2. tm[c].after.old \in Worker
    BY <1>1, <2>1 DEF CpuOK, OldOK, Mine
  <2>3. tm[c].after.arg \in Sem /\ sem[tm[c].after.arg].flag = FALSE
    BY <1>1, <2>1 DEF CodeOK, ExLockOK, Mine
  <2>. QED BY <2>1, <2>2, <2>3
<1>3. t \in Task /\ t = tm[c].after.old /\ tm[c].after.func # "NULL" /\ \A d \in CPU : d # c => ~Blocks(d, s)
  <2>1. Blocks(c, s)
    BY <1>2 DEF Blocks, Mine
  <2>2. \A d \in CPU : d # c => ~Blocks(d, s)
    BY <1>1, <2>1 DEF CodeOK, ExLockOK
  <2>. QED BY <1>2, <2>2 DEF Task
<1>5. /\ sem'[s].queue = Append(sem[s].queue, t) /\ sem'[s].push = FALSE /\ sem'[s].locked = FALSE
      /\ \A z \in Sem : z # s => sem'[z] = sem[z]
      /\ sem' \in [Sem -> SemState]
  <2>1. sem \in [Sem -> SemState] /\ sem[s] \in SemState
    BY <1>1, <1>3, SemTyped
  <2>2. sem' = [sem EXCEPT ![s] = [sem[s] EXCEPT !.queue = Append(sem[s].queue, t), !.push = FALSE, !.locked = FALSE]]
    BY <1>2, <2>1 DEF SemState
  <2>3. Append(sem[s].queue, t) \in Seq(Worker)
    BY SMT, <1>3, <2>1 DEF SemState
  <2>4. [sem[s] EXCEPT !.queue = Append(sem[s].queue, t), !.push = FALSE, !.locked = FALSE] \in SemState
    BY <2>1, <2>3 DEF SemState
  <2>. QED BY <2>1, <2>2, <2>4 DEF SemState
<1>6. PICK u \in Task : CalledAfter(c, u)
  <2>1. intr' = [intr EXCEPT ![c] = FALSE] /\ sem' \in [Sem -> SemState] /\ terminateQueue' \in Seq(Worker)
    BY <1>1, <1>2, <1>5 DEF TypeOK
  <2>. QED BY <2>1, CallAfterFrame
<1>7. ExLockOK'
  <2>1. at'[c] \notin Mine /\ tm' = tm /\ \A d \in CPU : d # c => at'[d] = at[d]
    BY <1>6 DEF CalledAfter, OthersSame, PlacesSame, Mine
  <2>2. \A d \in CPU : at'[d] \in Mine /\ tm'[d].after.func = "afterExLock" =>
            d # c /\ at[d] \in Mine /\ tm[d].after.func = "afterExLock" /\ tm[d].after.arg # s
    BY <1>3, <2>1 DEF Blocks
  <2>3. \A d \in CPU, z \in Sem : Blocks(d, z)' => Blocks(d, z)
    BY <2>1 DEF Blocks
  <2>4. \A z \in Sem : sem'[z].push = sem'[z].locked
    BY <1>1, <1>5 DEF CodeOK, ExLockOK
  <2>. QED BY SMTT(20), <1>1, <1>5, <2>1, <2>2, <2>3, <2>4 DEF CodeOK, ExLockOK
<1>8. PICK k \in [Task -> Kind], o \in [Task -> Owner] : Moves(kind, of, t, "waiting", s, k, o)
  BY <1>3, MoveExists DEF Inv, PlacesOK, Kind, Owner
<1>9. /\ kind[t] = "transit" /\ CurrentOK(k, o)' /\ ReadyOK(k)' /\ InTransitOK(k, o)'
      /\ WokenOK(k, o)' /\ FreeOK(k)' /\ AwayOK(k)'
  BY SMT, <1>3, <1>6, <1>8, TransitMove
<1>10. WaitingOK(kind, of) /\ TerminatedOK(kind)
  BY DEF Inv, PlacesOK
<1>11. WaitingOK(k, o)'
  <2>1. sem'[s].queue = Append(sem[s].queue, t) /\ \A z \in Sem : z # s => sem'[z].queue = sem[z].queue
    BY <1>5
  <2>. QED BY <1>3, <1>8, <1>9, <1>10, <2>1, WaitingJoins
<1>12. TerminatedOK(k)'
  <2>1. t \in Task /\ UNCHANGED terminateQueue
    BY <1>2, <1>3
  <2>. QED BY <1>8, <1>9, <1>10, <2>1, TerminatedFrame
<1>13. Inv(k, o)'
  BY <1>6, <1>7, <1>9, <1>11, <1>12 DEF Inv, CodeOK, PlacesOK, CalledAfter
<1>. QED BY <1>13 DEF IInv

----------------------------------------------------------------------------
\* Semaphores: the way out, and resume

\* The code's part of a step outside of taskSwitch that may move a task.
LEMMA CodeStep ==
    ASSUME NEW kind, NEW of, Inv(kind, of), NEW c \in CPU, NEW u \in Task, stack[c] = u,
           OthersSame(c, u), TypeOK', u \in GoodStacks', c \in GoodCpus', ExLockOK',
           at[c] \notin {"switch", "after"}, at'[c] \notin {"switch", "after"}, UNCHANGED globalLock
    PROVE  CodeOK'
<1>1. CodeOK /\ \A d \in CPU : d # c => stack[d] # u
  BY Exclusive DEF Inv
<1>2. SavedOK' /\ GoodStacks' = Task /\ GoodCpus' = CPU
  BY <1>1, OthersKept
<1>3. GlobalOK'
  BY <1>1 DEF CodeOK, GlobalOK, OthersSame, PlacesSame
<1>. QED BY <1>2, <1>3 DEF CodeOK

LEMMA ReleaseQuotaInv ==
    ASSUME NEW kind, NEW of, Inv(kind, of), NEW c \in CPU, NEW s \in Sem, releaseSemaphore(c, s),
           sem[s].queue = <<>>
    PROVE  Inv(kind, of)'
<1>1. TypeOK /\ CodeOK
  BY DEF Inv, CodeOK
<1>2. /\ sem[s].quota < MaxQuota /\ sem' = [sem EXCEPT ![s].quota = @ + 1]
      /\ UNCHANGED <<globalQueue, globalLock, state, tm, stack, intr, pc, woken, ptr, want, terminateQueue>>
  BY DEF releaseSemaphore
<1>3. /\ \A z \in Sem : sem'[z].queue = sem[z].queue /\ sem'[z].locked = sem[z].locked
                        /\ sem'[z].flag = sem[z].flag /\ sem'[z].push = sem[z].push
      /\ sem' \in [Sem -> SemState]
  <2>1. sem \in [Sem -> SemState] /\ sem[s] \in SemState /\ MaxQuota \in Nat
    BY <1>1, SemTyped, TaskSwitchAssumption
  <2>2. sem' = [sem EXCEPT ![s] = [sem[s] EXCEPT !.quota = sem[s].quota + 1]]
    BY <1>2, <2>1 DEF SemState
  <2>3. [sem[s] EXCEPT !.quota = sem[s].quota + 1] \in SemState
    BY SMTT(20), <1>2, <2>1 DEF SemState
  <2>. QED BY <2>1, <2>2, <2>3 DEF SemState
<1>4. task' = task /\ irq' = irq /\ at' = at
  BY <1>2, SameView
<1>5. TypeOK'
  BY <1>1, <1>2, <1>3 DEF TypeOK, SemState
<1>6. SavedOK' /\ GlobalOK'
  BY <1>1, <1>2, <1>4 DEF CodeOK, SavedOK, GlobalOK
<1>7. ExLockOK'
  BY SMT, <1>1, <1>2, <1>3, <1>4 DEF CodeOK, ExLockOK, Blocks
<1>8. GoodStacks' = GoodStacks
  BY <1>2, <1>4 DEF GoodStacks, StackOK
<1>9. GoodCpus' = GoodCpus
  BY SMT, <1>2, <1>4 DEF GoodCpus, CpuOK, RunOK, SwitchOK, PtrOK, OldOK
<1>10. PlacesOK(kind, of)'
  <2>1. CurrentOK(kind, of)' /\ ReadyOK(kind)' /\ WokenOK(kind, of)' /\ TerminatedOK(kind)'
    BY <1>2 DEF Inv, PlacesOK, CurrentOK, ReadyOK, WokenOK, TerminatedOK
  <2>2. InTransitOK(kind, of)' /\ FreeOK(kind)' /\ AwayOK(kind)'
    BY SMT, <1>2, <1>4 DEF Inv, PlacesOK, InTransitOK, FreeOK, AwayOK
  <2>3. WaitingOK(kind, of)'
    BY <1>3 DEF Inv, PlacesOK, WaitingOK
  <2>. QED BY <2>1, <2>2, <2>3 DEF Inv, PlacesOK
<1>. QED BY <1>1, <1>5, <1>6, <1>7, <1>8, <1>9, <1>10 DEF Inv, CodeOK

\* releaseExLock takes the first task out of the queue.
Released(c, u, s, t, x) ==
    /\ stack[c] = u /\ x \in {<<u, "task">>, <<u, "irq">>}
    /\ OthersSame(c, u) /\ at[c] \in {"run", "handler"} /\ at'[c] = "resume"
    /\ task[u] # "free" /\ task'[u] # "free"
    /\ sem[s].queue # <<>> /\ t = Head(sem[s].queue) /\ sem'[s].queue = Tail(sem[s].queue)
    /\ \A z \in Sem : z # s => sem'[z].queue = sem[z].queue
    /\ woken[x] = NoTask /\ woken' = [woken EXCEPT ![x] = t]
    /\ UNCHANGED <<globalQueue, state, tm, stack, terminateQueue>>

LEMMA ReleasePopCode ==
    ASSUME NEW kind, NEW of, Inv(kind, of), NEW c \in CPU, NEW s \in Sem, releaseSemaphore(c, s),
           sem[s].queue # <<>>
    PROVE  CodeOK' /\ \E u \in Task, t \in Worker, x \in Task \X Level : Released(c, u, s, t, x)
<1>1. PICK u \in Task : /\ stack[c] = u /\ StackOK(u) /\ CpuOK(c)
                        /\ at[c] = IF irq[u] = "none" THEN task[u] ELSE irq[u]
  BY StepView
<1>2. TypeOK /\ CodeOK /\ at[c] = At(c) /\ Top(stack[c]) = IF irq[stack[c]] = "none" THEN "task" ELSE "irq"
  BY AtView DEF Inv, CodeOK
<1>3. sem \in [Sem -> SemState] /\ sem[s] \in SemState
  BY <1>2, SemTyped
<1>4. PICK t \in Worker : t = Head(sem[s].queue) /\ Tail(sem[s].queue) \in Seq(Worker)
  BY SMT, <1>3 DEF SemState
<1>5. PICK x \in Task \X Level : x = <<u, IF irq[u] = "none" THEN "task" ELSE "irq">>
  <2>1. <<u, IF irq[u] = "none" THEN "task" ELSE "irq">> \in Task \X Level
    BY DEF Level
  <2>. QED BY <2>1
<1>6. /\ at[c] \in {"run", "handler"} /\ Goto(c, "resume")
      /\ sem' = [sem EXCEPT ![s].queue = Tail(@)]
      /\ woken' = [woken EXCEPT ![x] = t]
      /\ UNCHANGED <<globalQueue, globalLock, state, tm, stack, intr, ptr, want, terminateQueue>>
  BY <1>1, <1>2, <1>4, <1>5 DEF releaseSemaphore
<1>7. /\ sem'[s].queue = Tail(sem[s].queue) /\ \A z \in Sem : z # s => sem'[z].queue = sem[z].queue
      /\ \A z \in Sem : /\ sem'[z].locked = sem[z].locked
                        /\ sem'[z].flag = sem[z].flag /\ sem'[z].push = sem[z].push
      /\ sem' \in [Sem -> SemState]
  <2>1. sem' = [sem EXCEPT ![s] = [sem[s] EXCEPT !.queue = Tail(sem[s].queue)]]
    BY <1>3, <1>6 DEF SemState
  <2>2. [sem[s] EXCEPT !.queue = Tail(sem[s].queue)] \in SemState
    BY <1>3, <1>4 DEF SemState
  <2>. QED BY <1>3, <2>1, <2>2 DEF SemState
<1>8. woken \in [Task \X Level -> Worker \cup {NoTask}] /\ t # NoTask
  BY <1>2, TaskSwitchAssumption DEF TypeOK, Task
<1>9. /\ FieldsSame(c, u) /\ woken' \in [Task \X Level -> Worker \cup {NoTask}]
      /\ irq[u] = "none" => woken'[<<u, "task">>] = t /\ woken'[<<u, "irq">>] = woken[<<u, "irq">>]
      /\ irq[u] # "none" => woken'[<<u, "irq">>] = t /\ woken'[<<u, "task">>] = woken[<<u, "task">>]
  BY <1>5, <1>6, <1>8 DEF FieldsSame, Level
<1>10. "resume" \in TaskStep \cup IrqStep
  BY DEF TaskStep
<1>11. Moved(c, u, "resume")
  BY <1>1, <1>6, <1>9, <1>10, GotoMoved
<1>12. /\ OthersSame(c, u) /\ pc' \in [Task \X Level -> TaskStep \cup IrqStep] /\ at'[c] = "resume"
       /\ irq[u] = "none" => task'[u] = "resume" /\ irq'[u] = "none"
       /\ irq[u] # "none" => task'[u] = task[u] /\ irq'[u] = "resume"
  BY <1>11 DEF Moved
<1>13. TypeOK'
  BY <1>2, <1>6, <1>7, <1>9, <1>12 DEF TypeOK, SemState
<1>14. u \in GoodStacks' /\ task[u] # "free" /\ task'[u] # "free"
  <2>1. CASE irq[u] = "none"
    BY <1>1, <1>6, <1>8, <1>9, <1>12, <2>1 DEF GoodStacks, StackOK, TaskStep, IrqStep
  <2>2. CASE irq[u] # "none"
    BY <1>1, <1>6, <1>8, <1>9, <1>12, <2>2 DEF GoodStacks, StackOK, TaskStep, IrqStep
  <2>. QED BY <2>1, <2>2
<1>15. c \in GoodCpus'
  <2>1. intr[c] = TRUE => irq'[u] = "none"
    BY <1>1, <1>12 DEF CpuOK, RunOK
  <2>. QED BY <1>1, <1>6, <1>12, <2>1 DEF GoodCpus, CpuOK, RunOK, SwitchOK, PtrOK, OldOK, Mine
<1>16. ExLockOK'
  BY <1>2, <1>7, <1>12, ExLockKept DEF Mine
<1>17. CodeOK'
  BY <1>1, <1>6, <1>12, <1>13, <1>14, <1>15, <1>16, CodeStep
<1>18. woken[x] = NoTask /\ x \in {<<u, "task">>, <<u, "irq">>}
  BY <1>1, <1>5, <1>6 DEF StackOK
<1>. QED BY <1>1, <1>4, <1>6, <1>7, <1>12, <1>14, <1>17, <1>18 DEF Released

LEMMA ReleasePopInv ==
    ASSUME NEW kind, NEW of, Inv(kind, of), NEW c \in CPU, NEW s \in Sem, releaseSemaphore(c, s),
           sem[s].queue # <<>>
    PROVE  IInv'
<1>1. PICK u \in Task, t \in Worker, x \in Task \X Level : Released(c, u, s, t, x) /\ CodeOK'
  BY ReleasePopCode
<1>2. /\ t \in Task /\ x \in Owner /\ TypeOK /\ woken \in [Task \X Level -> Worker \cup {NoTask}]
      /\ PlacesOK(kind, of) /\ TasksNamed /\ CpuOK(c)
  BY Named DEF Task, Owner, Inv, CodeOK, TypeOK, GoodCpus
<1>3. PICK k \in [Task -> Kind], o \in [Task -> Owner] : Moves(kind, of, t, "woken", x, k, o)
  BY <1>2, MoveExists DEF PlacesOK, Kind
<1>4. CurrentOK(kind, of) /\ ReadyOK(kind) /\ InTransitOK(kind, of) /\ WaitingOK(kind, of)
      /\ WokenOK(kind, of) /\ TerminatedOK(kind) /\ FreeOK(kind) /\ AwayOK(kind)
  BY <1>2 DEF PlacesOK
<1>5. /\ UNCHANGED <<globalQueue, state, tm, stack, terminateQueue>> /\ stack[c] = u
      /\ at[c] \in {"run", "handler"} /\ at'[c] = "resume" /\ \A d \in CPU : d # c => at'[d] = at[d]
      /\ \A y \in Task : y # u => task'[y] = task[y] /\ irq'[y] = irq[y]
      /\ task[u] # "free" /\ task'[u] # "free"
  BY <1>1 DEF Released, OthersSame, PlacesSame
<1>6. kind[t] = "waiting" /\ WaitingOK(k, o)'
  <2>1. /\ sem[s].queue # <<>> /\ t = Head(sem[s].queue) /\ sem'[s].queue = Tail(sem[s].queue)
        /\ \A z \in Sem : z # s => sem'[z].queue = sem[z].queue
    BY <1>1 DEF Released
  <2>. QED BY <1>2, <1>3, <1>4, <2>1, WaitingLeaves
<1>7. WokenOK(k, o)'
  <2>1. woken[x] = NoTask /\ woken' = [woken EXCEPT ![x] = t]
    BY <1>1 DEF Released
  <2>. QED BY <1>2, <1>3, <1>4, <1>6, <2>1, WokenJoins
<1>8. CurrentOK(k, o)'
  BY <1>2, <1>3, <1>4, <1>5, <1>6, CurrentFrame
<1>9. ReadyOK(k)'
  BY <1>2, <1>3, <1>4, <1>5, <1>6, ReadyFrame
<1>10. InTransitOK(k, o)'
  <2>1. \A d \in CPU : at'[d] \in {"switch", "after", "func"} <=> at[d] \in {"switch", "after", "func"}
    BY <1>5
  <2>. QED BY <1>2, <1>3, <1>4, <1>5, <1>6, <2>1, InTransitFrame
<1>11. TerminatedOK(k)'
  BY <1>2, <1>3, <1>4, <1>5, <1>6, TerminatedFrame
<1>12. FreeOK(k)' /\ AwayOK(k)'
  <2>1. kind[u] = "current"
    <3>1. tm[c].current = u
      BY <1>2, <1>5 DEF CpuOK, SwitchOK
    <3>. QED BY <1>4, <3>1 DEF CurrentOK
  <2>2. irq'[t] = "none" /\ state'[t] = "SUSPENDED" /\ task'[t] # "free" /\ kind[t] # "ready"
    <3>1. t # u /\ kind[t] # "free" /\ kind[t] # "ready"
      BY <1>6, <2>1
    <3>2. irq[t] = "none" /\ state[t] = "SUSPENDED"
      BY <1>2, <1>4, <1>6 DEF AwayOK
    <3>3. task[t] # "free"
      BY <1>2, <1>4, <3>1 DEF FreeOK
    <3>4. task'[t] = task[t] /\ irq'[t] = irq[t] /\ state' = state
      BY <1>2, <1>5, <3>1
    <3>. QED BY <3>1, <3>2, <3>3, <3>4
  <2>3. /\ \A y \in Task : y # t => task'[y] = "free" <=> task[y] = "free"
        /\ \A y \in Task : y # t /\ kind[y] \in Away => irq'[y] = irq[y] /\ state'[y] = state[y]
        /\ \A d \in CPU : at'[d] = "switch" => at[d] = "switch"
    BY <1>5, <2>1 DEF Away
  <2>. QED BY <1>2, <1>3, <1>4, <1>5, <2>2, <2>3, AwayFrame
<1>13. Inv(k, o)'
  BY <1>1, <1>6, <1>7, <1>8, <1>9, <1>10, <1>11, <1>12 DEF Inv, PlacesOK
<1>. QED BY <1>13 DEF IInv

\* resume puts the task that it was given into the ready queue.
Resumed(c, u, t, x) ==
    /\ stack[c] = u /\ OthersSame(c, u) /\ at[c] = "resume" /\ at'[c] \in {"run", "handler"}
    /\ task[u] # "free" /\ task'[u] # "free"
    /\ woken[x] = t /\ woken' = [woken EXCEPT ![x] = NoTask]
    /\ state' = [state EXCEPT ![t] = "READY"] /\ globalQueue' = PushQueue(globalQueue, t)
    /\ UNCHANGED <<tm, stack, sem, terminateQueue>>

LEMMA ResumeCode ==
    ASSUME NEW kind, NEW of, Inv(kind, of), NEW c \in CPU, resume(c)
    PROVE  CodeOK' /\ \E u \in Task, t \in Worker, x \in Task \X Level : Resumed(c, u, t, x)
<1>1. PICK u \in Task : /\ stack[c] = u /\ StackOK(u) /\ CpuOK(c)
                        /\ at[c] = IF irq[u] = "none" THEN task[u] ELSE irq[u]
  BY StepView
<1>2. TypeOK /\ CodeOK /\ at[c] = At(c) /\ Top(stack[c]) = IF irq[stack[c]] = "none" THEN "task" ELSE "irq"
  BY AtView DEF Inv, CodeOK
<1>3. PICK x \in Task \X Level : x = <<u, IF irq[u] = "none" THEN "task" ELSE "irq">>
  <2>1. <<u, IF irq[u] = "none" THEN "task" ELSE "irq">> \in Task \X Level
    BY DEF Level
  <2>. QED BY <2>1
<1>4. at[c] = "resume" /\ woken \in [Task \X Level -> Worker \cup {NoTask}]
  BY <1>2 DEF resume, TypeOK
<1>5. PICK t \in Worker : t = woken[x]
  BY <1>1, <1>3, <1>4 DEF StackOK
<1>. DEFINE step == IF irq[u] = "none" THEN "run" ELSE "handler"
<1>6. /\ Goto(c, step) /\ woken' = [woken EXCEPT ![x] = NoTask]
      /\ state' = [state EXCEPT ![t] = "READY"] /\ globalQueue' = PushQueue(globalQueue, t)
      /\ UNCHANGED <<globalLock, tm, stack, intr, sem, ptr, want, terminateQueue>>
  <2>1. x = <<stack[c], Top(stack[c])>> /\ x[2] = IF irq[u] = "none" THEN "task" ELSE "irq"
    BY <1>1, <1>2, <1>3
  <2>. QED BY <1>5, <2>1 DEF resume
<1>7. /\ FieldsSame(c, u) /\ woken' \in [Task \X Level -> Worker \cup {NoTask}]
      /\ irq[u] = "none" => woken'[<<u, "task">>] = NoTask /\ woken'[<<u, "irq">>] = woken[<<u, "irq">>]
      /\ irq[u] # "none" => woken'[<<u, "irq">>] = NoTask /\ woken'[<<u, "task">>] = woken[<<u, "task">>]
  BY <1>3, <1>4, <1>6 DEF FieldsSame, Level
<1>8. /\ OthersSame(c, u) /\ pc' \in [Task \X Level -> TaskStep \cup IrqStep]
      /\ irq[u] = "none" => task'[u] = "run" /\ irq'[u] = "none" /\ at'[c] = "run"
      /\ irq[u] # "none" => task'[u] = task[u] /\ irq'[u] = "handler" /\ at'[c] = "handler"
  <2>1. CASE irq[u] = "none"
    <3>1. "run" \in TaskStep \cup IrqStep /\ Goto(c, "run")
      BY <1>6, <2>1 DEF TaskStep
    <3>2. Moved(c, u, "run")
      BY <1>1, <1>7, <3>1, GotoMoved
    <3>. QED BY <2>1, <3>2 DEF Moved
  <2>2. CASE irq[u] # "none"
    <3>1. "handler" \in TaskStep \cup IrqStep /\ Goto(c, "handler")
      BY <1>6, <2>2 DEF IrqStep
    <3>2. Moved(c, u, "handler")
      BY <1>1, <1>7, <3>1, GotoMoved
    <3>. QED BY <2>2, <3>2 DEF Moved
  <2>. QED BY <2>1, <2>2
<1>. HIDE DEF step
<1>9. TypeOK'
  <2>1. globalQueue' \in [0..(NUMBER_OF_PRIORITIES - 1) -> Seq(Task)]
    BY <1>2, <1>6, PushTyped DEF TypeOK, Task
  <2>. QED BY <1>2, <1>6, <1>7, <1>8, <2>1 DEF TypeOK
<1>10. u \in GoodStacks' /\ task[u] # "free" /\ task'[u] # "free"
  <2>1. CASE irq[u] = "none"
    BY <1>1, <1>4, <1>6, <1>7, <1>8, <2>1 DEF GoodStacks, StackOK, TaskStep, IrqStep
  <2>2. CASE irq[u] # "none"
    BY <1>1, <1>4, <1>6, <1>7, <1>8, <2>2 DEF GoodStacks, StackOK, TaskStep, IrqStep
  <2>. QED BY <2>1, <2>2
<1>11. c \in GoodCpus'
  <2>1. intr[c] = TRUE => irq'[u] = "none" /\ at'[c] = "run"
    BY <1>1, <1>8 DEF CpuOK, RunOK
  <2>. QED BY <1>1, <1>4, <1>6, <1>8, <2>1 DEF GoodCpus, CpuOK, RunOK, SwitchOK, PtrOK, OldOK, Mine
<1>12. ExLockOK'
  BY <1>2, <1>6, <1>8, ExLockKept DEF Mine
<1>13. CodeOK'
  BY <1>1, <1>4, <1>6, <1>8, <1>9, <1>10, <1>11, <1>12, CodeStep
<1>14. at'[c] \in {"run", "handler"}
  BY <1>8
<1>. QED BY <1>1, <1>4, <1>5, <1>6, <1>8, <1>10, <1>13, <1>14 DEF Resumed

LEMMA ResumeInv ==
    ASSUME NEW kind, NEW of, Inv(kind, of), NEW c \in CPU, resume(c)
    PROVE  IInv'
<1>1. PICK u \in Task, t \in Worker, x \in Task \X Level : Resumed(c, u, t, x) /\ CodeOK'
  BY ResumeCode
<1>2. /\ t \in Task /\ TypeOK /\ woken \in [Task \X Level -> Worker \cup {NoTask}]
      /\ state \in [Task -> {"READY", "SUSPENDED"}]
      /\ PlacesOK(kind, of) /\ TasksNamed /\ CpuOK(c)
  BY Named DEF Task, Inv, CodeOK, TypeOK, GoodCpus
<1>3. PICK k \in [Task -> Kind], o \in [Task -> Owner] : Moves(kind, of, t, "ready", of[t], k, o)
  BY <1>2, MoveExists DEF PlacesOK, Kind
<1>4. CurrentOK(kind, of) /\ ReadyOK(kind) /\ InTransitOK(kind, of) /\ WaitingOK(kind, of)
      /\ WokenOK(kind, of) /\ TerminatedOK(kind) /\ FreeOK(kind) /\ AwayOK(kind)
  BY <1>2 DEF PlacesOK
<1>5. /\ UNCHANGED <<sem, tm, stack, terminateQueue>> /\ stack[c] = u
      /\ at[c] = "resume" /\ at'[c] \in {"run", "handler"} /\ \A d \in CPU : d # c => at'[d] = at[d]
      /\ \A y \in Task : y # u => task'[y] = task[y] /\ irq'[y] = irq[y]
      /\ task[u] # "free" /\ task'[u] # "free"
      /\ \A y \in Task : y # t => state'[y] = state[y]
  BY <1>1, <1>2 DEF Resumed, OthersSame, PlacesSame
<1>6. kind[t] = "woken" /\ WokenOK(k, o)'
  <2>1. woken[x] = t /\ woken' = [woken EXCEPT ![x] = NoTask]
    BY <1>1 DEF Resumed
  <2>. QED BY <1>2, <1>3, <1>4, <2>1, WokenLeaves
<1>7. ReadyOK(k)'
  <2>1. globalQueue' = PushQueue(globalQueue, t)
    BY <1>1 DEF Resumed
  <2>. QED BY <1>2, <1>3, <1>4, <1>6, <2>1, ReadyJoins
<1>8. CurrentOK(k, o)'
  BY <1>2, <1>3, <1>4, <1>5, <1>6, CurrentFrame
<1>9. WaitingOK(k, o)'
  BY <1>2, <1>3, <1>4, <1>5, <1>6, WaitingFrame
<1>10. InTransitOK(k, o)'
  <2>1. \A d \in CPU : at'[d] \in {"switch", "after", "func"} <=> at[d] \in {"switch", "after", "func"}
    BY <1>5
  <2>. QED BY <1>2, <1>3, <1>4, <1>5, <1>6, <2>1, InTransitFrame
<1>11. TerminatedOK(k)'
  BY <1>2, <1>3, <1>4, <1>5, <1>6, TerminatedFrame
<1>12. FreeOK(k)' /\ AwayOK(k)'
  <2>1. kind[u] = "current"
    <3>1. tm[c].current = u
      BY <1>2, <1>5 DEF CpuOK, SwitchOK
    <3>. QED BY <1>4, <3>1 DEF CurrentOK
  <2>2. "ready" \notin Away /\ task'[t] # "free" /\ kind[t] # "ready"
    BY <1>2, <1>4, <1>5, <1>6, <2>1 DEF Away, FreeOK
  <2>3. /\ \A y \in Task : y # t => task'[y] = "free" <=> task[y] = "free"
        /\ \A y \in Task : y # t /\ kind[y] \in Away => irq'[y] = irq[y] /\ state'[y] = state[y]
        /\ \A d \in CPU : at'[d] = "switch" => at[d] = "switch"
    BY <1>5, <2>1 DEF Away
  <2>. QED BY ZenonT(30), <1>2, <1>3, <1>4, <1>5, <2>2, <2>3, AwayFrame
<1>13. Inv(k, o)'
  BY <1>1, <1>6, <1>7, <1>8, <1>9, <1>10, <1>11, <1>12 DEF Inv, PlacesOK
<1>. QED BY <1>13 DEF IInv

----------------------------------------------------------------------------
\* Creation and termination

LEMMA NextAtView ==
    ASSUME stack' \in [CPU -> Task]
    PROVE  \A d \in CPU : at'[d] = IF irq'[stack'[d]] = "none" THEN task'[stack'[d]] ELSE irq'[stack'[d]]
BY DEF at, At, Top, task, irq

\* The tasks on whose stacks processors are.
LEMMA OnStack ==
    ASSUME NEW kind, NEW of, Inv(kind, of)
    PROVE  \A d \in CPU : kind[stack[d]] \in {"current", "ready", "transit"}
<1>1. CurrentOK(kind, of) /\ InTransitOK(kind, of) /\ AwayOK(kind)
  BY DEF Inv, PlacesOK
<1>2. \A e \in CPU : SwitchOK(e)
  BY DEF Inv, CodeOK, GoodCpus, CpuOK
<1>3. \A e \in CPU : at[e] # "switch" => kind[stack[e]] = "current"
  <2>1. \A e \in CPU : at[e] # "switch" => tm[e].current = stack[e]
    BY <1>2 DEF SwitchOK
  <2>2. \A e \in CPU : kind[tm[e].current] = "current"
    BY <1>1 DEF CurrentOK
  <2>. QED BY <2>1, <2>2
<1>4. ASSUME NEW e \in CPU, at[e] = "switch"
      PROVE  kind[stack[e]] \in {"ready", "transit"}
  <2>1. tm[e].after.old = stack[e]
    BY <1>2, <1>4 DEF SwitchOK
  <2>2. CASE tm[e].after.func = "NULL"
    BY <1>1, <1>4, <2>2 DEF AwayOK
  <2>3. CASE tm[e].after.func # "NULL"
    <3>1. kind[tm[e].after.old] = "transit"
      BY <1>1, <1>4, <2>3 DEF InTransitOK
    <3>. QED BY <2>1, <3>1
  <2>. QED BY <2>2, <2>3
<1>. QED BY <1>3, <1>4

\* A step of c on its stack u that also makes or frees the stack t.
TwoStacks(c, u, t) ==
    /\ FieldsSame(c, u) /\ irq' = irq
    /\ \A x \in Task : x \notin {u, t} => task'[x] = task[x]
    /\ \A d \in CPU : d # c => at'[d] = at[d]

LEMMA TwoStacksKept ==
    ASSUME CodeOK, NEW c \in CPU, NEW u \in Task, stack[c] = u, NEW t \in Task, TwoStacks(c, u, t),
           \A d \in CPU : stack[d] # t, \A d \in CPU : d # c => stack[d] # u,
           irq[t] = "none", task'[t] \in {"free", "saved"},
           u \in GoodStacks', t \in GoodStacks', c \in GoodCpus'
    PROVE  SavedOK' /\ GoodStacks' = Task /\ GoodCpus' = CPU
<1>1. SavedOK'
  BY DEF CodeOK, SavedOK, TwoStacks, FieldsSame
<1>2. ASSUME NEW x \in Task PROVE StackOK(x)'
  <2>1. CASE x \in {u, t}
    BY <2>1 DEF GoodStacks
  <2>2. CASE x \notin {u, t}
    <3>1. StackOK(x) /\ "task" \in Level /\ "irq" \in Level
      BY DEF CodeOK, GoodStacks, Level
    <3>2. /\ task'[x] = task[x] /\ irq'[x] = irq[x] /\ want'[x] = want[x]
          /\ woken'[<<x, "task">>] = woken[<<x, "task">>] /\ woken'[<<x, "irq">>] = woken[<<x, "irq">>]
      BY <2>2, <3>1 DEF TwoStacks, FieldsSame
    <3>. QED BY <3>1, <3>2 DEF StackOK
  <2>. QED BY <2>1, <2>2
<1>3. ASSUME NEW d \in CPU PROVE CpuOK(d)'
  <2>1. CASE d = c
    BY <2>1 DEF GoodCpus
  <2>2. CASE d # c
    <3>1. CpuOK(d) /\ stack[d] \in Task /\ stack[d] # u
      BY <2>2 DEF CodeOK, GoodCpus, TypeOK
    <3>2. /\ at'[d] = at[d] /\ tm'[d] = tm[d] /\ intr'[d] = intr[d] /\ stack'[d] = stack[d] /\ irq' = irq
          /\ ptr'[<<stack[d], "task">>] = ptr[<<stack[d], "task">>]
          /\ ptr'[<<stack[d], "irq">>] = ptr[<<stack[d], "irq">>]
      BY <2>2, <3>1 DEF TwoStacks, FieldsSame, Level
    <3>3. RunOK(d)' /\ SwitchOK(d)' /\ OldOK(d)'
      BY <3>1, <3>2 DEF CpuOK, RunOK, SwitchOK, OldOK
    <3>4. PtrOK(d)'
      BY <3>1, <3>2 DEF CpuOK, PtrOK
    <3>. QED BY <3>3, <3>4 DEF CpuOK
  <2>. QED BY <2>1, <2>2
<1>. QED BY <1>1, <1>2, <1>3 DEF GoodStacks, GoodCpus

\* It happens outside of taskSwitch.
LEMMA TwoStacksCode ==
    ASSUME NEW kind, NEW of, Inv(kind, of), NEW c \in CPU, NEW u \in Task, stack[c] = u,
           NEW t \in Task, TwoStacks(c, u, t), kind[t] \in {"free", "terminated"},
           irq[t] = "none", task'[t] \in {"free", "saved"}, TypeOK',
           u \in GoodStacks', t \in GoodStacks', c \in GoodCpus',
           at[c] \notin Mine, at'[c] \notin Mine, UNCHANGED <<globalLock, sem>>
    PROVE  CodeOK'
<1>1. CodeOK /\ (\A d \in CPU : stack[d] # t) /\ \A d \in CPU : d # c => stack[d] # u
  BY Exclusive, OnStack DEF Inv
<1>2. SavedOK' /\ GoodStacks' = Task /\ GoodCpus' = CPU
  BY SMT, <1>1, TwoStacksKept
<1>3. GlobalOK'
  BY <1>1 DEF CodeOK, GlobalOK, TwoStacks, Mine
<1>4. ExLockOK'
  <2>1. /\ \A d \in CPU : d # c => at'[d] = at[d] /\ tm'[d] = tm[d]
        /\ UNCHANGED sem
    BY DEF TwoStacks, FieldsSame
  <2>2. \A d \in CPU : at'[d] \in Mine => d # c /\ at[d] \in Mine /\ tm'[d] = tm[d]
    BY <2>1
  <2>3. \A d \in CPU : \A z : Blocks(d, z)' => Blocks(d, z)
    BY <2>2 DEF Blocks
  <2>4. ExLockOK
    BY <1>1 DEF CodeOK
  <2>5. ASSUME NEW d \in CPU, at'[d] \in Mine, tm'[d].after.func = "afterExLock"
        PROVE  /\ tm'[d].after.arg \in Sem
               /\ sem'[tm'[d].after.arg].locked = TRUE /\ sem'[tm'[d].after.arg].flag = FALSE
    BY ZenonT(30), <2>1, <2>2, <2>4, <2>5 DEF ExLockOK
  <2>6. \A d, e \in CPU : \A s \in Sem : Blocks(d, s)' /\ Blocks(e, s)' => d = e
    BY <2>3, <2>4 DEF ExLockOK
  <2>7. \A s \in Sem : sem'[s].push = sem'[s].locked
    BY <2>1, <2>4 DEF ExLockOK
  <2>. QED BY <2>5, <2>6, <2>7 DEF ExLockOK
<1>. QED BY <1>2, <1>3, <1>4 DEF CodeOK

Created(c, u, t) ==
    /\ stack[c] = u /\ TwoStacks(c, u, t) /\ at[c] = "run" /\ at'[c] = "resume" /\ irq[u] = "none"
    /\ task[u] # "free" /\ task'[u] # "free" /\ task[t] = "free" /\ task'[t] = "saved" /\ irq[t] = "none"
    /\ woken[<<u, "task">>] = NoTask /\ woken' = [woken EXCEPT ![<<u, "task">>] = t]
    /\ state' = [state EXCEPT ![t] = "SUSPENDED"]
    /\ UNCHANGED <<globalQueue, globalLock, tm, stack, sem, terminateQueue>>

LEMMA CreateCode ==
    ASSUME NEW kind, NEW of, Inv(kind, of), NEW c \in CPU, NEW t \in Worker, createKernelTask(c, t)
    PROVE  CodeOK' /\ \E u \in Task : Created(c, u, t)
<1>1. PICK u \in Task : /\ stack[c] = u /\ StackOK(u) /\ CpuOK(c)
                        /\ at[c] = IF irq[u] = "none" THEN task[u] ELSE irq[u]
  BY StepView
<1>2. /\ TypeOK /\ CodeOK /\ at[c] = At(c) /\ t \in Task /\ stack \in [CPU -> Task]
      /\ pc \in [Task \X Level -> TaskStep \cup IrqStep]
      /\ <<u, "task">> \in Task \X Level /\ <<t, "task">> \in Task \X Level
      /\ \A x \in Task : <<x, "irq">> \in Task \X Level /\ <<x, "task">> \in Task \X Level
  BY AtView DEF Inv, CodeOK, Task, TypeOK, Level
<1>3. /\ at[c] = "run" /\ task[t] = "free"
      /\ pc' = [pc EXCEPT ![<<u, "task">>] = "resume", ![<<t, "task">>] = "saved"]
      /\ state' = [state EXCEPT ![t] = "SUSPENDED"] /\ woken' = [woken EXCEPT ![<<u, "task">>] = t]
      /\ UNCHANGED <<globalQueue, globalLock, tm, stack, intr, sem, ptr, want, terminateQueue>>
  BY <1>1, <1>2 DEF createKernelTask, task
<1>4. irq[u] = "none" /\ task[u] = "run" /\ u # t /\ woken[<<u, "task">>] = NoTask
  BY <1>1, <1>3 DEF StackOK, IrqStep, InSwitch
<1>5. StackOK(t) /\ kind[t] = "free" /\ irq[t] = "none" /\ task[u] # "free"
  BY <1>2, <1>3, <1>4 DEF CodeOK, GoodStacks, StackOK, Inv, PlacesOK, FreeOK
<1>6. /\ irq' = irq /\ task'[u] = "resume" /\ task'[t] = "saved"
      /\ \A x \in Task : x \notin {u, t} => task'[x] = task[x]
      /\ pc' \in [Task \X Level -> TaskStep \cup IrqStep]
  <2>1. /\ \A x \in Task : pc'[<<x, "irq">>] = pc[<<x, "irq">>]
        /\ pc'[<<u, "task">>] = "resume" /\ pc'[<<t, "task">>] = "saved"
        /\ \A x \in Task : x \notin {u, t} => pc'[<<x, "task">>] = pc[<<x, "task">>]
    BY <1>2, <1>3, <1>4
  <2>2. "resume" \in TaskStep /\ "saved" \in TaskStep
    BY DEF TaskStep
  <2>3. pc' \in [Task \X Level -> TaskStep \cup IrqStep]
    BY <1>2, <1>3, <2>2
  <2>4. irq' = irq
    BY <2>1 DEF irq
  <2>5. task'[u] = "resume" /\ task'[t] = "saved" /\ \A x \in Task : x \notin {u, t} => task'[x] = task[x]
    BY <1>2, <2>1 DEF task
  <2>. QED BY <2>3, <2>4, <2>5
<1>7. (\A d \in CPU : stack[d] # t) /\ (\A d \in CPU : d # c => stack[d] # u)
  BY <1>1, <1>5, Exclusive, OnStack
<1>8. at'[c] = "resume" /\ \A d \in CPU : d # c => at'[d] = at[d]
  <2>1. \A d \in CPU : at'[d] = IF irq'[stack'[d]] = "none" THEN task'[stack'[d]] ELSE irq'[stack'[d]]
    BY <1>2, <1>3, NextAtView
  <2>2. \A d \in CPU : at[d] = IF irq[stack[d]] = "none" THEN task[stack[d]] ELSE irq[stack[d]]
    BY <1>2, AtView
  <2>3. stack' = stack /\ \A d \in CPU : stack[d] \in Task
    BY <1>2, <1>3
  <2>. QED BY SMTT(20), <1>1, <1>4, <1>6, <1>7, <2>1, <2>2, <2>3
<1>9. /\ FieldsSame(c, u) /\ woken' \in [Task \X Level -> Worker \cup {NoTask}]
      /\ woken'[<<u, "task">>] = t /\ \A x \in Task : woken'[<<x, "irq">>] = woken[<<x, "irq">>]
      /\ woken'[<<t, "task">>] = woken[<<t, "task">>] /\ t # NoTask
  <2>1. woken \in [Task \X Level -> Worker \cup {NoTask}] /\ t # NoTask
    BY SMT, <1>2, TaskSwitchAssumption DEF TypeOK, Task
  <2>. QED BY <1>2, <1>3, <1>4, <2>1 DEF FieldsSame, Level
<1>10. TwoStacks(c, u, t)
  BY <1>6, <1>8, <1>9 DEF TwoStacks
<1>11. TypeOK'
  BY <1>2, <1>3, <1>6, <1>9 DEF TypeOK
<1>12. u \in GoodStacks'
  BY <1>1, <1>3, <1>4, <1>6, <1>9 DEF GoodStacks, StackOK, TaskStep, IrqStep
<1>13. t \in GoodStacks'
  BY <1>2, <1>3, <1>5, <1>6, <1>9 DEF GoodStacks, StackOK, TaskStep, IrqStep
<1>14. c \in GoodCpus'
  BY <1>1, <1>3, <1>4, <1>6, <1>8 DEF GoodCpus, CpuOK, RunOK, SwitchOK, PtrOK, OldOK, Mine
<1>15. CodeOK'
  <2>1. at[c] \notin Mine /\ at'[c] \notin Mine /\ kind[t] \in {"free", "terminated"}
        /\ task'[t] \in {"free", "saved"}
    BY <1>3, <1>5, <1>6, <1>8 DEF Mine
  <2>. QED BY <1>1, <1>2, <1>3, <1>5, <1>10, <1>11, <1>12, <1>13, <1>14, <2>1, TwoStacksCode
<1>. QED BY <1>1, <1>3, <1>4, <1>5, <1>6, <1>8, <1>10, <1>15 DEF Created

LEMMA CreateInv ==
    ASSUME NEW kind, NEW of, Inv(kind, of), NEW c \in CPU, NEW t \in Worker, createKernelTask(c, t)
    PROVE  IInv'
<1>1. PICK u \in Task : Created(c, u, t) /\ CodeOK'
  BY CreateCode
<1>2. PICK x \in Task \X Level : x = <<u, "task">>
  BY DEF Level
<1>3. /\ t \in Task /\ x \in Owner /\ woken \in [Task \X Level -> Worker \cup {NoTask}]
      /\ state \in [Task -> {"READY", "SUSPENDED"}] /\ PlacesOK(kind, of) /\ TasksNamed
  BY Named DEF Task, Owner, Inv, CodeOK, TypeOK
<1>4. PICK k \in [Task -> Kind], o \in [Task -> Owner] : Moves(kind, of, t, "woken", x, k, o)
  BY <1>3, MoveExists DEF PlacesOK, Kind
<1>5. CurrentOK(kind, of) /\ ReadyOK(kind) /\ InTransitOK(kind, of) /\ WaitingOK(kind, of)
      /\ WokenOK(kind, of) /\ TerminatedOK(kind) /\ FreeOK(kind) /\ AwayOK(kind)
  BY <1>3 DEF PlacesOK
<1>6. /\ UNCHANGED <<globalQueue, tm, stack, sem, terminateQueue>>
      /\ at[c] = "run" /\ at'[c] = "resume" /\ \A d \in CPU : d # c => at'[d] = at[d]
      /\ irq' = irq /\ \A y \in Task : y \notin {u, t} => task'[y] = task[y]
      /\ task[u] # "free" /\ task'[u] # "free" /\ task[t] = "free" /\ task'[t] = "saved" /\ irq[t] = "none"
      /\ \A y \in Task : y # t => state'[y] = state[y]
      /\ state'[t] = "SUSPENDED"
  BY <1>1, <1>3 DEF Created, TwoStacks
<1>7. kind[t] = "free"
  BY <1>3, <1>5, <1>6 DEF FreeOK
<1>8. WokenOK(k, o)'
  <2>1. woken[x] = NoTask /\ woken' = [woken EXCEPT ![x] = t]
    BY <1>1, <1>2 DEF Created
  <2>. QED BY <1>3, <1>4, <1>5, <1>7, <2>1, WokenJoins
<1>9. CurrentOK(k, o)'
  BY <1>3, <1>4, <1>5, <1>6, <1>7, CurrentFrame
<1>10. ReadyOK(k)'
  BY <1>3, <1>4, <1>5, <1>6, <1>7, ReadyFrame
<1>11. InTransitOK(k, o)'
  <2>1. \A d \in CPU : at'[d] \in {"switch", "after", "func"} <=> at[d] \in {"switch", "after", "func"}
    BY <1>6
  <2>. QED BY <1>3, <1>4, <1>5, <1>6, <1>7, <2>1, InTransitFrame
<1>12. WaitingOK(k, o)'
  BY <1>3, <1>4, <1>5, <1>6, <1>7, WaitingFrame
<1>13. TerminatedOK(k)'
  BY <1>3, <1>4, <1>5, <1>6, <1>7, TerminatedFrame
<1>14. FreeOK(k)' /\ AwayOK(k)'
  <2>1. irq'[t] = "none" /\ state'[t] = "SUSPENDED" /\ task'[t] # "free" /\ kind[t] # "ready"
    BY <1>6, <1>7
  <2>2. /\ \A y \in Task : y # t => task'[y] = "free" <=> task[y] = "free"
        /\ \A y \in Task : y # t /\ kind[y] \in Away => irq'[y] = irq[y] /\ state'[y] = state[y]
        /\ \A d \in CPU : at'[d] = "switch" => at[d] = "switch"
    BY <1>6
  <2>. QED BY <1>3, <1>4, <1>5, <1>6, <2>1, <2>2, AwayFrame
<1>15. Inv(k, o)'
  BY <1>1, <1>8, <1>9, <1>10, <1>11, <1>12, <1>13, <1>14 DEF Inv, PlacesOK
<1>. QED BY <1>15 DEF IInv

\* clearTerminateQueue frees the stack of a task that terminated.
Cleared(c, u, t) ==
    /\ stack[c] = u /\ TwoStacks(c, u, t) /\ at[c] = "reap" /\ at' = at
    /\ task[u] # "free" /\ task' = [task EXCEPT ![t] = "free"]
    /\ terminateQueue # <<>> /\ t = Head(terminateQueue) /\ terminateQueue' = Tail(terminateQueue)
    /\ UNCHANGED <<globalQueue, state, tm, stack, sem, woken>>

LEMMA ClearCode ==
    ASSUME NEW kind, NEW of, Inv(kind, of), NEW c \in CPU, ClearTerminateQueue(c)
    PROVE  CodeOK' /\ \E u \in Task, t \in Worker : Cleared(c, u, t)
<1>1. PICK u \in Task : /\ stack[c] = u /\ StackOK(u) /\ CpuOK(c)
                        /\ at[c] = IF irq[u] = "none" THEN task[u] ELSE irq[u]
  BY StepView
<1>2. /\ TypeOK /\ CodeOK /\ at[c] = At(c) /\ stack \in [CPU -> Task] /\ terminateQueue \in Seq(Worker)
      /\ pc \in [Task \X Level -> TaskStep \cup IrqStep]
      /\ \A x \in Task : <<x, "irq">> \in Task \X Level /\ <<x, "task">> \in Task \X Level
  BY AtView DEF Inv, CodeOK, TypeOK, Level
<1>3. PICK t \in Worker : /\ at[c] = "reap" /\ terminateQueue # <<>> /\ t = Head(terminateQueue)
                          /\ terminateQueue' = Tail(terminateQueue)
                          /\ pc' = [pc EXCEPT ![<<t, "task">>] = "free"]
                          /\ UNCHANGED <<globalQueue, globalLock, state, tm, stack, intr, sem, woken, ptr, want>>
  <2>1. /\ at[c] = "reap" /\ terminateQueue # <<>> /\ terminateQueue' = Tail(terminateQueue)
        /\ pc' = [pc EXCEPT ![<<Head(terminateQueue), "task">>] = "free"]
        /\ UNCHANGED <<globalQueue, globalLock, state, tm, stack, intr, sem, woken, ptr, want>>
    BY <1>2 DEF ClearTerminateQueue
  <2>2. Head(terminateQueue) \in Worker
    BY SMT, <1>2, <2>1
  <2>. QED BY <2>1, <2>2
<1>4. irq[u] = "none" /\ task[u] = "reap" /\ t \in Task
  BY <1>1, <1>3 DEF StackOK, IrqStep, InSwitch, Task
<1>5. /\ StackOK(t) /\ kind[t] = "terminated" /\ irq[t] = "none" /\ task[t] # "free"
      /\ woken[<<t, "task">>] = NoTask
  <2>1. kind[t] = "terminated"
    <3>1. Holds(terminateQueue, Terminated(kind))
      BY DEF Inv, PlacesOK, TerminatedOK
    <3>2. t \in Terminated(kind)
      BY <1>3, <3>1, HoldsTail
    <3>. QED BY <3>2 DEF Terminated
  <2>2. StackOK(t) /\ irq[t] = "none" /\ task[t] # "free"
    BY <1>2, <1>4, <2>1 DEF CodeOK, GoodStacks, Inv, PlacesOK, FreeOK, AwayOK
  <2>3. \A d \in CPU : stack[d] # t
    BY <2>1, OnStack
  <2>4. task[t] = "saved"
    BY <1>2, <1>4, <2>2, <2>3 DEF CodeOK, SavedOK
  <2>. QED BY <2>1, <2>2, <2>4 DEF StackOK
<1>6. (\A d \in CPU : stack[d] # t) /\ u # t
  BY <1>1, <1>5, OnStack
<1>7. irq' = irq /\ task' = [task EXCEPT ![t] = "free"] /\ pc' \in [Task \X Level -> TaskStep \cup IrqStep]
  <2>1. /\ \A x \in Task : pc'[<<x, "irq">>] = pc[<<x, "irq">>]
        /\ \A x \in Task : pc'[<<x, "task">>] = IF x = t THEN "free" ELSE pc[<<x, "task">>]
    BY <1>2, <1>3, <1>4
  <2>2. "free" \in TaskStep
    BY DEF TaskStep
  <2>3. pc' \in [Task \X Level -> TaskStep \cup IrqStep]
    BY <1>2, <1>3, <2>2
  <2>4. irq' = irq
    BY <2>1 DEF irq
  <2>5. task' = [task EXCEPT ![t] = "free"]
    BY <2>1 DEF task
  <2>. QED BY <2>3, <2>4, <2>5
<1>8. task'[t] = "free" /\ \A x \in Task : x # t => task'[x] = task[x]
  BY <1>4, <1>7 DEF task
<1>9. at' = at
  <2>1. \A d \in CPU : at'[d] = IF irq'[stack'[d]] = "none" THEN task'[stack'[d]] ELSE irq'[stack'[d]]
    BY <1>2, <1>3, NextAtView
  <2>2. \A d \in CPU : at[d] = IF irq[stack[d]] = "none" THEN task[stack[d]] ELSE irq[stack[d]]
    BY <1>2, AtView
  <2>3. stack' = stack /\ \A d \in CPU : stack[d] \in Task
    BY <1>2, <1>3
  <2>4. \A d \in CPU : at'[d] = at[d]
    BY SMTT(20), <1>6, <1>7, <1>8, <2>1, <2>2, <2>3
  <2>. QED BY <2>4 DEF at
<1>10. TwoStacks(c, u, t)
  BY <1>3, <1>7, <1>8, <1>9 DEF TwoStacks, FieldsSame
<1>11. TypeOK'
  <2>1. terminateQueue' \in Seq(Worker)
    BY SMT, <1>2, <1>3
  <2>2. TypeOK
    BY DEF Inv, CodeOK
  <2>. QED BY <1>3, <1>7, <2>1, <2>2 DEF TypeOK
<1>12. u \in GoodStacks'
  BY <1>1, <1>3, <1>4, <1>6, <1>7, <1>8 DEF GoodStacks, StackOK
<1>13. t \in GoodStacks'
  BY <1>3, <1>4, <1>5, <1>7, <1>8 DEF GoodStacks, StackOK, TaskStep, IrqStep
<1>14. c \in GoodCpus'
  BY <1>1, <1>3, <1>4, <1>7, <1>9 DEF GoodCpus, CpuOK, RunOK, SwitchOK, PtrOK, OldOK, Mine
<1>15. CodeOK'
  <2>1. at[c] \notin Mine /\ at'[c] \notin Mine /\ kind[t] \in {"free", "terminated"}
        /\ task'[t] \in {"free", "saved"}
    BY <1>3, <1>5, <1>8, <1>9 DEF Mine
  <2>. QED BY <1>1, <1>3, <1>4, <1>5, <1>10, <1>11, <1>12, <1>13, <1>14, <2>1, TwoStacksCode
<1>. QED BY <1>1, <1>3, <1>4, <1>7, <1>9, <1>10, <1>15 DEF Cleared

LEMMA ClearInv ==
    ASSUME NEW kind, NEW of, Inv(kind, of), NEW c \in CPU, ClearTerminateQueue(c)
    PROVE  IInv'
<1>1. PICK u \in Task, t \in Worker : Cleared(c, u, t) /\ CodeOK'
  BY ClearCode
<1>2. t \in Task /\ PlacesOK(kind, of) /\ TasksNamed
  BY Named DEF Task, Inv
<1>3. PICK k \in [Task -> Kind], o \in [Task -> Owner] : Moves(kind, of, t, "free", of[t], k, o)
  BY <1>2, MoveExists DEF PlacesOK, Kind
<1>4. CurrentOK(kind, of) /\ ReadyOK(kind) /\ InTransitOK(kind, of) /\ WaitingOK(kind, of)
      /\ WokenOK(kind, of) /\ TerminatedOK(kind) /\ FreeOK(kind) /\ AwayOK(kind)
  BY <1>2 DEF PlacesOK
<1>5. /\ UNCHANGED <<globalQueue, state, tm, stack, sem, woken>> /\ at' = at /\ irq' = irq
      /\ \A x \in Task : task'[x] = IF x = t THEN "free" ELSE task[x]
  BY <1>1 DEF Cleared, TwoStacks, task
<1>6. kind[t] = "terminated" /\ TerminatedOK(k)'
  <2>1. terminateQueue # <<>> /\ t = Head(terminateQueue) /\ terminateQueue' = Tail(terminateQueue)
    BY <1>1 DEF Cleared
  <2>. QED BY <1>2, <1>3, <1>4, <2>1, TerminatedLeaves
<1>7. CurrentOK(k, o)'
  BY <1>2, <1>3, <1>4, <1>5, <1>6, CurrentFrame
<1>8. ReadyOK(k)'
  BY <1>2, <1>3, <1>4, <1>5, <1>6, ReadyFrame
<1>9. InTransitOK(k, o)'
  <2>1. \A d \in CPU : at'[d] \in {"switch", "after", "func"} <=> at[d] \in {"switch", "after", "func"}
    BY <1>5
  <2>. QED BY <1>2, <1>3, <1>4, <1>5, <1>6, <2>1, InTransitFrame
<1>10. WaitingOK(k, o)'
  BY <1>2, <1>3, <1>4, <1>5, <1>6, WaitingFrame
<1>11. WokenOK(k, o)'
  BY <1>2, <1>3, <1>4, <1>5, <1>6, WokenFrame
<1>12. FreeOK(k)' /\ AwayOK(k)'
  <2>1. "free" \notin Away /\ task'[t] = "free" /\ kind[t] # "ready"
    BY <1>2, <1>5, <1>6 DEF Away
  <2>2. /\ \A y \in Task : y # t => task'[y] = "free" <=> task[y] = "free"
        /\ \A y \in Task : y # t /\ kind[y] \in Away => irq'[y] = irq[y] /\ state'[y] = state[y]
        /\ \A d \in CPU : at'[d] = "switch" => at[d] = "switch"
    BY <1>5
  <2>. QED BY <1>2, <1>3, <1>4, <1>5, <2>1, <2>2, AwayFrame
<1>13. Inv(k, o)'
  BY <1>1, <1>6, <1>7, <1>8, <1>9, <1>10, <1>11, <1>12 DEF Inv, PlacesOK
<1>. QED BY <1>13 DEF IInv
==============================================================================
