------------------------------- MODULE Console -------------------------------
(***************************************************************************)
(* The command line of the console (kernel/io/console.c).  The console     *)
(* task edits a line; a finished line is a command when no task has opened *)
(* the console, and input for those tasks otherwise.  It then goes through *)
(* lineFIFO to the waiting read requests, which the console task and the   *)
(* readers themselves serve: whoever serves takes the first request out of *)
(* the list, reads characters, and puts the request back when there are    *)
(* none.  Characters are counted: which one is typed makes no difference.  *)
(***************************************************************************)
EXTENDS ConsoleDisplay, FiniteSets

CONSTANTS ConsoleUser,      \* tasks that open and read the console
          ConsoleTask,      \* the task of kernelConsoleService
          MaxLine,          \* MAX_COMMAND_LINE_LENGTH
          LineFIFOLength,   \* 1024 in initConsoleCommandLine
          BufferSizes       \* of read requests

ASSUME ConsoleAssumption ==
    /\ MaxLine \in Nat \ {0} /\ LineFIFOLength \in Nat \ {0}
    /\ IsFiniteSet(ConsoleUser) /\ ConsoleTask \notin ConsoleUser

Actor == ConsoleUser \cup {ConsoleTask}
NoReader == "none"

VARIABLES cmd,       \* ConsoleCommandLine: lineEnd, listenerCount, requests; the number of
                     \* characters in lineFIFO
          console,   \* per task: its place, the request it serves, whether it has the
                     \* console open and waits for its own read
          missed,    \* a request was put back beside input that came in between
          null       \* runCommand resumed a task that was not created

consoleVars == <<cmd, console, missed, null>>

Resting == [pc |-> "idle", serves |-> NoReader, count |-> 0, open |-> FALSE, reads |-> FALSE, size |-> 0]

initConsoleCommandLine ==
    /\ initKernelConsole
    /\ cmd = [lineEnd |-> 0, listenerCount |-> 0, requests |-> <<>>, lineFIFO |-> 0]
    /\ console = [a \in Actor |-> Resting]
    /\ missed = FALSE /\ null = FALSE

ConsoleAt(a, pc) == console[a].pc = pc
ConsoleGoto(a, pc) == console' = [console EXCEPT ![a].pc = pc]

-----------------------------------------------------------------------------
(* Keys, read by kernelConsoleLoop *)

\* One character of the line is left for the line feed.
printHandler(key) ==
    /\ ConsoleAt(ConsoleTask, "idle") /\ cmd.lineEnd < MaxLine - 1
    /\ cmd' = [cmd EXCEPT !.lineEnd = @ + 1]
    /\ printString(<<key>>)
    /\ UNCHANGED <<console, missed, null>>

backspaceHandler ==
    /\ ConsoleAt(ConsoleTask, "idle") /\ cmd.lineEnd > 0
    /\ cmd' = [cmd EXCEPT !.lineEnd = @ - Erased]
    /\ printkBackspace
    /\ UNCHANGED <<console, missed, null>>

\* The line feed is echoed, then the number of listeners decides where the line goes.
enterHandler ==
    /\ ConsoleAt(ConsoleTask, "idle")
    /\ cmd' = [cmd EXCEPT !.lineEnd = @ + 1]
    /\ printString(<<NewLine>>)
    /\ ConsoleGoto(ConsoleTask, "enter")
    /\ UNCHANGED <<missed, null>>

countListeners ==
    /\ ConsoleAt(ConsoleTask, "enter")
    /\ ConsoleGoto(ConsoleTask, IF cmd.listenerCount = 0 THEN "parse" ELSE "send")
    /\ UNCHANGED <<cmd, missed, null, displayVars>>

\* A command prints something.  runCommand resumes the task it has created, and also
\* the one that it could not create.
parseCommand(s, created) ==
    /\ ConsoleAt(ConsoleTask, "parse")
    /\ printString(s)
    /\ null' = ~created
    /\ cmd' = [cmd EXCEPT !.lineEnd = 0]
    /\ ConsoleGoto(ConsoleTask, "idle")
    /\ UNCHANGED missed

\* Character by character, until lineFIFO is full.
sendLine ==
    /\ ConsoleAt(ConsoleTask, "send")
    /\ IF console[ConsoleTask].count < cmd.lineEnd /\ cmd.lineFIFO < LineFIFOLength
       THEN /\ cmd' = [cmd EXCEPT !.lineFIFO = @ + 1]
            /\ console' = [console EXCEPT ![ConsoleTask].count = @ + 1]
       ELSE /\ console' = [console EXCEPT ![ConsoleTask].pc = "process", ![ConsoleTask].count = 0]
            /\ UNCHANGED cmd
    /\ missed' = FALSE
    /\ UNCHANGED <<null, displayVars>>

-----------------------------------------------------------------------------
(* processConsoleInput *)

Serves(a) == console[a].serves

\* The end of the loop: the console task has finished its line.
Finished(a) == [console EXCEPT ![a].pc = "idle", ![a].serves = NoReader, ![a].count = 0]

LineEnd(a) == IF a = ConsoleTask THEN 0 ELSE cmd.lineEnd

takeRequest(a) ==
    /\ ConsoleAt(a, "process")
    /\ IF cmd.requests = <<>>
       THEN console' = Finished(a) /\ cmd' = [cmd EXCEPT !.lineEnd = LineEnd(a)]
       ELSE /\ cmd' = [cmd EXCEPT !.requests = Tail(@)]
            /\ console' = [console EXCEPT ![a].pc = "read", ![a].serves = Head(cmd.requests)]
    /\ UNCHANGED <<missed, null, displayVars>>

\* The request is completed and the loop goes on.
completeConsoleRequest(a) == [console EXCEPT ![Serves(a)].reads = FALSE, ![a].pc = "process",
                                             ![a].serves = NoReader, ![a].count = 0]

readLineFIFO(a) ==
    /\ ConsoleAt(a, "read")
    /\ IF console[a].count < console[Serves(a)].size /\ cmd.lineFIFO > 0
       THEN /\ cmd' = [cmd EXCEPT !.lineFIFO = @ - 1]
            /\ console' = [console EXCEPT ![a].count = @ + 1]
       ELSE /\ console' = IF console[a].count > 0 \/ console[Serves(a)].size = 0
                          THEN completeConsoleRequest(a)
                          ELSE [console EXCEPT ![a].pc = "return"]
            /\ UNCHANGED cmd
    /\ UNCHANGED <<missed, null, displayVars>>

returnRequest(a) ==
    /\ ConsoleAt(a, "return")
    /\ cmd' = [cmd EXCEPT !.requests = <<Serves(a)>> \o @, !.lineEnd = LineEnd(a)]
    /\ missed' = (missed \/ cmd.lineFIFO > 0)
    /\ console' = Finished(a)
    /\ UNCHANGED <<null, displayVars>>

-----------------------------------------------------------------------------
(* Users *)

openConsole(u) ==
    /\ ConsoleAt(u, "idle") /\ ~console[u].open
    /\ cmd' = [cmd EXCEPT !.listenerCount = @ + 1]
    /\ console' = [console EXCEPT ![u].open = TRUE]
    /\ UNCHANGED <<missed, null, displayVars>>

\* A broken version for the mutation test: the reader leaves its request to the console task.
ReadWithoutServing(u, size) ==
    /\ ConsoleAt(u, "idle") /\ console[u].open /\ ~console[u].reads
    /\ cmd' = [cmd EXCEPT !.requests = <<u>> \o @]
    /\ console' = [console EXCEPT ![u].reads = TRUE, ![u].size = size]
    /\ missed' = FALSE
    /\ UNCHANGED <<null, displayVars>>

\* The request goes to the head of the list; then the reader serves requests.
readConsole(u, size) ==
    /\ ConsoleAt(u, "idle") /\ console[u].open /\ ~console[u].reads
    /\ cmd' = [cmd EXCEPT !.requests = <<u>> \o @]
    /\ console' = [console EXCEPT ![u].pc = "process", ![u].reads = TRUE, ![u].size = size]
    /\ missed' = FALSE
    /\ UNCHANGED <<null, displayVars>>

writeConsole(u, s) ==
    /\ ConsoleAt(u, "idle") /\ console[u].open
    /\ printString(s)
    /\ UNCHANGED consoleVars

\* The file layer closes a file that has no request.
closeConsole(u) ==
    /\ ConsoleAt(u, "idle") /\ console[u].open /\ ~console[u].reads
    /\ cmd' = [cmd EXCEPT !.listenerCount = @ - 1]
    /\ console' = [console EXCEPT ![u].open = FALSE,
                                  ![u].pc = IF cmd.listenerCount = 1 THEN "flush" ELSE "idle"]
    /\ UNCHANGED <<missed, null, displayVars>>

\* The last listener empties lineFIFO after the lock is released.
flushLineFIFO(u) ==
    /\ ConsoleAt(u, "flush")
    /\ IF cmd.lineFIFO > 0 THEN cmd' = [cmd EXCEPT !.lineFIFO = @ - 1] /\ UNCHANGED console
       ELSE ConsoleGoto(u, "idle") /\ UNCHANGED cmd
    /\ UNCHANGED <<missed, null, displayVars>>

\* Characters that are typed are printed.
Typed == UNION {{s[i] : i \in DOMAIN s} : s \in Texts}

ConsoleNext ==
    /\ ~null
    /\ \/ \E key \in Typed : printHandler(key)
       \/ backspaceHandler \/ enterHandler \/ countListeners \/ sendLine
       \/ \E s \in Texts, created \in BOOLEAN : parseCommand(s, created)
       \/ \E a \in Actor : takeRequest(a) \/ readLineFIFO(a) \/ returnRequest(a)
       \/ \E u \in ConsoleUser : openConsole(u) \/ closeConsole(u) \/ flushLineFIFO(u)
       \/ \E u \in ConsoleUser, size \in BufferSizes : readConsole(u, size)
       \/ \E u \in ConsoleUser, s \in Texts : writeConsole(u, s)

ConsoleSpec == initConsoleCommandLine /\ [][ConsoleNext]_<<consoleVars, displayVars>>

-----------------------------------------------------------------------------
ConsoleTypeOK ==
    /\ cmd.lineEnd \in 0..MaxLine /\ cmd.lineFIFO \in 0..LineFIFOLength
    /\ cmd.listenerCount \in 0..Cardinality(ConsoleUser)
    /\ cmd.requests \in Seq(ConsoleUser)
    /\ \A a \in Actor : console[a].serves \in ConsoleUser \cup {NoReader}

\* A read request waits beside characters of lineFIFO only while somebody is about to
\* serve requests: whatever the order in which users open, read and close and lines are
\* entered, the request of processConsoleInput's caller and all others are served as far
\* as the input goes.  The exception is a request that a server had taken while the line
\* came and puts back afterwards; it stays until the next line or read.
NoReadWaitsBesideInput ==
    /\ ConsoleTypeOK
    /\ (cmd.requests # <<>> /\ cmd.lineFIFO > 0 /\ ~missed)
           => \E a \in Actor : console[a].pc \in {"send", "process", "read", "return", "flush"}
=============================================================================
