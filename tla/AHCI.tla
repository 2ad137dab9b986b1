--------------------------------- MODULE AHCI ---------------------------------
(***************************************************************************)
(* The SATA driver (kernel/io/ahci.c): the pending list and the command    *)
(* being served of each port, under the lock of the controller; the        *)
(* interrupt handler; and the task that completes finished requests.       *)
(*                                                                         *)
(* A command is polled for under the lock until the controller clears its  *)
(* bit of CI, so that it has been carried out when the lock is released;   *)
(* its interrupt comes on top of that.  The controller may raise more than *)
(* one interrupt for a command.  A command that is refused or does not     *)
(* finish in time makes the kernel panic.                                  *)
(*                                                                         *)
(* AHCIHandler looks at the ports whose bit is set in the interrupt status *)
(* of the host, and clears these bits at its end, when a port may have     *)
(* raised its next interrupt.  The controller is taken to keep the bit of  *)
(* a port set, and its interrupt line asserted, as long as the status of   *)
(* the port is not clear, so that what the handler clears too early comes  *)
(* back; the bits of the host are not modelled apart from the ports.       *)
(***************************************************************************)
EXTENDS Integers, Sequences, FiniteSets

CONSTANTS Port,           \* ports with a disk
          DiskRequest     \* requests that can exist at a time

NoDisk == "none"

ASSUME AHCIAssumption ==
    /\ IsFiniteSet(DiskRequest)
    /\ NoDisk \notin DiskRequest /\ NoDisk \notin Port

VARIABLES port,        \* per port: identified, pending list, command being served,
                       \* interruptStatus
          disk,        \* per request: command, port, where it is, whether it was carried out
          handler,     \* AHCIHandler: the port and the request it deals with
          finished,    \* finishInterrupt: list and permits
          completing,  \* request in completeDiskRequestTask
          ahciPanic

ahciVars == <<port, disk, handler, finished, completing, ahciPanic>>

NoDiskRequest == [command |-> NoDisk, port |-> NoDisk, at |-> "none", carriedOut |-> FALSE]
NoInterrupt == [pc |-> "idle", port |-> NoDisk, request |-> NoDisk]

\* initAHCIRegisters, initDiskRequestList; interruptEnable is all ones.
AHCIInit ==
    /\ port = [p \in Port |-> [identified |-> FALSE, pending |-> <<>>, serving |-> NoDisk,
                               interrupt |-> FALSE]]
    /\ disk = [r \in DiskRequest |-> NoDiskRequest]
    /\ handler = NoInterrupt
    /\ finished = [list |-> <<>>, permits |-> 0]
    /\ completing = NoDisk
    /\ ahciPanic = FALSE

\* What sendDiskRequest changes in a request and in its port, with issueDMACommand or with
\* issueIdentifyCommand.
Sent(r) == [r EXCEPT !.at = "serving", !.carriedOut = TRUE]
Interrupting(q) == [q EXCEPT !.interrupt = TRUE]

\* A broken version for the mutation test: the command is issued and not waited for.
SentWithoutPoll(q, d) ==
    IF q.serving # NoDisk \/ q.pending = <<>> THEN [port |-> q, disk |-> d]
    ELSE LET r == Head(q.pending)
         IN  [port |-> [q EXCEPT !.pending = Tail(@), !.serving = r],
              disk |-> [d EXCEPT ![r].at = "serving"]]

\* servePortQueue: if the port is idle, the first pending request.  sendDiskRequest returns
\* when the controller has carried the command out.
servePortQueue(q, d) ==
    IF q.serving # NoDisk \/ q.pending = <<>> THEN [port |-> q, disk |-> d]
    ELSE LET r == Head(q.pending)
         IN  [port |-> Interrupting([q EXCEPT !.pending = Tail(@), !.serving = r]),
              disk |-> [d EXCEPT ![r] = Sent(@)]]

\* createRWDiskRequest and createIdentifyDiskRequest, without the buffers, which they
\* reserve and, if they are not aligned to sectors, double.  They may fail.
createDiskRequest(p, command) ==
    [command |-> command, port |-> p, at |-> "pending", carriedOut |-> FALSE]

\* addToPortQueue puts the request in front of the others.
Enqueue(r, p, command) ==
    LET x == servePortQueue([port[p] EXCEPT !.pending = <<r>> \o @],
                            [disk EXCEPT ![r] = createDiskRequest(p, command)])
    IN  /\ port' = [port EXCEPT ![p] = x.port]
        /\ disk' = x.disk
        /\ UNCHANGED <<handler, finished, completing, ahciPanic>>

\* initDiskDescription for a port of a new controller, up to the wait.
initDiskDescription(r, p) ==
    /\ disk[r] = NoDiskRequest
    /\ ~port[p].identified /\ \A x \in DiskRequest : disk[x].port # p
    /\ Enqueue(r, p, "identify")

\* seekReadAHCI; a disk that is not identified has no sectors to read.
seekReadAHCI(r, p) ==
    /\ disk[r] = NoDiskRequest
    /\ port[p].identified
    /\ Enqueue(r, p, "read")

\* sendDiskRequest returns 0, to a task (assert) or to the handler (panic): the command does
\* not finish in time, or issueDMACommand refuses it, because its buffer is not aligned or
\* because it has no sector, as for a read of 0 bytes, or too many.
sendDiskRequestFails(p) ==
    /\ \/ port[p].serving = NoDisk /\ \E r \in DiskRequest : disk[r] = NoDiskRequest
       \/ handler.pc = "serve" /\ handler.port = p /\ port[p].pending # <<>>
    /\ ahciPanic' = TRUE
    /\ UNCHANGED <<port, disk, handler, finished, completing>>

\* external: an interrupt that is not the end of a command.
extraInterrupt(p) ==
    /\ port' = [port EXCEPT ![p] = Interrupting(@)]
    /\ UNCHANGED <<disk, handler, finished, completing, ahciPanic>>

\* AHCIHandler reads the status of a port.
AHCIHandler(p) ==
    /\ handler.pc = "idle" /\ port[p].interrupt
    /\ handler' = [NoInterrupt EXCEPT !.pc = "clear", !.port = p]
    /\ UNCHANGED <<port, disk, finished, completing, ahciPanic>>

clearInterrupt ==
    /\ handler.pc = "clear"
    /\ port' = [port EXCEPT ![handler.port].interrupt = FALSE]
    /\ handler' = [handler EXCEPT !.pc = "serve"]
    /\ UNCHANGED <<disk, finished, completing, ahciPanic>>

\* Under the lock: removeFromPortQueue and the next request.  There may be none to remove.
servePort ==
    /\ handler.pc = "serve"
    /\ LET p == handler.port
           r == port[p].serving
           x == servePortQueue([port[p] EXCEPT !.serving = NoDisk], disk)
       IN  /\ port' = [port EXCEPT ![p] = x.port]
           /\ IF r = NoDisk THEN disk' = x.disk /\ handler' = NoInterrupt
              ELSE /\ disk' = [x.disk EXCEPT ![r].at = "handler"]
                   /\ handler' = [handler EXCEPT !.pc = "finish", !.request = r]
    /\ UNCHANGED <<finished, completing, ahciPanic>>

\* addToDiskRequestList, in front; then the permit.
addToDiskRequestList ==
    /\ handler.pc = "finish"
    /\ finished' = [finished EXCEPT !.list = <<handler.request>> \o @]
    /\ disk' = [disk EXCEPT ![handler.request].at = "finished"]
    /\ handler' = [handler EXCEPT !.pc = "permit"]
    /\ UNCHANGED <<port, completing, ahciPanic>>

permitCompletion ==
    /\ handler.pc = "permit"
    /\ finished' = [finished EXCEPT !.permits = @ + 1]
    /\ handler' = NoInterrupt
    /\ UNCHANGED <<port, disk, completing, ahciPanic>>

\* completeDiskRequestTask, removeFromDiskRequestList; the task asserts that it got one.
removeFromDiskRequestList ==
    /\ completing = NoDisk /\ finished.permits > 0
    /\ IF finished.list = <<>>
       THEN ahciPanic' = TRUE /\ UNCHANGED <<finished, disk, completing>>
       ELSE /\ completing' = Head(finished.list)
            /\ finished' = [list |-> Tail(finished.list), permits |-> finished.permits - 1]
            /\ disk' = [disk EXCEPT ![Head(finished.list)].at = "completing"]
            /\ UNCHANGED ahciPanic
    /\ UNCHANGED <<port, handler>>

\* completeDiskRequest copies the data; a read is deleted here.
completeDiskRequest ==
    /\ completing # NoDisk
    /\ disk' = [disk EXCEPT ![completing] =
                  IF @.command = "read" THEN NoDiskRequest ELSE [@ EXCEPT !.at = "completed"]]
    /\ completing' = NoDisk
    /\ UNCHANGED <<port, handler, finished, ahciPanic>>

\* acceptIdentifyDiskRequest and the rest of initDiskDescription, which may find that the
\* disk is not supported.
acceptIdentifyDiskRequest(r, supported) ==
    /\ disk[r].at = "completed"
    /\ port' = [port EXCEPT ![disk[r].port].identified = supported]
    /\ disk' = [disk EXCEPT ![r] = NoDiskRequest]
    /\ UNCHANGED <<handler, finished, completing, ahciPanic>>

AHCINext ==
    /\ ~ahciPanic
    /\ \/ \E r \in DiskRequest, p \in Port : initDiskDescription(r, p) \/ seekReadAHCI(r, p)
       \/ \E p \in Port : sendDiskRequestFails(p) \/ extraInterrupt(p) \/ AHCIHandler(p)
       \/ clearInterrupt \/ servePort \/ addToDiskRequestList \/ permitCompletion
       \/ removeFromDiskRequestList \/ completeDiskRequest
       \/ \E r \in DiskRequest, ok \in BOOLEAN : acceptIdentifyDiskRequest(r, ok)

AHCISpec == AHCIInit /\ [][AHCINext]_ahciVars

-----------------------------------------------------------------------------
AHCITypeOK ==
    /\ \A p \in Port :
          /\ port[p].identified \in BOOLEAN /\ port[p].interrupt \in BOOLEAN
          /\ port[p].pending \in Seq(DiskRequest)
          /\ port[p].serving \in DiskRequest \cup {NoDisk}
    /\ disk \in [DiskRequest ->
          [command : {NoDisk, "read", "identify"}, port : Port \cup {NoDisk},
           at : {"none", "pending", "serving", "handler", "finished", "completing", "completed"},
           carriedOut : BOOLEAN]]
    /\ handler.pc \in {"idle", "clear", "serve", "finish", "permit"}
    /\ finished.permits \in 0..Cardinality(DiskRequest)
    /\ completing \in DiskRequest \cup {NoDisk}

\* A disk request gets its answer after the transfer and never hangs, whatever the number
\* and the times of the interrupts: a request that left the port has been carried out; a
\* port with waiting requests is serving one; a request that is being served has an
\* interrupt to come or a handler that will look at the port; and there is a request in
\* the finish list for every permit.
DiskRequestsFinish ==
    /\ AHCITypeOK
    /\ ahciPanic \/
       /\ \A r \in DiskRequest :
             disk[r].at \in {"handler", "finished", "completing", "completed"} => disk[r].carriedOut
       /\ \A p \in Port :
             /\ port[p].pending # <<>> => port[p].serving # NoDisk
             /\ port[p].serving # NoDisk =>
                   \/ port[p].interrupt
                   \/ handler.port = p /\ handler.pc = "serve"
             /\ \A r \in DiskRequest :
                   /\ disk[r].at = "pending" /\ disk[r].port = p
                         <=> \E i \in DOMAIN port[p].pending : port[p].pending[i] = r
                   /\ disk[r].at = "serving" /\ disk[r].port = p <=> port[p].serving = r
       /\ Len(finished.list) = finished.permits + IF handler.pc = "permit" THEN 1 ELSE 0
=============================================================================
