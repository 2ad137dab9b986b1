------------------------------ MODULE IPSocket ------------------------------
(***************************************************************************)
(* The IP layer (kernel/io/network/internet.c, udp.c).  A socket has a     *)
(* receive and a transmit queue of requests (RWIPQueue), each served by a  *)
(* task of its own.  One task per device (ipDeviceReader) puts every       *)
(* packet into the FIFO of every socket; a packet is shared by reference   *)
(* count, and so is a socket by its user and its two tasks.                *)
(*                                                                         *)
(* "ip", "udp", "tcpraw" and the TCP listener use the same functions and   *)
(* differ in the headers only: which packets a socket accepts is a free    *)
(* choice here.  An access to freed memory, a NULL dereference or a failed *)
(* assertion sets ipFault, and nothing is said about what follows it.      *)
(***************************************************************************)
EXTENDS Integers, FiniteSets, SequencesExt

CONSTANTS Socket, IPRequest, Packet,
          FIFOLength       \* createIPFIFO(64)

ASSUME IPAssumption == FIFOLength \in Nat \ {0}

VARIABLES sock,      \* the IPSocket and how far its open call is
          rwq,       \* its two RWIPQueues
          iptask,    \* the task of each queue
          rq,        \* the RWFileRequests of the users
          adding,    \* the queue that the call which made a request has yet to signal
          fifo,      \* the IPFIFO of each receive task
          listed,    \* readFIFOList: the sockets whose FIFO is in it
          packet,    \* reference counts of the QueuedPackets
          dev,       \* ipDeviceReader
          inList,    \* the device is in dataLinkDevList
          ipFault

ipVars == <<sock, rwq, iptask, rq, adding, fifo, listed, packet, dev, inList, ipFault>>

Kind == {"receive", "transmit"}

NoIPRequest == "none"

NoPacket == "none"

NoQueueOf == <<>>

NoSocket == [state |-> "closed", ref |-> 0, receive |-> FALSE, transmit |-> FALSE]

NoQueue == [count |-> 0, args |-> <<>>, terminate |-> FALSE, exists |-> FALSE]

NoIPTask == [pc |-> "none", packet |-> NoPacket, req |-> NoIPRequest]

NoRequest == [at |-> "none", sock |-> NoIPRequest, kind |-> "receive", cancel |-> "no"]

IdleReader == [pc |-> "read", packet |-> NoPacket, todo |-> {}]

IPInit ==
    /\ sock = [s \in Socket |-> NoSocket]
    /\ rwq = [s \in Socket |-> [k \in Kind |-> NoQueue]]
    /\ iptask = [s \in Socket |-> [k \in Kind |-> NoIPTask]]
    /\ rq = [r \in IPRequest |-> NoRequest]
    /\ adding = [r \in IPRequest |-> NoQueueOf]
    /\ fifo = [s \in Socket |-> <<>>]
    /\ listed = {}
    /\ packet = [p \in Packet |-> 0]
    /\ dev = IdleReader
    /\ inList = FALSE
    /\ ipFault = "none"

Fault(f) ==
    /\ ipFault' = f
    /\ UNCHANGED <<sock, rwq, iptask, rq, adding, fifo, listed, packet, dev, inList>>

-----------------------------------------------------------------------------
(* References *)

\* addIPSocketReference(ips, -1): the last reference deletes the socket.
Unreferenced(x) == IF x.ref = 1 THEN NoSocket ELSE [x EXCEPT !.ref = @ - 1]

\* addQueuedPacketRef(p, n); 0 is a freed packet.
addQueuedPacketRef(ref, p, n) == [ref EXCEPT ![p] = @ + n]

\* setIPTaskTerminateFlag
Terminated(x) == [x EXCEPT !.terminate = TRUE, !.count = @ + 1]

\* deleteRWIPQueue at the end of the task of a queue.
deleteRWIPQueue(s, k) ==
    /\ rwq' = [rwq EXCEPT ![s][k] = NoQueue]
    /\ sock' = [sock EXCEPT ![s] = Unreferenced(@)]
    /\ iptask' = [iptask EXCEPT ![s][k] = NoIPTask]

-----------------------------------------------------------------------------
(* openIPSocket, closeIPSocket *)

\* A call that fails before startIPSocketTasks leaves nothing behind.
openIPSocket(s) ==
    /\ sock[s] = NoSocket
    /\ sock' = [sock EXCEPT ![s] = [NoSocket EXCEPT !.state = "receive", !.ref = 1]]
    /\ UNCHANGED <<rwq, iptask, rq, adding, fifo, listed, packet, dev, inList, ipFault>>

\* createRWIPQueue resumes the task of the queue before it returns the queue ...
createRWIPQueue(s, k) ==
    /\ sock[s].state = k
    /\ sock' = [sock EXCEPT ![s].state = IF k = "receive" THEN "setReceive" ELSE "setTransmit",
                            ![s].ref = @ + 1]
    /\ rwq' = [rwq EXCEPT ![s][k].exists = TRUE]
    /\ iptask' = [iptask EXCEPT ![s][k].pc = IF k = "receive" THEN "start" ELSE "next"]
    /\ UNCHANGED <<rq, adding, fifo, listed, packet, dev, inList, ipFault>>

\* ... and startIPSocketTasks stores it into the socket afterwards.
startIPSocketTasks(s) ==
    /\ sock[s].state \in {"setReceive", "setTransmit"}
    /\ sock' = [sock EXCEPT ![s] =
                 IF @.state = "setReceive" THEN [@ EXCEPT !.receive = TRUE, !.state = "transmit"]
                                           ELSE [@ EXCEPT !.transmit = TRUE, !.state = "open"]]
    /\ UNCHANGED <<rwq, iptask, rq, adding, fifo, listed, packet, dev, inList, ipFault>>

\* createRWIPQueue returned NULL.
startIPSocketFails(s) ==
    /\ sock[s].state \in Kind
    /\ sock' = [sock EXCEPT ![s] = Unreferenced([@ EXCEPT !.receive = FALSE, !.state = "left"])]
    /\ rwq' = [rwq EXCEPT ![s]["receive"] = IF @.exists THEN Terminated(@) ELSE @]
    /\ UNCHANGED <<iptask, rq, adding, fifo, listed, packet, dev, inList, ipFault>>

\* The file layer closes a file that has no request left (module FileIO).
closeIPSocket(s) ==
    /\ sock[s].state = "open"
    /\ \A r \in IPRequest : rq[r].sock # s
    /\ IF \A k \in Kind : rwq[s][k].exists
       THEN /\ rwq' = [rwq EXCEPT ![s] = [k \in Kind |-> Terminated(@[k])]]
            /\ sock' = [sock EXCEPT ![s] = Unreferenced([@ EXCEPT !.state = "left"])]
            /\ UNCHANGED <<iptask, rq, adding, fifo, listed, packet, dev, inList, ipFault>>
       ELSE Fault("closed a freed queue")

-----------------------------------------------------------------------------
(* Requests *)

\* readIPSocket, writeIPSocket: createAddRWIPArgument inserts the request under the lock
\* of the queue ...
createAddRWIPArgument(s, k, r) ==
    /\ sock[s].state = "open"
    /\ rq[r] = NoRequest /\ adding[r] = NoQueueOf
    /\ IF rwq[s][k].exists
       THEN /\ rwq' = [rwq EXCEPT ![s][k].args = <<r>> \o @]
            /\ rq' = [rq EXCEPT ![r] = [at |-> "queue", sock |-> s, kind |-> k, cancel |-> "no"]]
            /\ adding' = [adding EXCEPT ![r] = <<s, k>>]
            /\ UNCHANGED <<sock, iptask, fifo, listed, packet, dev, inList, ipFault>>
       ELSE Fault("added to a freed queue")

\* ... and releases argCount without it.  The task may have served the request meanwhile,
\* with the permit of another one.
releaseArgCount(r) ==
    /\ adding[r] # NoQueueOf
    /\ LET s == adding[r][1]
           k == adding[r][2]
       IN  IF rwq[s][k].exists
           THEN /\ rwq' = [rwq EXCEPT ![s][k].count = @ + 1]
                /\ adding' = [adding EXCEPT ![r] = NoQueueOf]
                /\ UNCHANGED <<sock, iptask, rq, fifo, listed, packet, dev, inList, ipFault>>
           ELSE Fault("released the semaphore of a freed queue")

\* cancelIO, by the task whose call has returned, finds the request cancellable and calls
\* cancelRWIPRequest, ...
cancelRequest(r) ==
    /\ rq[r].at = "queue" /\ rq[r].cancel = "no" /\ adding[r] = NoQueueOf
    /\ rq' = [rq EXCEPT ![r].cancel = "begin"]
    /\ UNCHANGED <<sock, rwq, iptask, adding, fifo, listed, packet, dev, inList, ipFault>>

\* ... which takes the permit of the request, ...
cancelRWIPRequest(r) ==
    /\ rq[r].cancel = "begin"
    /\ LET q == rwq[rq[r].sock][rq[r].kind]
       IN  CASE rq[r].at # "queue" \/ ~q.exists -> Fault("cancelled a freed argument")
             [] rq[r].at = "queue" /\ q.exists /\ q.count = 0 -> Fault("assert(0) of cancelRWIPRequest")
             [] OTHER -> /\ rwq' = [rwq EXCEPT ![rq[r].sock][rq[r].kind].count = @ - 1]
                         /\ rq' = [rq EXCEPT ![r].cancel = "permit"]
                         /\ UNCHANGED <<sock, iptask, adding, fifo, listed, packet, dev, inList, ipFault>>

\* ... and then removes the request under the lock of the queue.
removeCancelled(r) ==
    /\ rq[r].cancel = "permit"
    /\ IF rq[r].at = "queue" /\ rwq[rq[r].sock][rq[r].kind].exists
       THEN /\ rwq' = [rwq EXCEPT ![rq[r].sock][rq[r].kind].args = Remove(@, r)]
            /\ rq' = [rq EXCEPT ![r] = NoRequest]
            /\ UNCHANGED <<sock, iptask, adding, fifo, listed, packet, dev, inList, ipFault>>
       ELSE Fault("removed a freed argument")

\* transmitSinglePacket, receiveSinglePacket: the task reads its queue from the socket, ...
readQueueOfSocket(s, k) ==
    /\ iptask[s][k].pc = "next"
    /\ IF sock[s][k]
       THEN /\ iptask' = [iptask EXCEPT ![s][k].pc = "permit"]
            /\ UNCHANGED <<sock, rwq, rq, adding, fifo, listed, packet, dev, inList, ipFault>>
       ELSE Fault("NULL queue")

\* ... nextRWIPRequest waits for a permit of it, ...
nextRWIPRequest(s, k) ==
    /\ iptask[s][k].pc = "permit"
    /\ rwq[s][k].count > 0
    /\ rwq' = [rwq EXCEPT ![s][k].count = @ - 1]
    /\ iptask' = [iptask EXCEPT ![s][k].pc = "take"]
    /\ UNCHANGED <<sock, rq, adding, fifo, listed, packet, dev, inList, ipFault>>

\* ... and takes the newest request under the lock.  It ignores the result of
\* setRWFileIONotCancellable, so it takes a request that is being cancelled too.
takeRWIPRequest(s, k) ==
    /\ iptask[s][k].pc = "take"
    /\ LET q == rwq[s][k]
       IN  CASE q.terminate /\ q.args = <<>> ->
                  /\ iptask' = [iptask EXCEPT ![s][k].pc = "end"]
                  /\ UNCHANGED <<sock, rwq, rq, adding, fifo, listed, packet, dev, inList, ipFault>>
             [] ~q.terminate /\ q.args # <<>> /\ rq[Head(q.args)].cancel = "no" ->
                  /\ rwq' = [rwq EXCEPT ![s][k].args = Tail(@)]
                  /\ rq' = [rq EXCEPT ![Head(q.args)].at = "task"]
                  /\ iptask' = [iptask EXCEPT ![s][k].pc = "serve", ![s][k].req = Head(q.args)]
                  /\ UNCHANGED <<sock, adding, fifo, listed, packet, dev, inList, ipFault>>
             [] OTHER -> Fault("took a request that is cancelled or not there")

-----------------------------------------------------------------------------
(* transmitIPTask *)

\* transmitSinglePacket found the device, and the device accepted the packet.
transmitSinglePacket(s) ==
    /\ iptask[s]["transmit"].pc = "serve"
    /\ inList
    /\ rq' = [rq EXCEPT ![iptask[s]["transmit"].req] = NoRequest]
    /\ iptask' = [iptask EXCEPT ![s]["transmit"] = [NoIPTask EXCEPT !.pc = "next"]]
    /\ UNCHANGED <<sock, rwq, adding, fifo, listed, packet, dev, inList, ipFault>>

\* No device, no memory, or a failing device: the request is completed with 0, and
\* the return value 0 ends transmitIPTask as if the socket had been closed.
transmitFails(s) ==
    /\ iptask[s]["transmit"].pc = "serve"
    /\ rq' = [rq EXCEPT ![iptask[s]["transmit"].req] = NoRequest]
    /\ iptask' = [iptask EXCEPT ![s]["transmit"] = [NoIPTask EXCEPT !.pc = "fail"]]
    /\ UNCHANGED <<sock, rwq, adding, fifo, listed, packet, dev, inList, ipFault>>

endTransmitIPTask(s) ==
    /\ iptask[s]["transmit"].pc \in {"end", "fail"}
    /\ deleteRWIPQueue(s, "transmit")
    /\ UNCHANGED <<rq, adding, fifo, listed, packet, dev, inList, ipFault>>

-----------------------------------------------------------------------------
(* ipDeviceReader *)

\* A valid packet was read: createQueuedPacket and a reference of the reader's own.
ipDeviceReader(p) ==
    /\ dev.pc = "read"
    /\ packet[p] = 0
    /\ packet' = addQueuedPacketRef(packet, p, 1)
    /\ dev' = [IdleReader EXCEPT !.pc = "list", !.packet = p]
    /\ UNCHANGED <<sock, rwq, iptask, rq, adding, fifo, listed, inList, ipFault>>

\* It holds the semaphore of readFIFOList while it walks through the list.
walkFIFOList ==
    /\ dev.pc = "list"
    /\ dev' = [dev EXCEPT !.pc = "walk", !.todo = listed]
    /\ UNCHANGED <<sock, rwq, iptask, rq, adding, fifo, listed, packet, inList, ipFault>>

\* A broken version for the mutation test: the FIFO shares the reader's reference.
OverwriteUncounted(s) ==
    /\ dev.pc = "walk" /\ s \in dev.todo
    /\ dev' = [dev EXCEPT !.todo = @ \ {s}]
    /\ fifo' = [fifo EXCEPT ![s] = Append(IF Len(@) = FIFOLength THEN Tail(@) ELSE @, dev.packet)]
    /\ packet' = IF Len(fifo[s]) = FIFOLength THEN addQueuedPacketRef(packet, Head(fifo[s]), -1)
                                              ELSE packet
    /\ UNCHANGED <<sock, rwq, iptask, rq, adding, listed, inList, ipFault>>

\* A full FIFO drops its oldest packet, and with it a reference.
overwriteIPFIFO(s) ==
    /\ dev.pc = "walk" /\ s \in dev.todo
    /\ dev' = [dev EXCEPT !.todo = @ \ {s}]
    /\ LET added == addQueuedPacketRef(packet, dev.packet, 1)
       IN  IF Len(fifo[s]) = FIFOLength
           THEN /\ fifo' = [fifo EXCEPT ![s] = Append(Tail(@), dev.packet)]
                /\ packet' = addQueuedPacketRef(added, Head(fifo[s]), -1)
           ELSE /\ fifo' = [fifo EXCEPT ![s] = Append(@, dev.packet)]
                /\ packet' = added
    /\ UNCHANGED <<sock, rwq, iptask, rq, adding, listed, inList, ipFault>>

endOfFIFOList ==
    /\ dev.pc = "walk" /\ dev.todo = {}
    /\ packet' = addQueuedPacketRef(packet, dev.packet, -1)
    /\ dev' = IdleReader
    /\ UNCHANGED <<sock, rwq, iptask, rq, adding, fifo, listed, inList, ipFault>>

\* internetService adds a device to dataLinkDevList after createDataLinkDevice has
\* started the tasks of the device.
addDataLinkDevice ==
    /\ ~inList
    /\ inList' = TRUE
    /\ UNCHANGED <<sock, rwq, iptask, rq, adding, fifo, listed, packet, dev, ipFault>>

-----------------------------------------------------------------------------
(* receiveIPTask *)

ListFree == dev.pc # "walk"

addToIPFIFOList(s) ==
    /\ iptask[s]["receive"].pc = "start"
    /\ ListFree
    /\ listed' = listed \cup {s}
    /\ iptask' = [iptask EXCEPT ![s]["receive"].pc = "fifo"]
    /\ UNCHANGED <<sock, rwq, rq, adding, fifo, packet, dev, inList, ipFault>>

\* createIPFIFO failed: flushRWIPRequests, which knows the queue, serves the requests
\* without packets.
noIPFIFO(s) ==
    /\ iptask[s]["receive"].pc = "start"
    /\ iptask' = [iptask EXCEPT ![s]["receive"].pc = "permit"]
    /\ UNCHANGED <<sock, rwq, rq, adding, fifo, listed, packet, dev, inList, ipFault>>

\* readIPFIFO and filterQueuedPacket: the reference of the FIFO becomes the task's,
\* or is dropped with a packet of somebody else.
readIPFIFO(s, accepted) ==
    /\ iptask[s]["receive"].pc = "fifo"
    /\ fifo[s] # <<>>
    /\ fifo' = [fifo EXCEPT ![s] = Tail(@)]
    /\ IF accepted
       THEN /\ iptask' = [iptask EXCEPT ![s]["receive"].pc = "next",
                                        ![s]["receive"].packet = Head(fifo[s])]
            /\ UNCHANGED packet
       ELSE /\ packet' = addQueuedPacketRef(packet, Head(fifo[s]), -1)
            /\ UNCHANGED iptask
    /\ UNCHANGED <<sock, rwq, rq, adding, listed, dev, inList, ipFault>>

Released(p) == IF p = NoPacket THEN packet ELSE addQueuedPacketRef(packet, p, -1)

\* receiveSinglePacket completes the request; the task drops the packet.
receiveSinglePacket(s) ==
    LET t == iptask[s]["receive"]
    IN  /\ t.pc = "serve"
        /\ rq' = [rq EXCEPT ![t.req] = NoRequest]
        /\ packet' = Released(t.packet)
        /\ iptask' = [iptask EXCEPT ![s]["receive"] =
                       [NoIPTask EXCEPT !.pc = IF t.packet = NoPacket THEN "permit" ELSE "fifo"]]
        /\ UNCHANGED <<sock, rwq, adding, fifo, listed, dev, inList, ipFault>>

\* The terminate flag was found: the task drops its packet and its place in the list,
\* then what is left in its FIFO (deleteIPFIFO), and its queue.
removeFromIPFIFOList(s) ==
    /\ iptask[s]["receive"].pc = "end"
    /\ s \in listed => ListFree
    /\ listed' = listed \ {s}
    /\ packet' = Released(iptask[s]["receive"].packet)
    /\ iptask' = [iptask EXCEPT ![s]["receive"] = [NoIPTask EXCEPT !.pc = "delete"]]
    /\ UNCHANGED <<sock, rwq, rq, adding, fifo, dev, inList, ipFault>>

deleteIPFIFO(s) ==
    /\ iptask[s]["receive"].pc = "delete"
    /\ packet' = FoldLeft(LAMBDA ref, p : addQueuedPacketRef(ref, p, -1), packet, fifo[s])
    /\ fifo' = [fifo EXCEPT ![s] = <<>>]
    /\ deleteRWIPQueue(s, "receive")
    /\ UNCHANGED <<rq, adding, listed, dev, inList, ipFault>>

-----------------------------------------------------------------------------
IPTypeOK ==
    /\ sock \in [Socket -> [state : Kind \cup {"closed", "setReceive", "setTransmit", "open", "left"},
                            ref : 0..3, receive : BOOLEAN, transmit : BOOLEAN]]
    /\ \A s \in Socket, k \in Kind :
          /\ rwq[s][k].count \in 0..Cardinality(IPRequest) + 1
          /\ ToSet(rwq[s][k].args) \subseteq IPRequest
          /\ {rwq[s][k].terminate, rwq[s][k].exists} \subseteq BOOLEAN
          /\ iptask[s][k] \in [pc : {"none", "start", "fifo", "next", "permit", "take", "serve", "end", "fail", "delete"},
                               packet : Packet \cup {NoPacket}, req : IPRequest \cup {NoIPRequest}]
    /\ rq \in [IPRequest -> [at : {"none", "queue", "task"}, sock : Socket \cup {NoIPRequest},
                             kind : Kind, cancel : {"no", "begin", "permit"}]]
    /\ adding \in [IPRequest -> (Socket \X Kind) \cup {NoQueueOf}]
    /\ \A s \in Socket : Len(fifo[s]) <= FIFOLength /\ ToSet(fifo[s]) \subseteq Packet
    /\ listed \subseteq Socket
    /\ packet \in [Packet -> 0..2 * Cardinality(Socket) + 1]
    /\ dev \in [pc : {"read", "list", "walk"}, packet : Packet \cup {NoPacket}, todo : SUBSET Socket]
    /\ inList \in BOOLEAN

One(b) == IF b THEN 1 ELSE 0

\* Everything that points to packet p.
PacketHolders(p) ==
    One(dev.packet = p)
    + Cardinality({s \in Socket : iptask[s]["receive"].packet = p})
    + Cardinality({x \in Socket \X (1..FIFOLength) : x[2] <= Len(fifo[x[1]]) /\ fifo[x[1]][x[2]] = p})

\* Until a fault, the shared objects of the IP layer are counted exactly, whichever of
\* the user, the socket's two tasks and the device reader comes first: a packet has one
\* reference per FIFO, task or reader that holds it, a socket one per queue and one for
\* its user, and the permits of a queue (argCount) are its requests and its terminate
\* flag, less those that the task or a cancellation has taken and not used yet and those
\* that a user has not released yet.
IPReferencesExact ==
    /\ IPTypeOK
    /\ ipFault = "none" =>
           /\ \A p \in Packet : packet[p] = PacketHolders(p)
           /\ \A s \in Socket :
                 /\ sock[s].ref = Cardinality({k \in Kind : rwq[s][k].exists})
                                  + One(sock[s].state \notin {"closed", "left"})
                 /\ \A k \in Kind : rwq[s][k].exists =>
                       rwq[s][k].count + One(iptask[s][k].pc = "take")
                       + Cardinality({r \in IPRequest : adding[r] = <<s, k>>})
                       + Cardinality({r \in IPRequest : rq[r].sock = s /\ rq[r].kind = k
                                                        /\ rq[r].cancel = "permit"})
                       = Len(rwq[s][k].args) + One(rwq[s][k].terminate /\ iptask[s][k].pc \notin {"end", "delete"})
=============================================================================
