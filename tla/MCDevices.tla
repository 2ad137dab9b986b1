------------------------------ MODULE MCDevices ------------------------------
(***************************************************************************)
(* The network stack and the device drivers for TLC.  The parts have no    *)
(* variable in common, and an initial choice says which of them runs: two  *)
(* sockets that read one packet after another, one socket with two         *)
(* requests and two packets, the DHCP client on a socket, a TCP            *)
(* connection, the TCP listener, the receive or the transmit half of the   *)
(* network card, or the disk controller.                                       *)
(***************************************************************************)
EXTENDS DHCP, TCP, TCPListener, I8254x, AHCI

CONSTANTS Socket1, Request1, Packet1   \* those of a part that has only one

VARIABLE running

MCTraffic == {<<3, 0, FALSE>>, <<1, 1, FALSE>>, <<0, 2, FALSE>>, <<2, 0, TRUE>>, <<1, 1, TRUE>>}

socketVars == <<ipVars, dhcp>>

vars == <<running, socketVars, tcpVars, listenVars, nicVars, ahciVars>>
others == <<running, tcpVars, listenVars, nicVars, ahciVars>>   \* than socketVars

MCInit ==
    /\ running \in {"sockets", "socket", "client", "connection", "listener", "receiver",
                    "transmitter", "disk"}
    /\ IPInit /\ dhcp = NoClient
    /\ IF running = "connection" THEN TCPInit
       ELSE /\ traffic = <<0, 0, FALSE>> /\ tcp = createTCPSocket /\ delivered = <<>>
            /\ sent = 0 /\ offered = 0
    /\ createTCPListener /\ I8254xInit /\ AHCIInit

\* The socket layer with its users, or with the DHCP client as its only user.
Sockets == running \in {"sockets", "socket"} /\ ipFault = "none"
SocketUsed(s) == running = "sockets" \/ s = Socket1
RequestUsed(k, r) == running = "socket" \/ (r = Request1 /\ k = "receive")
PacketUsed(p) == running # "sockets" \/ p = Packet1
Client == running = "client" /\ ipFault = "none"
SocketSystem == (Sockets \/ Client) /\ UNCHANGED <<dhcp, others>>

Connection == running = "connection" /\ UNCHANGED <<running, socketVars, listenVars, nicVars, ahciVars>>
Listener == running = "listener" /\ UNCHANGED <<running, socketVars, tcpVars, nicVars, ahciVars>>
NetworkCard == UNCHANGED <<running, socketVars, tcpVars, listenVars, ahciVars>>
Receiver == running = "receiver" /\ ~rx.rewound /\ NetworkCard
Transmitter == running = "transmitter" /\ ~tx.overrun /\ NetworkCard
Disk == running = "disk" /\ ~ahciPanic /\ UNCHANGED <<running, socketVars, tcpVars, listenVars, nicVars>>

\* States after which a part says nothing any more.
Stopped ==
    \/ ipFault # "none" \/ rx.rewound \/ tx.overrun \/ ahciPanic \/ tcp.fault \/ tcp.pc = "closed"
    \/ \E r \in IPRequest : rq[r].at = "queue" /\ ~rwq[rq[r].sock][rq[r].kind].exists
    \/ dhcp.pc = "open" /\ sock[dhcp.sock].state \in {"closed", "left"}

MCNext ==
    \/ \E s \in Socket : Sockets /\ SocketUsed(s) /\ openIPSocket(s) /\ UNCHANGED <<dhcp, others>>
    \/ \E s \in Socket : Sockets /\ closeIPSocket(s) /\ UNCHANGED <<dhcp, others>>
    \/ \E s \in Socket, k \in Kind, r \in IPRequest :
           Sockets /\ RequestUsed(k, r) /\ createAddRWIPArgument(s, k, r) /\ UNCHANGED <<dhcp, others>>
    \/ \E r \in IPRequest : SocketSystem /\ releaseArgCount(r)
    \/ \E r \in IPRequest : Sockets /\ cancelRequest(r) /\ UNCHANGED <<dhcp, others>>
    \/ \E s \in Socket, k \in Kind : SocketSystem /\ createRWIPQueue(s, k)
    \/ \E s \in Socket : SocketSystem /\ startIPSocketTasks(s)
    \/ \E s \in Socket : SocketSystem /\ startIPSocketFails(s)
    \/ \E r \in IPRequest : SocketSystem /\ cancelRWIPRequest(r)
    \/ \E r \in IPRequest : SocketSystem /\ removeCancelled(r)
    \/ \E s \in Socket, k \in Kind : SocketSystem /\ readQueueOfSocket(s, k)
    \/ \E s \in Socket, k \in Kind : SocketSystem /\ nextRWIPRequest(s, k)
    \/ \E s \in Socket, k \in Kind : SocketSystem /\ takeRWIPRequest(s, k)
    \/ \E s \in Socket : SocketSystem /\ transmitSinglePacket(s)
    \/ \E s \in Socket : SocketSystem /\ transmitFails(s)
    \/ \E s \in Socket : SocketSystem /\ endTransmitIPTask(s)
    \/ \E p \in Packet : SocketSystem /\ PacketUsed(p) /\ ipDeviceReader(p)
    \/ SocketSystem /\ walkFIFOList
    \/ \E s \in Socket : SocketSystem /\ overwriteIPFIFO(s)
    \/ SocketSystem /\ endOfFIFOList
    \/ SocketSystem /\ addDataLinkDevice
    \/ \E s \in Socket : SocketSystem /\ addToIPFIFOList(s)
    \/ \E s \in Socket : SocketSystem /\ noIPFIFO(s)
    \/ \E s \in Socket, accepted \in BOOLEAN : SocketSystem /\ readIPFIFO(s, accepted)
    \/ \E s \in Socket : SocketSystem /\ receiveSinglePacket(s)
    \/ \E s \in Socket : SocketSystem /\ removeFromIPFIFOList(s)
    \/ \E s \in Socket : SocketSystem /\ deleteIPFIFO(s)
    \/ Client /\ createDHCPClient(Socket1) /\ UNCHANGED others
    \/ Client /\ startDHCPClient /\ UNCHANGED others
    \/ Client /\ sendDHCPRequest(Request1) /\ UNCHANGED others
    \/ Client /\ sentDHCPRequest /\ UNCHANGED others
    \/ \E ok \in BOOLEAN : Client /\ setReplyAlarm(ok) /\ UNCHANGED others
    \/ Client /\ readDHCPReply(Request1) /\ UNCHANGED others
    \/ Client /\ noDHCPRequest /\ UNCHANGED others
    \/ Client /\ replyTimeout /\ UNCHANGED others
    \/ \E content \in BOOLEAN : Client /\ receiveDHCPReply(content) /\ UNCHANGED others
    \/ Client /\ cancelDHCPRead /\ UNCHANGED others
    \/ Client /\ waitDHCPRead /\ UNCHANGED others
    \/ Client /\ stopReplyAlarm /\ UNCHANGED others
    \/ Client /\ dhcpClientTask /\ UNCHANGED others
    \/ Connection /\ retryHandShake
    \/ \E mss \in MaxSegment, w \in PeerWindow : Connection /\ tcpHandShake(mss, w)
    \/ \E mss \in MaxSegment, p \in PeerPackets : Connection /\ tcpServerHandShake(mss, p)
    \/ \E p \in PeerPackets : Connection /\ receiveTCPDataPacket(p)
    \/ \E n \in IOSizes : Connection /\ readTCPSocket(n)
    \/ \E n \in IOSizes : Connection /\ writeTCPSocket(n)
    \/ Connection /\ closeTCP
    \/ Connection /\ ackTimeout
    \/ Connection /\ retransmitTimeout
    \/ Connection /\ tcpLoopFails
    \/ Connection /\ flushTCPRWRequest
    \/ \E s \in TCPSYN : Listener /\ addTCPSYN(s)
    \/ Listener /\ giveTCPSYN
    \/ \E t \in Server, a \in TCPWaitSYN : Listener /\ waitTCPSYN(t, a)
    \/ \E t \in Server : Listener /\ wakeTCPServer(t)
    \/ \E t \in Server : Listener /\ createServerSocket(t)
    \/ Receiver /\ cardReceives
    \/ Receiver /\ receiveInterrupt
    \/ Receiver /\ receiveHandler
    \/ Receiver /\ receiveDone
    \/ Receiver /\ deliverReceived
    \/ Receiver /\ refillDescriptors
    \/ Receiver /\ advanceTail
    \/ \E r \in NICReader : Receiver /\ openI8254x(r)
    \/ \E r \in NICReader : Receiver /\ readI8254x(r)
    \/ \E r \in NICReader : Receiver /\ closeI8254x(r)
    \/ Transmitter /\ writeI8254x
    \/ \E n \in 1..FrameBuffers : Transmitter /\ transmitFrame(n)
    \/ Transmitter /\ cardTransmits
    \/ Transmitter /\ transmitInterrupt
    \/ Transmitter /\ transmitHandler
    \/ Transmitter /\ acquireTransmitted
    \/ \E r \in DiskRequest, p \in Port : Disk /\ initDiskDescription(r, p)
    \/ \E r \in DiskRequest, p \in Port : Disk /\ seekReadAHCI(r, p)
    \/ \E p \in Port : Disk /\ sendDiskRequestFails(p)
    \/ \E p \in Port : Disk /\ extraInterrupt(p)
    \/ \E p \in Port : Disk /\ AHCIHandler(p)
    \/ Disk /\ clearInterrupt
    \/ Disk /\ servePort
    \/ Disk /\ addToDiskRequestList
    \/ Disk /\ permitCompletion
    \/ Disk /\ removeFromDiskRequestList
    \/ Disk /\ completeDiskRequest
    \/ \E r \in DiskRequest, ok \in BOOLEAN : Disk /\ acceptIdentifyDiskRequest(r, ok)
    \/ Stopped /\ UNCHANGED vars

MCSpec == MCInit /\ [][MCNext]_vars
=============================================================================
