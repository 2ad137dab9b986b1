--------------------------------- MODULE TCP ---------------------------------
(***************************************************************************)
(* A TCP connection (kernel/io/network/tcp.c): the handshake, the two      *)
(* windows and tcpLoop.  The task of the socket is sequential: an action   *)
(* is one I/O completion that tcpLoop waits for and the pass through the   *)
(* top of the loop that follows it.                                        *)
(*                                                                         *)
(* The network loses, duplicates and reorders: any packet that the peer    *)
(* can have sent so far may arrive at any time, any number of times or     *)
(* never.  The peer keeps to the window that it was offered and            *)
(* acknowledges only what was sent.  It sends FIN in a packet of its own,  *)
(* as this TCP does, or, a choice of the initial state, also with its last *)
(* bytes.  A byte is modelled by its position in its stream.               *)
(*                                                                         *)
(* A failed assertion sets "fault"; nothing is said about what follows it. *)
(***************************************************************************)
EXTENDS Integers, SequencesExt

CONSTANTS SequenceRange,        \* 2^32
          ISS, IRS,      \* first sequence numbers (9999 and the peer's)
          WindowSize,    \* DEFAULT_TCP_RECEIVE_WINDOW_SIZE
          MaxWindow,     \* MAX_TCP_WINDOW_SIZE
          MaxSegment,    \* what the MSS options of a peer can say; 0 is no option
          PeerWindow,    \* the window sizes that the peer offers
          Traffic,       \* stream lengths, of the peer and of the user, and whether the
                         \* peer sends FIN with data
          IOSizes,       \* sizes of read and write calls
          ReadLimit,     \* bound on the outstanding reads
          RetransmitLimit  \* TCP_MAX_RETRANSMIT_COUNT

ASSUME TCPAssumption ==
    /\ SequenceRange % WindowSize = 0
    /\ \A t \in Traffic : SequenceRange > MaxWindow + t[1] + t[2] + 2

VARIABLES traffic,    \* a member of Traffic
          tcp,        \* the TCPSocket and the local variables of its task
          delivered,  \* the bytes that reads have returned
          sent,       \* how much of the local stream has been on the network
          offered     \* right edge of the receive window as told to the peer

tcpVars == <<traffic, tcp, delivered, sent, offered>>

diffTCPSequence(a, b) == (a - b) % SequenceRange

addTCPSequence(a, n) == (a + n) % SequenceRange

\* Positions in the two streams and back.
Local(n) == addTCPSequence(ISS + 1, n)
Remote(n) == addTCPSequence(IRS + 1, n)
RemotePosition(seq) == diffTCPSequence(seq, Remote(0))

PeerLength == traffic[1]
WriteLimit == traffic[2]
FINWithData == traffic[3]

Least(a, b) == IF a < b THEN a ELSE b

Empty == -1

-----------------------------------------------------------------------------
(* Receive window *)

initTCPReceiveWindow ==
    [begin |-> 0, length |-> 0, finish |-> -1,
     buffer |-> [i \in 0..WindowSize - 1 |-> Empty], readers |-> <<>>]

\* ackNumber and windowRemainSize; the FIN counts once everything before it is there.
getTCPReceiveACK(rw) ==
    LET end == addTCPSequence(rw.begin, rw.length)
    IN  [number |-> IF rw.finish = end THEN addTCPSequence(end, 1) ELSE end,
         isFIN |-> rw.finish = end,
         window |-> WindowSize - rw.length]

\* The bytes data, which begin at seq, go to their places in the ring, and the
\* received part grows up to the first gap.
copyTCPReceiveWindow(rw, seq, data) ==
    LET At(i) == addTCPSequence(seq, i - 1)
        Inside == {i \in 1..Len(data) : diffTCPSequence(At(i), rw.begin) < WindowSize}
        ring == [k \in DOMAIN rw.buffer |->
                    IF \E i \in Inside : At(i) % WindowSize = k
                    THEN data[CHOOSE i \in Inside : At(i) % WindowSize = k]
                    ELSE rw.buffer[k]]
        limit == IF rw.finish = -1 THEN WindowSize ELSE diffTCPSequence(rw.finish, rw.begin)
        Has(n) == ring[addTCPSequence(rw.begin, n) % WindowSize] # Empty
        length == CHOOSE n \in rw.length..WindowSize :
                     /\ \A m \in rw.length..n - 1 : m < limit /\ Has(m)
                     /\ n >= limit \/ ~Has(n)
    IN  [rw EXCEPT !.buffer = ring, !.length = length]

\* The first n received bytes, and the window without them.
FirstBytes(rw, n) == [i \in 1..n |-> rw.buffer[addTCPSequence(rw.begin, i - 1) % WindowSize]]

WithoutFirst(rw, n) ==
    [rw EXCEPT !.begin = addTCPSequence(@, n), !.length = @ - n,
               !.buffer = [k \in DOMAIN @ |->
                  IF \E i \in 0..n - 1 : addTCPSequence(rw.begin, i) % WindowSize = k
                  THEN Empty ELSE @[k]]]

\* While there are data and a reader, the reader gets what there is.
copyTCPReceiveBuffer(rw) ==
    FoldLeft(LAMBDA x, size :
                IF x.rw.length = 0 THEN [x EXCEPT !.rw.readers = Append(@, size)]
                ELSE LET n == Least(size, x.rw.length)
                     IN  [rw |-> WithoutFirst(x.rw, n), out |-> x.out \o FirstBytes(x.rw, n)],
             [rw |-> [rw EXCEPT !.readers = <<>>], out |-> <<>>], rw.readers)

\* After the last byte before the FIN, every read returns 0 bytes.
finishReaders(rw) == IF rw.finish = rw.begin THEN [rw EXCEPT !.readers = <<>>] ELSE rw

-----------------------------------------------------------------------------
(* Transmit window: a list of buffers, the index of the current one (the tail is one   *)
(* past the last), and the sequence number that is transmitted next.                   *)

initTCPTransmitWindow ==
    [begin |-> ISS, window |-> 0, mss |-> 0, buffers |-> <<>>, current |-> 1,
     currentSeq |-> ISS, tail |-> ISS]

AtTail(tw) == tw.current = Len(tw.buffers) + 1

hasTCPTransmitBuffer(tw) == tw.buffers # <<>>

pushTCPTransmitBuffer(tw, data, fin) ==
    [tw EXCEPT !.buffers = Append(@, [seq |-> tw.tail, data |-> data, fin |-> fin]),
               !.tail = addTCPSequence(@, Len(data))]

popTCPTransmitBuffer(tw) ==
    LET next == IF Len(tw.buffers) = 1 THEN tw.tail ELSE tw.buffers[2].seq
    IN  [tw EXCEPT !.buffers = Tail(@),
                   !.current = IF @ = 1 THEN 1 ELSE @ - 1,
                   !.currentSeq = IF tw.current = 1 THEN next ELSE @]

getTCPTransmitRemainSize(tw) ==
    LET inFlight == diffTCPSequence(tw.currentSeq, tw.begin)
    IN  IF inFlight >= tw.window THEN 0     \* the peer shortened its window
        ELSE Least(tw.window - inFlight, diffTCPSequence(tw.tail, tw.currentSeq))

addTCPTransmitSequence(tw, n) ==
    LET seq == addTCPSequence(tw.currentSeq, n)
        b == tw.buffers[tw.current]
    IN  [tw EXCEPT !.currentSeq = seq,
                   !.current = IF diffTCPSequence(seq, b.seq) = Len(b.data) THEN @ + 1 ELSE @]

\* A broken version for the mutation test: the sequence number stays behind.
RollBackBufferOnly(tw) == [tw EXCEPT !.current = 1]

rollbackTCPTransmitSequence(tw) == [tw EXCEPT !.current = 1, !.currentSeq = tw.begin]

\* copyTCPTransmitBuffer: at most n bytes, from as many buffers as it takes, up to a FIN.
RECURSIVE copyTCPTransmitBuffer(_, _)
copyTCPTransmitBuffer(tw, n) ==
    IF n = 0 \/ AtTail(tw) \/ tw.buffers[tw.current].fin THEN tw
    ELSE LET b == tw.buffers[tw.current]
             size == Least(n, Len(b.data) - diffTCPSequence(tw.currentSeq, b.seq))
         IN  copyTCPTransmitBuffer(addTCPTransmitSequence(tw, size), n - size)

\* ackTransmitWindow for an acknowledgement of size new bytes.
RECURSIVE ackBuffers(_, _)
ackBuffers(tw, size) ==
    IF size = 0 \/ ~hasTCPTransmitBuffer(tw) THEN [tw |-> tw, rest |-> size]
    ELSE LET b == Head(tw.buffers)
             n == Least(Len(b.data) - diffTCPSequence(tw.begin, b.seq), size)
             acked == [tw EXCEPT !.begin = addTCPSequence(@, n)]
         IN  ackBuffers(IF diffTCPSequence(acked.begin, b.seq) = Len(b.data)
                        THEN popTCPTransmitBuffer(acked) ELSE acked, size - n)

\* An old acknowledgement is more than a window behind.  What is left over acknowledges
\* the SYN, which has no buffer.
ackTransmitWindow(tw, ack) ==
    LET size == diffTCPSequence(ack, tw.begin)
        x == ackBuffers(tw, size)
    IN  IF size > MaxWindow THEN [tw |-> tw, size |-> 0]
        ELSE [tw |-> IF x.rest = 0 THEN x.tw
                     ELSE [x.tw EXCEPT !.begin = ack, !.tail = ack, !.currentSeq = ack],
              size |-> size]

\* receiveTCPACK takes the window size from an old acknowledgement too.
receiveTCPACK(tw, p) ==
    LET x == ackTransmitWindow(tw, p.ack)
    IN  [tw |-> [x.tw EXCEPT !.window = p.window], size |-> x.size]

-----------------------------------------------------------------------------
(* The socket *)

createTCPSocket ==
    [pc |-> "handshake", retry |-> 0, fault |-> FALSE, tailIsFIN |-> FALSE,
     rw |-> initTCPReceiveWindow, tw |-> initTCPTransmitWindow,
     written |-> 0, closing |-> FALSE, sentFINACK |-> FALSE,
     needACK |-> FALSE, mustTransmit |-> FALSE, needRetransmit |-> FALSE,
     ackTimer |-> FALSE, retransmitTimer |-> FALSE, count |-> 0, start |-> 0]

TCPInit ==
    /\ traffic \in Traffic
    /\ \E memory \in BOOLEAN : tcp = [createTCPSocket EXCEPT !.tailIsFIN = memory]
    /\ delivered = <<>>
    /\ sent = 0
    /\ offered = WindowSize

\* One packet, of data or of FIN.
transmitPacket(tw) ==
    IF ~AtTail(tw) /\ tw.buffers[tw.current].fin THEN addTCPTransmitSequence(tw, 1)
    ELSE copyTCPTransmitBuffer(tw, Least(getTCPTransmitRemainSize(tw), tw.mss))

\* transmitTCP: as many packets as the window allows, at least one if it must.  With
\* nothing to transmit it reads tail->isFIN, which nobody initialized: what the memory
\* of the socket held decides whether the assertion of transmitTCPFINPacket fails.
RECURSIVE transmitTCP(_, _, _)
transmitTCP(s, must, packets) ==
    IF ~must /\ AtTail(s.tw) THEN [s |-> s, packets |-> packets]
    ELSE IF AtTail(s.tw) /\ s.tailIsFIN THEN [s |-> [s EXCEPT !.fault = TRUE], packets |-> packets]
    ELSE LET tw == transmitPacket(s.tw)
         IN  IF ~must /\ tw.currentSeq = s.tw.currentSeq
             THEN [s |-> [s EXCEPT !.tw = tw], packets |-> packets]
             ELSE transmitTCP([s EXCEPT !.tw = tw,
                                        !.sentFINACK = @ \/ getTCPReceiveACK(s.rw).isFIN],
                              FALSE, packets + 1)

\* What a transmission leaves to be done, ...
transmitted(x) ==
    IF x.packets = 0 THEN x.s ELSE [x.s EXCEPT !.needACK = FALSE, !.mustTransmit = FALSE]

\* ... the retransmission that new data ask for ...
needRetransmit(s, seq) ==
    IF s.tw.currentSeq = seq \/ s.needRetransmit THEN s
    ELSE [s EXCEPT !.needRetransmit = TRUE, !.count = 0, !.start = s.tw.begin]

\* ... and the alarms, unless the connection is over.
setTimers(s) ==
    IF s.closing /\ ~hasTCPTransmitBuffer(s.tw) /\ s.sentFINACK THEN [s EXCEPT !.pc = "flush"]
    ELSE [s EXCEPT !.ackTimer = @ \/ s.needACK, !.retransmitTimer = @ \/ s.needRetransmit]

\* The right edge of the window that an acknowledgement offers.
Edge(ack) == RemotePosition(addTCPSequence(ack.number, ack.window))

Greater(a, b) == IF a > b THEN a ELSE b

\* The top of tcpLoop, from the copy to the readers to the wait for I/O, and what the user
\* and the peer see of it.
Pass(s0) ==
    \E got \in {copyTCPReceiveBuffer(s0.rw)} :
    \E s \in {[s0 EXCEPT !.rw = finishReaders(got.rw), !.needACK = @ \/ got.out # <<>>]} :
    \E x \in {transmitTCP(s, s.mustTransmit, 0)} :
        /\ tcp' = setTimers(needRetransmit(transmitted(x), s.tw.currentSeq))
        /\ delivered' = delivered \o got.out
        /\ sent' = Greater(sent, diffTCPSequence(x.s.tw.currentSeq, Local(0)))
        /\ offered' = IF x.packets = 0 THEN offered
                      ELSE Greater(offered, Edge(getTCPReceiveACK(s.rw)))
        /\ UNCHANGED traffic

Looping == tcp.pc = "loop" /\ ~tcp.fault

Fails(s) ==
    /\ tcp' = [s EXCEPT !.fault = TRUE]
    /\ UNCHANGED <<traffic, delivered, sent, offered>>

-----------------------------------------------------------------------------
(* Handshake *)

\* tcpHandShake, tcpServerHandShake: a try that ends with a timeout or a bad answer.
retryHandShake ==
    /\ tcp.pc = "handshake" /\ ~tcp.fault
    /\ tcp' = IF tcp.retry = RetransmitLimit THEN [tcp EXCEPT !.pc = "closed"]
                                             ELSE [tcp EXCEPT !.retry = @ + 1]
    /\ UNCHANGED <<traffic, delivered, sent, offered>>

\* receiveTCPSYN, receiveTCPACK and synTCPReceiveWindow of both kinds of handshake.
Synchronized(mss, window) ==
    [tcp EXCEPT !.pc = "loop", !.retry = 0,
                !.tw = [receiveTCPACK(@, [ack |-> Local(0), window |-> window]).tw
                          EXCEPT !.mss = mss],
                !.rw.begin = Remote(0)]

\* The client has got SYN and ACK and answers with an acknowledgement.
tcpHandShake(mss, window) ==
    /\ tcp.pc = "handshake" /\ ~tcp.fault
    /\ tcp' = transmitTCP(Synchronized(mss, window), TRUE, 0).s
    /\ UNCHANGED <<traffic, delivered, sent, offered>>

-----------------------------------------------------------------------------
(* tcpLoop *)

\* What the peer can have sent: bytes within the window it was offered, and FIN after the
\* last of them.
PeerPackets ==
    UNION {[from : {n}, size : {m}, fin : {FALSE} \cup {n + m = PeerLength /\ (FINWithData \/ m = 0)},
            ack : {Local(k) : k \in 0..sent}, window : PeerWindow] :
              <<n, m>> \in {x \in (0..PeerLength) \X (0..WindowSize) :
                              x[1] + x[2] <= Least(PeerLength, offered)}}

\* The receive half of receiveTCPDataPacket.  A packet with FIN ends the stream where the
\* packet begins, and its data are dropped.
receiveTCPData(rw, p) ==
    IF p.fin
    THEN LET diff == diffTCPSequence(Remote(p.from), rw.begin)
         IN  IF diff <= WindowSize /\ rw.finish = -1
             THEN [rw EXCEPT !.finish = Remote(p.from), !.length = Least(@, diff)]
             ELSE rw
    ELSE copyTCPReceiveWindow(rw, Remote(p.from), [i \in 1..p.size |-> p.from + i - 1])

\* A packet is asked to be acknowledged if it has data and no FIN, or acknowledges
\* something.  After a FIN that came before its data, the assertion of
\* receiveTCPDataPacket fails.
receiveTCPDataPacket(p) ==
    /\ Looping
    /\ LET a == receiveTCPACK(tcp.tw, p)
           rw == tcp.rw
       IN  IF rw.finish # -1 /\ diffTCPSequence(rw.finish, rw.begin) > rw.length
           THEN Fails([tcp EXCEPT !.tw = a.tw])
           ELSE Pass([tcp EXCEPT !.tw = a.tw, !.rw = receiveTCPData(rw, p),
                                 !.needACK = @ \/ (p.size # 0 /\ ~p.fin) \/ a.size # 0])

\* The server, which got SYN in tcpServerHandshake1, has sent SYN and ACK and now gets an
\* acknowledgement, possibly with data.
tcpServerHandShake(mss, p) ==
    /\ tcp.pc = "handshake" /\ ~tcp.fault
    /\ tcp' = LET s == Synchronized(mss, p.window)
              IN  [s EXCEPT !.rw = receiveTCPData(@, p)]
    /\ UNCHANGED <<traffic, delivered, sent, offered>>

readTCPSocket(size) ==
    /\ Looping /\ ~tcp.closing
    /\ Len(tcp.rw.readers) < ReadLimit
    /\ Pass([tcp EXCEPT !.rw.readers = Append(@, size)])

\* writeTCPSocket: the bytes are copied and the call is completed at once.
writeTCPSocket(size) ==
    /\ Looping /\ ~tcp.closing
    /\ tcp.written + size <= WriteLimit
    /\ Pass([tcp EXCEPT !.tw = pushTCPTransmitBuffer(@, [i \in 1..size |-> tcp.written + i - 1], FALSE),
                        !.written = @ + size])

\* closeTCP: FIN is a buffer of one byte.  The file layer closes a file without requests.
closeTCP ==
    /\ Looping /\ ~tcp.closing /\ tcp.rw.readers = <<>>
    /\ Pass([tcp EXCEPT !.tw = pushTCPTransmitBuffer(@, <<tcp.written>>, TRUE), !.closing = TRUE])

ackTimeout ==
    /\ Looping /\ tcp.ackTimer
    /\ Pass([tcp EXCEPT !.ackTimer = FALSE, !.mustTransmit = @ \/ tcp.needACK])

\* checkRetransmit: nothing to do without unacknowledged data, another period if some
\* were acknowledged in this one, otherwise everything again, RetransmitLimit times.
retransmitTimeout ==
    /\ Looping /\ tcp.retransmitTimer
    /\ LET s == [tcp EXCEPT !.retransmitTimer = FALSE]
       IN  IF ~hasTCPTransmitBuffer(s.tw) THEN Pass([s EXCEPT !.needRetransmit = FALSE])
           ELSE IF s.tw.begin # s.start THEN Pass([s EXCEPT !.count = 0, !.start = s.tw.begin])
           ELSE IF s.count >= RetransmitLimit
                THEN /\ tcp' = [s EXCEPT !.needRetransmit = FALSE, !.pc = "flush"]
                     /\ UNCHANGED <<traffic, delivered, sent, offered>>
           ELSE Pass([s EXCEPT !.count = @ + 1, !.tw = rollbackTCPTransmitSequence(@)])

\* The raw socket, the request FIFO or an alarm failed.
tcpLoopFails ==
    /\ Looping
    /\ tcp' = [tcp EXCEPT !.pc = "flush"]
    /\ UNCHANGED <<traffic, delivered, sent, offered>>

\* flushTCPRWRequest answers every call with 0 until the user closes; deleteTCPSocket.
flushTCPRWRequest ==
    /\ tcp.pc = "flush"
    /\ tcp' = [createTCPSocket EXCEPT !.pc = "closed"]
    /\ UNCHANGED <<traffic, delivered, sent, offered>>

-----------------------------------------------------------------------------
Sequence == 0..SequenceRange - 1

TCPTypeOK ==
    /\ tcp.pc \in {"handshake", "loop", "flush", "closed"}
    /\ tcp.retry \in 0..RetransmitLimit /\ tcp.count \in 0..RetransmitLimit
    /\ tcp.rw.begin \in Sequence /\ tcp.rw.length \in 0..WindowSize
    /\ tcp.rw.finish \in Sequence \cup {-1}
    /\ {tcp.tw.begin, tcp.tw.currentSeq, tcp.tw.tail} \subseteq Sequence
    /\ tcp.tw.current \in 1..Len(tcp.tw.buffers) + 1
    /\ tcp.written \in 0..WriteLimit
    /\ sent \in 0..WriteLimit + 1
    /\ offered \in 0..PeerLength + WindowSize + 1

\* The bytes of the local stream that the transmit window still has.
Kept == UNION {{<<addTCPSequence(tcp.tw.buffers[i].seq, j - 1), tcp.tw.buffers[i].data[j]>> :
                   j \in 1..Len(tcp.tw.buffers[i].data)} : i \in 1..Len(tcp.tw.buffers)}

\* Both streams of a connection stay intact although packets are lost, repeated and
\* reordered, windows open and close and sequence numbers wrap around: what reads have
\* returned is the beginning of the peer's stream, byte by byte; the end of the stream is
\* where a peer that sends FIN in a packet of its own put it, and with another peer it is
\* neither behind the stream nor before what reads have returned; and every byte that the
\* user wrote and the peer did not acknowledge is still in the transmit window, under the
\* sequence number it was or will be sent with, the next byte to send being inside the
\* current buffer.
TCPStreamsIntact ==
    /\ TCPTypeOK
    /\ \A i \in 1..Len(delivered) : delivered[i] = i - 1
    /\ tcp.pc = "loop" /\ ~tcp.fault =>
        /\ tcp.rw.begin = Remote(Len(delivered))
        /\ tcp.rw.finish # -1 =>
              /\ RemotePosition(tcp.rw.finish) \in Len(delivered)..PeerLength
              /\ ~FINWithData => RemotePosition(tcp.rw.finish) = PeerLength
        /\ \A n \in 0..tcp.written - 1 :
              n >= diffTCPSequence(tcp.tw.begin, Local(0)) => <<Local(n), n>> \in Kept
        /\ ~AtTail(tcp.tw) =>
              LET b == tcp.tw.buffers[tcp.tw.current]
              IN  diffTCPSequence(tcp.tw.currentSeq, b.seq) <= Len(b.data)
        /\ AtTail(tcp.tw) => tcp.tw.currentSeq = tcp.tw.tail
=============================================================================
