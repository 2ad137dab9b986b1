SPECIFICATION MCSpec
CONSTANTS
    Socket = {k1, k2}
    Socket1 = k1
    Request1 = q1
    Packet1 = p1
    IPRequest = {q1, q2}
    Packet = {p1, p2}
    FIFOLength = 1
    SequenceRange = 12
    ISS = 9
    IRS = 10
    WindowSize = 2
    MaxWindow = 4
    MaxSegment = {0, 1}
    PeerWindow = {0, 2}
    Traffic <- MCTraffic
    IOSizes = {1, 2}
    ReadLimit = 1
    RetransmitLimit = 1
    Server = {t1, t2}
    Source = {a1, a2, a3}
    Address = {b1}
    MaxQueued = 2
    Descriptors = 4
    FrameBuffers = 2
    NICReader = {f1}
    NICPending = 2
    Port = {d1, d2}
    DiskRequest = {r1, r2, r3}
INVARIANTS
    IPReferencesExact
    DHCPLeavesNoIO
    TCPStreamsIntact
    NoServerMissesSYN
    ReadersApartFromCard
    DiskRequestsFinish
