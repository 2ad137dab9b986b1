SPECIFICATION MCSpec
CONSTANTS
    User = {u1, u2}
    Kernel = {k}
    Handle = {h1}
    NoHandle = NoHandle
    Requests = 2
    MaxElements = 1
    BlobSize = 3
    ReadSize = 2
    BlobCount = 1
    Description = {d1, d2}
    TailResource = TailResource
    FATHandle = {o1, o2}
    FATTask = {w1, w2}
    FATHandle1 = o1
    Letters = 1
    Table <- MCTable
    DiskCluster <- MCDisk
    RootCluster = 2
    EndOfCluster = 90
    BadCluster = 80
    ClusterSize = 3
    OffsetRange = 16
    Paths <- MCPaths
    ReadSizes = {0, 2, 3}
    SeekOffsets = {1, 5}
    Contents <- MCContents
    NoFAT = NoFAT
SYMMETRY MCSymmetry
INVARIANTS
    FileCountsRequests
    NoReadMissesElement
    NoReaderMissesResource
    ExitClosesFiles
    FATFilesReferenced
    FATReadsFile
