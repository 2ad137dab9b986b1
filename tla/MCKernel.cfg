SPECIFICATION Spec
CONSTANTS
    c1 = c1
    c2 = c2
    CPU = {c1, c2}
    MaxOrder = 2
    MaxLinear = 4
    InitialLinear = 2
    PerPage = 2
    MaxPhysical = 4
    Layouts = {{0}, {0, 1}}
    Sizes = {1, 2}
    s1 = s1
    s2 = s2
    s3 = s3
    SlabPage = {s1, s2, s3}
    SlabUnit = {1, 2}
    Capacity <- MCCapacity
    PageSize = 2
    AddressRange = 16
    HeapEnd = 12
    HeaderCount = 2
    ProgramHeader <- MCHeaders
    MaxColumn = 2
    Rows = 2
    Texts <- MCTexts
    Blank = "blank"
    NewLine = "newline"
    Unknown = "unknown"
    ConsoleUser = {u1, u2}
    ConsoleTask = console
    MaxLine = 2
    LineFIFOLength = 2
    BufferSizes = {0, 2}
SYMMETRY MCSymmetry
INVARIANTS
    FreeBlocksPartition
    ReferencesMatchMappings
    NoStaleTranslation
    SlabListsConsistent
    ProgramLoadedOrGone
    NoReadWaitsBesideInput
PROPERTIES
    ImplementsTerminal
