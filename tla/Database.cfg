SPECIFICATION DatabaseSpec
CONSTANTS
    Content = {z, a}
    Zeroes = z
    NumPages = 2
    ClockMod = 4
    NoPage = NoPage
    MaxBlocks = 3
    MaxRecordBlocks = 3
    BlockSize = 13
    HeaderSize = 2
    IndexSize = 2
    WordSize = 1
    Margin = 2
    NoAddr = NoAddr
    Root = root
    Addr = {root, a1, a2, a3, a4}
    Null = null
    Name <- ThreeNames
    Payload <- ShortAndLong
    TreePayload = {d}
    NoPayload = none
    MaxDepth = 2
SYMMETRY Symmetry
CHECK_DEADLOCK FALSE
INVARIANTS
    Coherent
    RecordBlocksSound
    TreeWellFormed
PROPERTIES
    MostRecentKept
    FlushReachesDisk
    ImplementsBlockStore
    ImplementsRecordStore
    ImplementsHierTree
